------------------------ MODULE CareConfirmationsProofs ------------------------
(***************************************************************************)
(* Proofs about CareConfirmations for any entries, members, care parties,  *)
(* overlapping sweeps and editors.                                         *)
(***************************************************************************)
EXTENDS CareConfirmations, TLAPS

-----------------------------------------------------------------------------
(* Type correctness.                                                       *)

\* Replacing the state of one entry, sweep or editor keeps the types.
LEMMA EntryUpdate ==
  ASSUME TypeOK, NEW e \in Entries, NEW row \in EntryRow
  PROVE  [entry EXCEPT ![e] = row] \in [Entries -> EntryRow]
BY DEF TypeOK

\* As EntryUpdate, for the state of a sweep.
LEMMA SweepUpdate ==
  ASSUME TypeOK, NEW s \in Sweeps, NEW v \in SweepState
  PROVE  [sweep EXCEPT ![s] = v] \in [Sweeps -> SweepState]
BY DEF TypeOK

\* The rows the handlers write are rows.
LEMMA RowTypes ==
  /\ NoRow \in RequestRow
  /\ FreshRow \in RequestRow
  /\ \A row \in RequestRow, s \in Sweeps :
       /\ Recorded(row, s) \in RequestRow
       /\ [row EXCEPT !.picked = @ \union {s}] \in RequestRow
       /\ [row EXCEPT !.picked = @ \ {s}] \in RequestRow
  /\ \A row \in RequestRow :
       /\ [row EXCEPT !.status = "answered", !.answered = TRUE] \in RequestRow
       /\ [row EXCEPT !.status = "snoozed", !.timer = "running"] \in RequestRow
       /\ [row EXCEPT !.due = TRUE] \in RequestRow
       /\ [row EXCEPT !.timer = "elapsed"] \in RequestRow
<1> USE DEF RequestRow
<1>1. NoRow \in RequestRow
  BY DEF NoRow
<1>2. FreshRow \in RequestRow
  BY <1>1 DEF FreshRow
<1>3. ASSUME NEW row \in RequestRow, NEW s \in Sweeps
      PROVE  Recorded(row, s) \in RequestRow
  BY DEF Recorded
<1>4. ASSUME NEW row \in RequestRow, NEW s \in Sweeps
      PROVE  /\ [row EXCEPT !.picked = @ \union {s}] \in RequestRow
             /\ [row EXCEPT !.picked = @ \ {s}] \in RequestRow
  OBVIOUS
<1>5. ASSUME NEW row \in RequestRow
      PROVE  /\ [row EXCEPT !.status = "answered", !.answered = TRUE] \in RequestRow
             /\ [row EXCEPT !.status = "snoozed", !.timer = "running"] \in RequestRow
  OBVIOUS
<1>6. ASSUME NEW row \in RequestRow
      PROVE  /\ [row EXCEPT !.due = TRUE] \in RequestRow
             /\ [row EXCEPT !.timer = "elapsed"] \in RequestRow
  OBVIOUS
<1> HIDE DEF RequestRow
<1> QED
  BY <1>1, <1>2, <1>3, <1>4, <1>5, <1>6

\* Soft deletion keeps the types.
LEMMA RetireType ==
  ASSUME TypeOK, NEW tasks
  PROVE  Retire(tasks) \in [Tasks -> RequestRow]
BY RowTypes DEF Retire, TypeOK

\* The initial state is well typed.
LEMMA InitType == Init => TypeOK
<1> SUFFICES ASSUME Init PROVE TypeOK
  OBVIOUS
<1>1. request \in [Tasks -> RequestRow]
  BY RowTypes DEF Init
<1>2. IdleSweep \in SweepState
  BY DEF IdleSweep, SweepState
<1>3. sweep \in [Sweeps -> SweepState]
  BY <1>2 DEF Init
<1>4. entry \in [Entries -> EntryRow] /\ edit \in [Editors -> SUBSET EditCopy]
  BY DEF Init
<1> QED
  BY <1>1, <1>3, <1>4 DEF Init, TypeOK

\* The steps of a sweep keep the types.
LEMMA SweepType == TypeOK /\ SweepNext => TypeOK'
<1> SUFFICES ASSUME TypeOK, SweepNext PROVE TypeOK'
  OBVIOUS
<1>0. /\ \A s \in Sweeps : sweep[s] \in SweepState
      /\ \A t \in Tasks : request[t] \in RequestRow
      /\ IdleSweep \in SweepState
  BY DEF TypeOK, IdleSweep, SweepState
<1>1. ASSUME NEW s \in Sweeps, CreateRead(s) PROVE TypeOK'
  <2> DEFINE wanted == {t \in Tasks : Wanted(t)}
  <2>1. ConflictIds \subseteq Entries
    BY DEF ConflictIds
  <2>2. [IdleSweep EXCEPT !.phase = "create", !.conflicts = ConflictIds, !.wanted = wanted]
          \in SweepState
    BY <1>0, <2>1 DEF SweepState
  <2>3. sweep' \in [Sweeps -> SweepState]
    BY <1>1, <2>2, SweepUpdate DEF CreateRead
  <2> QED
    BY <1>1, <2>3 DEF CreateRead, TypeOK
<1>2. ASSUME NEW s \in Sweeps, CreateCommit(s) PROVE TypeOK'
  <2>1. [IdleSweep EXCEPT !.phase = "select"] \in SweepState
    BY <1>0 DEF SweepState
  <2>2. sweep' \in [Sweeps -> SweepState]
    BY <1>2, <2>1, SweepUpdate DEF CreateCommit
  <2>3. request' \in [Tasks -> RequestRow]
    BY <1>0, <1>2, RowTypes DEF CreateCommit
  <2> QED
    BY <1>2, <2>2, <2>3 DEF CreateCommit, TypeOK
<1>3. ASSUME NEW s \in Sweeps, PushSelect(s) PROVE TypeOK'
  <2> DEFINE members == {t[2] : t \in {p \in Tasks : Pushable(p)}}
  <2>1. members \subseteq Users
    BY DEF Tasks
  <2>2. [sweep[s] EXCEPT !.phase = "push", !.todo = members] \in SweepState
    BY <1>0, <2>1 DEF SweepState
  <2>3. sweep' \in [Sweeps -> SweepState]
    BY <1>3, <2>2, SweepUpdate DEF PushSelect
  <2>4. request' \in [Tasks -> RequestRow]
    BY <1>0, <1>3, RowTypes DEF PushSelect
  <2> QED
    BY <1>3, <2>3, <2>4 DEF PushSelect, TypeOK
<1>4. ASSUME NEW s \in Sweeps, NEW u \in Users, PushDeliver(s, u) PROVE TypeOK'
  <2>1. [sweep[s] EXCEPT !.phase = "commit", !.target = {u}] \in SweepState
    BY <1>0 DEF SweepState
  <2>2. sweep' \in [Sweeps -> SweepState]
    BY <1>4, <2>1, SweepUpdate DEF PushDeliver
  <2> QED
    BY <1>4, <2>2 DEF PushDeliver, TypeOK
<1>5. ASSUME NEW s \in Sweeps, NEW u \in Users, PushCommit(s, u) PROVE TypeOK'
  <2>1. [sweep[s] EXCEPT !.phase = "push", !.target = {}, !.todo = sweep[s].todo \ {u}]
          \in SweepState
    BY <1>0 DEF SweepState
  <2>2. sweep' \in [Sweeps -> SweepState]
    BY <1>5, <2>1, SweepUpdate DEF PushCommit
  <2>3. request' \in [Tasks -> RequestRow]
    BY <1>0, <1>5, RowTypes DEF PushCommit
  <2> QED
    BY <1>5, <2>2, <2>3 DEF PushCommit, TypeOK
<1>6. ASSUME NEW s \in Sweeps, SweepDone(s) PROVE TypeOK'
  <2>1. sweep' \in [Sweeps -> SweepState]
    BY <1>0, <1>6, SweepUpdate DEF SweepDone
  <2> QED
    BY <1>6, <2>1 DEF SweepDone, TypeOK
<1>7. ASSUME NEW s \in Sweeps, SweepAbort(s) PROVE TypeOK'
  <2>1. sweep' \in [Sweeps -> SweepState]
    BY <1>0, <1>7, SweepUpdate DEF SweepAbort
  <2>2. request' \in [Tasks -> RequestRow]
    BY <1>0, <1>7, RowTypes DEF SweepAbort, Unpick
  <2> QED
    BY <1>7, <2>1, <2>2 DEF SweepAbort, TypeOK
<1> QED
  BY <1>1, <1>2, <1>3, <1>4, <1>5, <1>6, <1>7 DEF SweepNext

\* What members do keeps the types.
LEMMA MemberType == TypeOK /\ MemberNext => TypeOK'
<1> SUFFICES ASSUME TypeOK, MemberNext PROVE TypeOK'
  OBVIOUS
<1>0. /\ \A e \in Entries : entry[e] \in EntryRow
      /\ \A t \in Tasks : request[t] \in RequestRow
      /\ \A t \in Tasks : t[1] \in Entries /\ t[2] \in Users
  BY DEF TypeOK, Tasks
<1>1. ASSUME NEW t \in Tasks, NEW outcome \in {"done", "cancelled"}, Answer(t, outcome)
      PROVE  TypeOK'
  <2> DEFINE row == [entry[t[1]] EXCEPT !.status = outcome, !.confirmedBy = t[2]]
  <2>0. \A r \in EntryRow, u \in Users :
          [r EXCEPT !.status = outcome, !.confirmedBy = u] \in EntryRow
    BY DEF EntryRow
  <2>1. row \in EntryRow
    BY <1>0, <2>0
  <2>2. entry' = [entry EXCEPT ![t[1]] = row]
    BY <1>1 DEF Answer
  <2>3. entry' \in [Entries -> EntryRow]
    <3> HIDE DEF row
    <3> QED
      BY <1>0, <2>1, <2>2, EntryUpdate
  <2>4. request' \in [Tasks -> RequestRow]
    BY <1>0, <1>1, RowTypes DEF Answer
  <2>5. overlap' \subseteq Pairs
    BY <1>1 DEF Answer, NewOverlaps, TypeOK
  <2> QED
    BY <1>1, <2>3, <2>4, <2>5 DEF Answer, TypeOK
<1>2. ASSUME NEW t \in Tasks, RemindLater(t) PROVE TypeOK'
  <2>1. [request[t] EXCEPT !.status = "snoozed", !.timer = "running"] \in RequestRow
    BY <1>0 DEF RequestRow
  <2>2. request' \in [Tasks -> RequestRow]
    BY <1>2, <2>1 DEF RemindLater, TypeOK
  <2> QED
    BY <1>2, <2>2 DEF RemindLater, TypeOK
<1>3. ASSUME NEW u \in Users, ListOpen(u) PROVE TypeOK'
  BY <1>3, RetireType DEF ListOpen, TypeOK
<1>4. ASSUME NEW u \in Users, RemoveMember(u) PROVE TypeOK'
  BY <1>4, RetireType DEF RemoveMember, TypeOK
<1>5. ASSUME NEW u \in Users, NEW parties \in SUBSET Parties, JoinMember(u, parties) PROVE TypeOK'
  BY <1>5 DEF JoinMember, TypeOK
<1>6. ASSUME NEW u \in Users, NEW parties \in SUBSET Parties, ChangeAccess(u, parties) PROVE TypeOK'
  BY <1>6, RetireType DEF ChangeAccess, TypeOK
<1> QED
  BY <1>1, <1>2, <1>3, <1>4, <1>5, <1>6 DEF MemberNext

\* What editors and rules do keeps the types.
LEMMA EntryType == TypeOK /\ EntryNext => TypeOK'
<1> SUFFICES ASSUME TypeOK, EntryNext PROVE TypeOK'
  OBVIOUS
<1>0. /\ \A e \in Entries : entry[e] \in EntryRow
      /\ \A d \in Editors : edit[d] \subseteq EditCopy
  BY DEF TypeOK
<1>1. ASSUME NEW d \in Editors, NEW e \in Entries, EditRead(d, e) PROVE TypeOK'
  <2>1. [id |-> e, confirmedBy |-> entry[e].confirmedBy] \in EditCopy
    BY <1>0 DEF EditCopy, EntryRow
  <2>2. edit' \in [Editors -> SUBSET EditCopy]
    BY <1>1, <2>1 DEF EditRead, TypeOK
  <2> QED
    BY <1>1, <2>2 DEF EditRead, TypeOK
<1>2. ASSUME NEW d \in Editors PROVE [edit EXCEPT ![d] = {}] \in [Editors -> SUBSET EditCopy]
  BY DEF TypeOK
<1>3. ASSUME NEW d \in Editors, NEW copy \in edit[d], NEW status \in {"planned", "done", "cancelled"},
             NEW ended \in BOOLEAN, NEW party \in Parties, NEW o \in SUBSET Pairs,
             EditCommit(d, copy, status, ended, party, o)
      PROVE  TypeOK'
  <2> DEFINE e == copy.id
             confirmedBy == IF status = "planned" THEN NoOne
                            ELSE IF copy.confirmedBy # NoOne THEN copy.confirmedBy ELSE d
             row == [status |-> status, confirmedBy |-> confirmedBy, ended |-> ended,
                     deleted |-> FALSE, manual |-> e \in RuleEntries, party |-> party]
  <2>1. e \in Entries /\ confirmedBy \in Users \union Editors \union {NoOne}
    BY <1>0 DEF EditCopy
  <2>2. row \in EntryRow
    BY <2>1 DEF EntryRow
  <2>3. entry' = [entry EXCEPT ![e] = row]
    BY <1>3 DEF EditCommit
  <2>4. entry' \in [Entries -> EntryRow]
    <3> HIDE DEF row, e
    <3> QED
      BY <2>1, <2>2, <2>3, EntryUpdate
  <2>5. request' \in [Tasks -> RequestRow]
    BY <1>3, RetireType DEF EditCommit, RetireOpen, TypeOK
  <2> QED
    BY <1>2, <1>3, <2>4, <2>5 DEF EditCommit, TypeOK
<1>4. ASSUME NEW d \in Editors, EditReject(d) PROVE TypeOK'
  BY <1>2, <1>4 DEF EditReject, TypeOK
<1>5. ASSUME NEW e \in Entries, DeleteEntry(e) PROVE TypeOK'
  <2>1. [entry[e] EXCEPT !.deleted = TRUE] \in EntryRow
    BY <1>0 DEF EntryRow
  <2> QED
    BY <1>5, <2>1, EntryUpdate DEF DeleteEntry, TypeOK
<1>6. ASSUME NEW e \in Entries, ReplaceRuleOccurrence(e) PROVE TypeOK'
  <2>1. [entry[e] EXCEPT !.status = "cancelled", !.manual = TRUE] \in EntryRow
    BY <1>0 DEF EntryRow
  <2> QED
    BY <1>6, <2>1, EntryUpdate DEF ReplaceRuleOccurrence, TypeOK
<1>7. ASSUME NEW e \in Entries, RetireRuleEntry(e) PROVE TypeOK'
  <2>1. [entry[e] EXCEPT !.deleted = TRUE] \in EntryRow
    BY <1>0 DEF EntryRow
  <2> QED
    BY <1>7, <2>1, EntryUpdate, RetireType DEF RetireRuleEntry, RetireOpen, TypeOK
<1>8. ASSUME NEW e \in Entries, NEW ended \in BOOLEAN, NEW manual \in BOOLEAN,
             NEW party \in Parties, NEW o \in SUBSET Pairs,
             MoveRuleEntry(e, ended, manual, party, o)
      PROVE  TypeOK'
  <2>1. [entry[e] EXCEPT !.ended = ended, !.manual = manual, !.party = party] \in EntryRow
    BY <1>0 DEF EntryRow
  <2> QED
    BY <1>8, <2>1, EntryUpdate DEF MoveRuleEntry, TypeOK
<1> QED
  BY <1>1, <1>3, <1>4, <1>5, <1>6, <1>7, <1>8 DEF EntryNext

\* The passage of time keeps the types.
LEMMA TimeType == TypeOK /\ TimeNext => TypeOK'
<1> SUFFICES ASSUME TypeOK, TimeNext PROVE TypeOK'
  OBVIOUS
<1>1. ASSUME NEW e \in Entries, EntryEnds(e) PROVE TypeOK'
  <2>1. [entry[e] EXCEPT !.ended = TRUE] \in EntryRow
    BY DEF EntryRow, TypeOK
  <2> QED
    BY <1>1, <2>1, EntryUpdate DEF EntryEnds, TypeOK
<1>2. ASSUME NEW t \in Tasks, TaskComesDue(t) PROVE TypeOK'
  <2>1. [request[t] EXCEPT !.due = TRUE] \in RequestRow
    BY DEF RequestRow, TypeOK
  <2> QED
    BY <1>2, <2>1 DEF TaskComesDue, TypeOK
<1>3. ASSUME NEW t \in Tasks, ReminderElapses(t) PROVE TypeOK'
  <2>1. [request[t] EXCEPT !.timer = "elapsed"] \in RequestRow
    BY DEF RequestRow, TypeOK
  <2> QED
    BY <1>3, <2>1 DEF ReminderElapses, TypeOK
<1> QED
  BY <1>1, <1>2, <1>3 DEF TimeNext

\* Every step keeps the types.
LEMMA TypeStep == TypeOK /\ [Next]_vars => TypeOK'
<1>1. TypeOK /\ UNCHANGED vars => TypeOK'
  BY DEF TypeOK, vars
<1> QED
  BY <1>1, SweepType, MemberType, EntryType, TimeType DEF Next

\* Every variable keeps its type, for any number of members, sweeps and editors.
THEOREM TypeCorrect == Spec => []TypeOK
BY InitType, TypeStep, PTL DEF Spec

-----------------------------------------------------------------------------
(* Care that took place never overlaps.                                    *)

Actual(e) == Counted(e) /\ entry[e].status = "done"

\* A step that completes no appointment and moves none cannot create a conflict.
LEMMA NothingCompleted ==
  ASSUME TypeOK, ActualCareNeverOverlaps, UNCHANGED overlap,
         \A e \in Entries : Actual(e)' => Actual(e)
  PROVE  ActualCareNeverOverlaps'
<1> SUFFICES ASSUME NEW pair \in overlap PROVE \E e \in pair : ~Actual(e)'
  BY DEF ActualCareNeverOverlaps, Actual, Counted
<1>1. PICK e \in pair : ~Actual(e)
  BY DEF ActualCareNeverOverlaps, Actual
<1>2. e \in Entries
  BY DEF TypeOK, Pairs
<1> QED
  BY <1>1, <1>2

\* A step that writes one appointment and its overlaps keeps to the rule if the
\* appointment is not completed or has passed the check.
LEMMA OneEntryWritten ==
  ASSUME TypeOK, ActualCareNeverOverlaps, NEW e \in Entries,
         overlap' \in NewOverlaps(e),
         \A f \in Entries \ {e} : entry'[f] = entry[f],
         Actual(e)' => NoActualConflict(e, overlap')
  PROVE  ActualCareNeverOverlaps'
<1> SUFFICES ASSUME NEW pair \in overlap' PROVE \E f \in pair : ~Actual(f)'
  BY DEF ActualCareNeverOverlaps, Actual, Counted
<1>0. pair \in Pairs
  BY DEF NewOverlaps
<1>1. PICK a \in Entries, b \in Entries : a # b /\ pair = {a, b}
  BY <1>0 DEF Pairs
<1>2. \A f \in Entries \ {e} : Actual(f)' <=> Actual(f)
  BY DEF Actual, Counted
<1>3. CASE e \notin pair
  <2>1. pair \in overlap
    BY <1>0, <1>3 DEF NewOverlaps
  <2>2. PICK f \in pair : ~Actual(f)
    BY <2>1 DEF ActualCareNeverOverlaps, Actual
  <2> QED
    BY <1>1, <1>2, <1>3, <2>2
<1>4. CASE e \in pair /\ ~Actual(e)'
  BY <1>4
<1>5. CASE e \in pair /\ Actual(e)'
  <2>1. PICK f \in pair : f # e
    BY <1>1, <1>5
  <2>2. ~Actual(f)
    BY <1>5, <2>1 DEF NoActualConflict, Actual
  <2> QED
    BY <1>1, <1>2, <2>1, <2>2
<1> QED
  BY <1>3, <1>4, <1>5

\* The steps of appointments: each either completes nothing or passes the check.
LEMMA EntryKeepsActual ==
  TypeOK /\ ActualCareNeverOverlaps /\ EntryNext => ActualCareNeverOverlaps'
<1> SUFFICES ASSUME TypeOK, ActualCareNeverOverlaps, EntryNext PROVE ActualCareNeverOverlaps'
  OBVIOUS
<1>0. entry \in [Entries -> EntryRow] /\ \A d \in Editors : \A copy \in edit[d] : copy.id \in Entries
  BY DEF TypeOK, EditCopy
<1>1. ASSUME NEW d \in Editors, NEW e \in Entries, EditRead(d, e) PROVE ActualCareNeverOverlaps'
  BY <1>1, NothingCompleted DEF EditRead, Actual, Counted
<1>2. ASSUME NEW d \in Editors, NEW copy \in edit[d], NEW status \in {"planned", "done", "cancelled"},
             NEW ended \in BOOLEAN, NEW party \in Parties, NEW o \in SUBSET Pairs,
             EditCommit(d, copy, status, ended, party, o)
      PROVE  ActualCareNeverOverlaps'
  <2>0. PICK e \in Entries : e = copy.id
    BY <1>0
  <2>1. overlap' \in NewOverlaps(e)
    BY <1>2, <2>0 DEF EditCommit
  <2>2. \A f \in Entries \ {e} : entry'[f] = entry[f]
    BY <1>0, <1>2, <2>0 DEF EditCommit
  <2>3. entry'[e].status = status
    BY <1>0, <1>2, <2>0 DEF EditCommit
  <2>4. Actual(e)' => NoActualConflict(e, overlap')
    BY <1>2, <2>0, <2>3 DEF EditCommit, Actual, NoActualConflict
  <2> QED
    BY <2>1, <2>2, <2>4, OneEntryWritten
<1>3. ASSUME NEW d \in Editors, EditReject(d) PROVE ActualCareNeverOverlaps'
  BY <1>3, NothingCompleted DEF EditReject, Actual, Counted
<1>4. ASSUME NEW e \in Entries,
             DeleteEntry(e) \/ ReplaceRuleOccurrence(e) \/ RetireRuleEntry(e)
      PROVE  ActualCareNeverOverlaps'
  <2>1. UNCHANGED overlap
    BY <1>4 DEF DeleteEntry, ReplaceRuleOccurrence, RetireRuleEntry
  <2>2. \A f \in Entries : Actual(f)' => Actual(f)
    BY <1>0, <1>4
    DEF DeleteEntry, ReplaceRuleOccurrence, RetireRuleEntry, Actual, Counted, EntryRow
  <2> QED
    BY <2>1, <2>2, NothingCompleted
<1>5. ASSUME NEW e \in Entries, NEW ended \in BOOLEAN, NEW manual \in BOOLEAN,
             NEW party \in Parties, NEW o \in SUBSET Pairs,
             MoveRuleEntry(e, ended, manual, party, o)
      PROVE  ActualCareNeverOverlaps'
  <2>1. overlap' \in NewOverlaps(e) /\ \A f \in Entries \ {e} : entry'[f] = entry[f]
    BY <1>0, <1>5 DEF MoveRuleEntry
  <2>2. entry'[e].status = "planned"
    BY <1>0, <1>5 DEF MoveRuleEntry, Replaceable, EntryRow
  <2> QED
    BY <2>1, <2>2, OneEntryWritten DEF Actual
<1> QED
  BY <1>1, <1>2, <1>3, <1>4, <1>5 DEF EntryNext

\* Answers: a done answer passes the check, a cancelled one completes nothing.
LEMMA AnswerKeepsActual ==
  ASSUME TypeOK, ActualCareNeverOverlaps, NEW t \in Tasks,
         NEW outcome \in {"done", "cancelled"}, Answer(t, outcome)
  PROVE  ActualCareNeverOverlaps'
<1> DEFINE e == t[1]
<1>0. entry \in [Entries -> EntryRow] /\ e \in Entries
  BY DEF TypeOK, Tasks
<1>1. entry' = [entry EXCEPT ![e] = [@ EXCEPT !.status = outcome, !.confirmedBy = t[2]]]
  BY DEF Answer
<1>2. IF outcome = "done" THEN overlap' \in {o \in NewOverlaps(e) : NoActualConflict(e, o)}
                          ELSE UNCHANGED overlap
  BY DEF Answer
<1> HIDE DEF e
<1>3. (\A f \in Entries \ {e} : entry'[f] = entry[f]) /\ entry'[e].status = outcome
  BY <1>0, <1>1 DEF EntryRow
<1>4. CASE outcome = "done"
  <2>1. overlap' \in NewOverlaps(e) /\ NoActualConflict(e, overlap')
    BY <1>2, <1>4
  <2> QED
    BY <1>0, <1>3, <2>1, OneEntryWritten
<1>5. CASE outcome = "cancelled"
  BY <1>0, <1>2, <1>3, <1>5, NothingCompleted DEF Actual, Counted
<1> QED
  BY <1>4, <1>5

\* Two live entries that overlap and share a child are never both completed, for any
\* number of entries and whatever answers, edits, late PUTs and rule changes overlap.
THEOREM ActualCareIsConsistent == Spec => []ActualCareNeverOverlaps
<1>1. Init => ActualCareNeverOverlaps
  BY DEF Init, ActualCareNeverOverlaps
<1>2. TypeOK /\ ActualCareNeverOverlaps /\ [Next]_vars => ActualCareNeverOverlaps'
  <2> SUFFICES ASSUME TypeOK, ActualCareNeverOverlaps, [Next]_vars
               PROVE  ActualCareNeverOverlaps'
    OBVIOUS
  <2>0. entry \in [Entries -> EntryRow]
    BY DEF TypeOK
  <2>1. CASE SweepNext
    <3>1. UNCHANGED <<entry, overlap>>
      BY <2>1 DEF SweepNext, CreateRead, CreateCommit, PushSelect, PushDeliver, PushCommit,
                  SweepDone, SweepAbort
    <3> QED
      BY <3>1, NothingCompleted DEF Actual, Counted
  <2>2. CASE MemberNext
    <3>1. \/ \E t \in Tasks, outcome \in {"done", "cancelled"} : Answer(t, outcome)
          \/ UNCHANGED <<entry, overlap>>
      BY <2>2 DEF MemberNext, RemindLater, ListOpen, RemoveMember, JoinMember, ChangeAccess
    <3>2. CASE UNCHANGED <<entry, overlap>>
      BY <3>2, NothingCompleted DEF Actual, Counted
    <3> QED
      BY <3>1, <3>2, AnswerKeepsActual
  <2>3. CASE EntryNext
    BY <2>3, EntryKeepsActual
  <2>4. CASE TimeNext
    <3>1. UNCHANGED overlap
      BY <2>4 DEF TimeNext, EntryEnds, TaskComesDue, ReminderElapses
    <3>2. \A e \in Entries : Actual(e)' => Actual(e)
      BY <2>0, <2>4 DEF TimeNext, EntryEnds, TaskComesDue, ReminderElapses, Actual, Counted, EntryRow
    <3> QED
      BY <3>1, <3>2, NothingCompleted
  <2>5. CASE UNCHANGED vars
    BY <2>5, NothingCompleted DEF vars, Actual, Counted
  <2> QED
    BY <2>1, <2>2, <2>3, <2>4, <2>5 DEF Next
<1> QED
  BY <1>1, <1>2, TypeCorrect, PTL DEF Spec

-----------------------------------------------------------------------------
(* Rows of tasks.                                                          *)

Timed(row) == row.status = "snoozed" => row.timer # "none"

\* A step may write this row over that one: a snoozed row has a timer, and only an
\* answer marks a row as answered.
MayBecome(old, new) == Timed(new) /\ (new.answered => old.answered)

\* The rows that handlers other than the answer write over a row.
LEMMA RowsWritten ==
  ASSUME NEW row \in RequestRow, Timed(row)
  PROVE  /\ MayBecome(row, row) /\ MayBecome(row, NoRow) /\ MayBecome(row, FreshRow)
         /\ MayBecome(row, [row EXCEPT !.status = "snoozed", !.timer = "running"])
         /\ MayBecome(row, [row EXCEPT !.due = TRUE])
         /\ MayBecome(row, [row EXCEPT !.timer = "elapsed"])
         /\ \A s : /\ MayBecome(row, Recorded(row, s))
                   /\ MayBecome(row, [row EXCEPT !.picked = @ \union {s}])
                   /\ MayBecome(row, [row EXCEPT !.picked = @ \ {s}])
BY DEF MayBecome, Timed, NoRow, FreshRow, Recorded, RequestRow

\* Every step writes only such rows, except for the row that is answered.
LEMMA RowStep ==
  ASSUME TypeOK, SnoozedHasTimer, [Next]_vars, NEW t \in Tasks
  PROVE  \/ MayBecome(request[t], request'[t])
         \/ \E outcome \in {"done", "cancelled"} : Answer(t, outcome)
<1>0. request[t] \in RequestRow /\ Timed(request[t])
  BY DEF TypeOK, SnoozedHasTimer, Timed
<1>1. ASSUME NEW tasks, request' = Retire(tasks) PROVE MayBecome(request[t], request'[t])
  BY <1>0, <1>1, RowsWritten DEF Retire
<1>2. CASE SweepNext
  <2>1. ASSUME NEW s \in Sweeps, CreateCommit(s) PROVE MayBecome(request[t], request'[t])
    BY <1>0, <2>1, RowsWritten DEF CreateCommit
  <2>2. ASSUME NEW s \in Sweeps, PushSelect(s) PROVE MayBecome(request[t], request'[t])
    BY <1>0, <2>2, RowsWritten DEF PushSelect
  <2>3. ASSUME NEW s \in Sweeps, NEW u \in Users, PushCommit(s, u)
        PROVE  MayBecome(request[t], request'[t])
    BY <1>0, <2>3, RowsWritten DEF PushCommit
  <2>4. ASSUME NEW s \in Sweeps, SweepAbort(s) PROVE MayBecome(request[t], request'[t])
    BY <1>0, <2>4, RowsWritten DEF SweepAbort, Unpick
  <2>5. UNCHANGED request => MayBecome(request[t], request'[t])
    BY <1>0, RowsWritten
  <2> QED
    BY <1>2, <2>1, <2>2, <2>3, <2>4, <2>5 DEF SweepNext, CreateRead, PushDeliver, SweepDone
<1>3. CASE MemberNext
  <2>1. ASSUME NEW p \in Tasks, NEW outcome \in {"done", "cancelled"}, Answer(p, outcome), p # t
        PROVE  MayBecome(request[t], request'[t])
    <3>1. request'[t] = request[t] \/ request'[t] = NoRow
      BY <2>1 DEF Answer
    <3> QED
      BY <1>0, <3>1, RowsWritten
  <2>2. ASSUME NEW p \in Tasks, RemindLater(p) PROVE MayBecome(request[t], request'[t])
    <3>1. \/ request'[t] = request[t]
          \/ request'[t] = [request[t] EXCEPT !.status = "snoozed", !.timer = "running"]
      BY <2>2 DEF RemindLater, TypeOK
    <3> QED
      BY <1>0, <3>1, RowsWritten
  <2>3. ASSUME NEW u \in Users, NEW parties \in SUBSET Parties,
               ListOpen(u) \/ RemoveMember(u) \/ ChangeAccess(u, parties) \/ JoinMember(u, parties)
        PROVE  MayBecome(request[t], request'[t])
    BY <1>0, <1>1, <2>3, RowsWritten DEF ListOpen, RemoveMember, ChangeAccess, JoinMember
  <2> QED
    BY <1>3, <2>1, <2>2, <2>3 DEF MemberNext
<1>4. CASE EntryNext
  <2>1. UNCHANGED request \/ \E e \in Entries : request' = RetireOpen(e)
    <3>1. ASSUME NEW d \in Editors, NEW copy \in edit[d], NEW status, NEW ended, NEW party, NEW o,
                 EditCommit(d, copy, status, ended, party, o)
          PROVE  UNCHANGED request \/ \E e \in Entries : request' = RetireOpen(e)
      <4>1. copy.id \in Entries
        BY DEF TypeOK, EditCopy
      <4> QED
        BY <3>1, <4>1 DEF EditCommit
    <3> QED
      BY <1>4, <3>1 DEF EntryNext, EditRead, EditReject, DeleteEntry, ReplaceRuleOccurrence,
                        RetireRuleEntry, MoveRuleEntry
  <2> QED
    BY <1>0, <1>1, <2>1, RowsWritten DEF RetireOpen
<1>5. CASE TimeNext
  <2>1. \/ request'[t] = request[t]
        \/ request'[t] = [request[t] EXCEPT !.due = TRUE]
        \/ request'[t] = [request[t] EXCEPT !.timer = "elapsed"]
    BY <1>5 DEF TimeNext, EntryEnds, TaskComesDue, ReminderElapses, TypeOK
  <2> QED
    BY <1>0, <2>1, RowsWritten
<1>6. CASE UNCHANGED vars
  BY <1>0, <1>6, RowsWritten DEF vars
<1> QED
  BY <1>2, <1>3, <1>4, <1>5, <1>6 DEF Next

\* A snoozed task always has its reminder set, so that some sweep selects it again
\* (remindCareConfirmationLater against the commit of a push under way).
THEOREM SnoozedIsReminded == Spec => []SnoozedHasTimer
<1>1. Init => SnoozedHasTimer
  BY DEF Init, SnoozedHasTimer, NoRow
<1>2. TypeOK /\ SnoozedHasTimer /\ [Next]_vars => SnoozedHasTimer'
  <2> SUFFICES ASSUME TypeOK, SnoozedHasTimer, [Next]_vars, NEW t \in Tasks
               PROVE  Timed(request'[t])
    BY DEF SnoozedHasTimer, Timed
  <2>1. CASE MayBecome(request[t], request'[t])
    BY <2>1 DEF MayBecome
  <2>2. ASSUME NEW outcome \in {"done", "cancelled"}, Answer(t, outcome)
        PROVE  Timed(request'[t])
    <3>1. request'[t] = [request[t] EXCEPT !.status = "answered", !.answered = TRUE]
      BY <2>2 DEF Answer
    <3>2. request'[t].status = "answered"
      BY <3>1 DEF TypeOK, RequestRow
    <3> QED
      BY <3>2 DEF Timed
  <2> QED
    BY <2>1, <2>2, RowStep
<1> QED
  BY <1>1, <1>2, TypeCorrect, PTL DEF Spec

\* A task becomes answered only by its member's own answer, given while the appointment
\* is still open; that step records this member's outcome and leaves nobody an open
\* task, so no later answer overwrites it (answerCareConfirmation).
THEOREM AnswersAreDecisive == Spec => AnswerIsDecisive
<1>1. TypeOK /\ SnoozedHasTimer /\ [Next]_vars =>
        [\A t \in Tasks :
           ~request[t].answered /\ request'[t].answered =>
             /\ Confirmable(t[1])
             /\ entry'[t[1]].status # "planned" /\ entry'[t[1]].confirmedBy = t[2]
             /\ \A p \in TasksOf(t[1]) : ~Unanswered(p)']_vars
  <2> SUFFICES ASSUME TypeOK, SnoozedHasTimer, [Next]_vars, NEW t \in Tasks,
                      ~request[t].answered, request'[t].answered
               PROVE  /\ Confirmable(t[1])
                      /\ entry'[t[1]].status # "planned" /\ entry'[t[1]].confirmedBy = t[2]
                      /\ \A p \in TasksOf(t[1]) : ~Unanswered(p)'
    OBVIOUS
  <2>1. PICK outcome \in {"done", "cancelled"} : Answer(t, outcome)
    BY RowStep DEF MayBecome
  <2>2. t[1] \in Entries /\ entry \in [Entries -> EntryRow]
    BY DEF TypeOK, Tasks
  <2>3. entry' = [entry EXCEPT ![t[1]] = [@ EXCEPT !.status = outcome, !.confirmedBy = t[2]]]
    BY <2>1 DEF Answer
  <2>4. entry'[t[1]].status = outcome /\ entry'[t[1]].confirmedBy = t[2]
    BY <2>2, <2>3 DEF EntryRow
  <2>5. ASSUME NEW p \in TasksOf(t[1]) PROVE ~Unanswered(p)'
    <3>1. CASE p = t
      BY <3>1 DEF Unanswered
    <3>2. CASE p # t /\ Unanswered(p)
      <4>1. request'[p] = NoRow
        BY <2>1, <3>2 DEF Answer, TasksOf
      <4> QED
        BY <4>1 DEF Unanswered, NoRow
    <3>3. CASE p # t /\ ~Unanswered(p)
      <4>1. request'[p] = request[p]
        BY <2>1, <3>3 DEF Answer, TasksOf
      <4> QED
        BY <3>3, <4>1 DEF Unanswered
    <3> QED
      BY <3>1, <3>2, <3>3
  <2> QED
    BY <2>1, <2>4, <2>5 DEF Answer, Answerable
<1> QED
  BY <1>1, TypeCorrect, SnoozedIsReminded, PTL DEF Spec, AnswerIsDecisive

-----------------------------------------------------------------------------
(* What ends the confirmation of an appointment.                           *)

\* retireOpenCareConfirmationRequests leaves no open task of the entry.
LEMMA RetiredLeavesNone ==
  ASSUME NEW e, request' = RetireOpen(e)
  PROVE  \A t \in TasksOf(e) : ~Unanswered(t)'
<1> SUFFICES ASSUME NEW t \in TasksOf(e) PROVE ~Unanswered(t)'
  OBVIOUS
<1>1. t \in Tasks
  BY DEF TasksOf
<1>2. request'[t] = IF Unanswered(t) THEN NoRow ELSE request[t]
  BY <1>1 DEF RetireOpen, Retire
<1> QED
  BY <1>2 DEF Unanswered, NoRow

\* An answer leaves no open task of its entry, and changes no other entry.
LEMMA AnsweredLeavesNone ==
  ASSUME TypeOK, NEW t \in Tasks, NEW outcome \in {"done", "cancelled"}, Answer(t, outcome)
  PROVE  /\ \A e \in Entries \ {t[1]} : entry'[e] = entry[e]
         /\ \A p \in TasksOf(t[1]) : ~Unanswered(p)'
<1>1. \A e \in Entries \ {t[1]} : entry'[e] = entry[e]
  BY DEF Answer, TypeOK
<1>2. ASSUME NEW p \in TasksOf(t[1]) PROVE ~Unanswered(p)'
  <2>0. p \in Tasks /\ p[1] = t[1] /\ request \in [Tasks -> RequestRow]
    BY DEF TasksOf, TypeOK
  <2>1. request'[p] = IF p = t THEN [request[p] EXCEPT !.status = "answered", !.answered = TRUE]
                      ELSE IF Unanswered(p) THEN NoRow ELSE request[p]
    BY <2>0 DEF Answer
  <2>2. [request[p] EXCEPT !.status = "answered", !.answered = TRUE].answered
    BY <2>0 DEF RequestRow
  <2> QED
    BY <2>1, <2>2 DEF Unanswered, NoRow
<1> QED
  BY <1>1, <1>2

\* An appointment whose confirmation ends keeps no open task, whoever ends it, but
\* for a deletion and the resolution of a conflict: for any members, sweeps, rules
\* and copies under way.
THEOREM SavedIsRetired == Spec => SavingRetiresTasks
<1>1. ASSUME TypeOK, [Next]_vars, NEW e \in Entries,
             Confirmable(e), ~Confirmable(e)', ~DeleteEntry(e), ~ReplaceRuleOccurrence(e)
      PROVE  \A t \in TasksOf(e) : ~Unanswered(t)'
  <2>0. /\ entry \in [Entries -> EntryRow] /\ entry'[e] # entry[e]
        /\ \A d \in Editors : \A copy \in edit[d] : copy.id \in Entries
    BY <1>1 DEF Confirmable, TypeOK, EditCopy
  <2>1. CASE SweepNext
    BY <2>0, <2>1 DEF SweepNext, CreateRead, CreateCommit, PushSelect, PushDeliver, PushCommit, SweepDone, SweepAbort
  <2>2. CASE MemberNext
    <3>1. PICK t \in Tasks, outcome \in {"done", "cancelled"} : Answer(t, outcome)
      BY <2>0, <2>2 DEF MemberNext, RemindLater, ListOpen, RemoveMember, JoinMember, ChangeAccess
    <3>2. e = t[1]
      BY <1>1, <2>0, <3>1, AnsweredLeavesNone
    <3> QED
      BY <1>1, <3>1, <3>2, AnsweredLeavesNone
  <2>3. CASE EntryNext
    <3>1. ASSUME NEW d \in Editors, NEW copy \in edit[d], NEW status \in {"planned", "done", "cancelled"},
                 NEW ended \in BOOLEAN, NEW party \in Parties, NEW o \in SUBSET Pairs,
                 EditCommit(d, copy, status, ended, party, o)
          PROVE  request' = RetireOpen(e)
      <4>1. e = copy.id
        BY <2>0, <3>1 DEF EditCommit
      <4>2. /\ entry'[e].status = status /\ ~entry'[e].deleted
            /\ status = "planned" => entry'[e].confirmedBy = NoOne
        BY <2>0, <3>1, <4>1 DEF EditCommit
      <4>3. status # "planned"
        BY <1>1, <4>2 DEF Confirmable
      <4> QED
        BY <3>1, <4>1, <4>3 DEF EditCommit
    <3>2. ASSUME NEW f \in Entries, DeleteEntry(f) \/ ReplaceRuleOccurrence(f) PROVE FALSE
      <4>1. entry'[e] = entry[e] \/ f = e
        BY <2>0, <3>2 DEF DeleteEntry, ReplaceRuleOccurrence
      <4> QED
        BY <1>1, <2>0, <3>2, <4>1
    <3>3. ASSUME NEW f \in Entries, RetireRuleEntry(f) PROVE request' = RetireOpen(e)
      <4>1. f = e
        BY <2>0, <3>3 DEF RetireRuleEntry
      <4> QED
        BY <3>3, <4>1 DEF RetireRuleEntry
    <3>4. ASSUME NEW f \in Entries, NEW ended \in BOOLEAN, NEW manual \in BOOLEAN,
                 NEW party \in Parties, NEW o \in SUBSET Pairs,
                 MoveRuleEntry(f, ended, manual, party, o)
          PROVE  FALSE
      <4>1. /\ entry'[e].status = entry[e].status /\ entry'[e].deleted = entry[e].deleted
            /\ entry'[e].confirmedBy = entry[e].confirmedBy
        BY <2>0, <3>4 DEF MoveRuleEntry, EntryRow
      <4> QED
        BY <1>1, <4>1 DEF Confirmable
    <3>5. UNCHANGED entry \/ request' = RetireOpen(e)
      BY <2>3, <3>1, <3>2, <3>3, <3>4 DEF EntryNext, EditRead, EditReject
    <3> QED
      BY <2>0, <3>5, RetiredLeavesNone
  <2>4. CASE TimeNext
    <3>1. /\ entry'[e].status = entry[e].status /\ entry'[e].deleted = entry[e].deleted
          /\ entry'[e].confirmedBy = entry[e].confirmedBy
      BY <2>0, <2>4 DEF TimeNext, EntryEnds, TaskComesDue, ReminderElapses, EntryRow
    <3> QED
      BY <1>1, <3>1 DEF Confirmable
  <2>5. CASE UNCHANGED vars
    BY <2>0, <2>5 DEF vars
  <2> QED
    BY <1>1, <2>1, <2>2, <2>3, <2>4, <2>5 DEF Next
<1>2. TypeOK /\ [Next]_vars =>
        [\A e \in Entries :
           Confirmable(e) /\ ~Confirmable(e)' /\ ~DeleteEntry(e) /\ ~ReplaceRuleOccurrence(e) =>
             \A t \in TasksOf(e) : ~Unanswered(t)']_vars
  BY <1>1
<1> QED
  BY <1>2, TypeCorrect, PTL DEF Spec, SavingRetiresTasks
=============================================================================
