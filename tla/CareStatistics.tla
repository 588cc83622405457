---------------------------- MODULE CareStatistics ----------------------------
(***************************************************************************)
(* What the application counts: hours, days and nights of care in a month  *)
(* or a longer period, trips, and who had the children in the holidays     *)
(* (lib/analytics.ts, lib/date.ts, shared/temporal.ts).                    *)
(*                                                                         *)
(* An instant is a number, PerDay of them make a day; an interval ends     *)
(* before its "to". Shares of a day are integers: Unit is a whole day, and *)
(* can be divided by everything the code divides it by. Rounding for       *)
(* display is left out.                                                    *)
(***************************************************************************)
EXTENDS ConflictDetection

CONSTANTS
  Entries,   \* ids of care entries
  Parties,   \* care parties
  Drafts,    \* what can be stored as an entry
  Periods,   \* what can be stored as a holiday period
  Holidays,  \* ids of holiday periods
  PerDay,    \* instants of a day
  LastDay,   \* bound: the last day; the first one is 0
  Months,    \* the months, as ranges of days that make up all days
  Defaults,  \* bound: the care parties the settings name
  Unit,      \* a day, as a sum of shares
  Nothing    \* absent value

VARIABLES
  entry,    \* the entries the application has loaded
  holiday,  \* the holiday periods
  primary,  \* the primary care party of the settings
  default   \* the default responsible care party of the settings

vars == <<entry, holiday, primary, default>>

Days == 0..LastDay

\* A day is divided among the care parties, or the two parents of earlier
\* releases, in proportion to hours, and among the children on holiday.
UnitAssumption ==
  /\ PerDay \in Nat \ {0} /\ LastDay \in Nat /\ Unit \in Nat
  /\ \A p \in {1, 2} \cup (1..Cardinality(Parties)), c \in 1..PerDay, k \in 1..Cardinality(Children) :
       Unit % (p * c * k) = 0

MonthAssumption ==
  /\ IsFiniteSet(Months)
  /\ \A m \in Months : m.first \in Days /\ m.last \in Days
  /\ UNION {m.first .. m.last : m \in Months} = Days
  /\ \A m, n \in Months : m # n => (m.first .. m.last) \cap (n.first .. n.last) = {}

DraftAssumption ==
  \A d \in Drafts :
    /\ d.from \in Nat /\ d.to \in Nat /\ d.from < d.to /\ d.to <= (LastDay + 1) * PerDay
    /\ d.kids # {} /\ d.kids \subseteq Children /\ d.party \in Parties \cup {Nothing}
    /\ d.status = "partial" <=> d.actual # Nothing
    /\ d.actual # Nothing =>
         /\ d.actual.from \in Nat /\ d.actual.to \in Nat /\ d.actual.from < d.actual.to
         /\ d.actual.kids # {} /\ d.actual.kids \subseteq Children
         /\ d.actual.party \in Parties \cup {Nothing}

EntryAssumption ==
  /\ Entries \subseteq Nat /\ IsFiniteSet(Entries)
  /\ IsFiniteSet(Children) /\ IsFiniteSet(Parties)
  /\ Nothing \notin [from : Nat, to : Nat]

-----------------------------------------------------------------------------
(* Days and intervals                                                      *)

Whole == [first |-> 0, last |-> LastDay]

\* An interval that ends at midnight does not occupy the day that begins.
DatesOf(iv) == (iv.from \div PerDay)..((iv.to - 1) \div PerDay)

InRange(range) == range.first .. range.last

RangesOverlap(a, b) == a.first <= b.last /\ a.last >= b.first

Bounds(range) == [from |-> range.first * PerDay, to |-> (range.last + 1) * PerDay]

Clipped(iv, bounds) == [from |-> Later(iv.from, bounds.from), to |-> Earlier(iv.to, bounds.to)]

\* Seeded fault: an interval inside the open one ends it.
MergedLast(open, iv) == [open EXCEPT !.to = iv.to]

Merged(open, iv) == [open EXCEPT !.to = Later(@, iv.to)]

Length(open) == IF open = Nothing THEN 0 ELSE open.to - open.from

Starts(a, b) == a.from < b.from \/ (a.from = b.from /\ a.to < b.to)

Added(acc, iv) ==
  IF acc.open # Nothing /\ iv.from <= acc.open.to
  THEN [acc EXCEPT !.open = Merged(acc.open, iv)]
  ELSE [sum |-> acc.sum + Length(acc.open), open |-> iv]

\* unionDuration: merges intervals in the order of their start.
UnionDuration(intervals) ==
  LET end == FoldLeft(Added, [sum |-> 0, open |-> Nothing],
                      InOrder({iv \in intervals : iv.from < iv.to}, Starts))
  IN  end.sum + Length(end.open)

-----------------------------------------------------------------------------
(* Entries                                                                 *)

Rows == {i \in Entries : entry[i] # Nothing}

Interval(r) == [from |-> Effective(r).from, to |-> Effective(r).to]

KidsOf(r) == Effective(r).kids

ResponsibleParty(r) ==
  LET own == IF r.status = "partial" /\ r.actual.party # Nothing THEN r.actual.party ELSE r.party
  IN  IF own # Nothing THEN own ELSE default

\* Selected by the dates of the plan; midnight belongs to the day it begins.
EntriesForRange(range) ==
  {i \in Rows :
     RangesOverlap([first |-> entry[i].from \div PerDay, last |-> entry[i].to \div PerDay], range)}

\* child is Nothing for the figures of all children.
Relevant(range, child) ==
  {i \in EntriesForRange(range) :
     child # Nothing => child \in (IF IsActual(entry[i]) THEN KidsOf(entry[i]) ELSE entry[i].kids)}

Completed(range, child) == {i \in Relevant(range, child) : IsActual(entry[i])}

\* unresolvedCareDuration: actual entries of different care parties.
UnresolvedCare(ids, range) ==
  LET conflicts == Conflicts({Normalized(i, entry[i]) : i \in ids})
      contradicts(c) == Cardinality({ResponsibleParty(entry[i]) : i \in c.o.ids}) > 1
  IN  UnionDuration({Clipped(c.o, Bounds(range)) :
        c \in {x \in conflicts : x.o.severity = "unresolved_actual" /\ contradicts(x)}})

CareTime(ids, range) == UnionDuration({Clipped(Interval(entry[i]), Bounds(range)) : i \in ids})

CareDays(ids, range) == UNION {DatesOf(Interval(entry[i])) : i \in ids} \cap InRange(range)

Nights(r) == (Interval(r).to \div PerDay) - (Interval(r).from \div PerDay)

\* A night belongs to the day it begins; an entry of one day has one night.
NightsIn(r, range) ==
  IF ~r.overnight THEN 0
  ELSE IF Nights(r) = 0 THEN 1
  ELSE Cardinality({n \in InRange(range) :
         Interval(r).from \div PerDay <= n /\ n < Interval(r).to \div PerDay})

\* calculateEntityStats.
Figures(range, child) ==
  LET done == Completed(range, child)
      counted(s) == Cardinality({i \in Relevant(range, child) : entry[i].status \in s})
      share(i) == IF child = Nothing THEN Unit ELSE Unit \div Cardinality(KidsOf(entry[i]))
  IN  [time |-> CareTime(done, range),
       unresolved |-> UnresolvedCare(done, range),
       days |-> Cardinality(CareDays(done, range)),
       nights |-> SumFunction([i \in done |-> NightsIn(entry[i], range)]),
       km |-> SumFunction([i \in done |-> entry[i].km * share(i)]),
       planned |-> counted({"planned"}), completed |-> counted({"completed", "partial"}),
       cancelled |-> counted({"cancelled"})]

-----------------------------------------------------------------------------
(* Holidays                                                                *)

Unassigned == "unassigned"
Unresolved == "unresolved"
Legacy == {"father", "mother"}

PartyAssumption ==
  /\ Parties \cap (Legacy \cup {Unassigned, Unresolved, Nothing}) = {}
  /\ Defaults \subseteq Parties

Accounts == Parties \cup Legacy \cup {Unassigned, Unresolved}

\* Who is credited with a time in which these have a child; Nothing stands for
\* an entry without a care party.
Credited(carers, strict) ==
  IF carers = {Nothing} THEN {Unassigned}
  ELSE IF strict /\ Cardinality(carers) > 1 THEN {Unresolved}
  ELSE carers \ {Nothing}

\* The time between two boundaries that follow each other.
Segments(boundaries) ==
  {[from |-> b, to |-> Min({c \in boundaries : c > b})] :
     b \in {x \in boundaries : \E c \in boundaries : c > x}}

\* In a segment the carers are the same all the time.
Carers(intervals, s) == {iv.party : iv \in {x \in intervals : x.from < s.to /\ x.to > s.from}}

\* resolveTimedAllocation.
TimedAllocation(intervals, strict) ==
  LET segments == Segments(UNION {{iv.from, iv.to} : iv \in intervals})
      credited(s) == Credited(Carers(intervals, s), strict)
      covered == SumFunction([s \in {x \in segments : Carers(intervals, x) # {}} |-> s.to - s.from])
      duration(a) ==
        SumFunction([s \in {x \in segments : a \in credited(x)} |->
                       ((s.to - s.from) * Unit) \div Cardinality(credited(s))])
  IN  [covered |-> covered, share |-> [a \in Accounts |-> IF covered = 0 THEN 0 ELSE duration(a) \div covered]]

DayAllocation(day, child, statuses) ==
  LET bounds == Bounds([first |-> day, last |-> day])
      parts == {[from |-> Clipped(Interval(entry[i]), bounds).from,
                 to |-> Clipped(Interval(entry[i]), bounds).to,
                 party |-> ResponsibleParty(entry[i])] :
                  i \in {j \in Rows : entry[j].status \in statuses /\ child \in KidsOf(entry[j])}}
  IN  TimedAllocation({p \in parts : p.from < p.to}, statuses = {"completed", "partial"})

Actually(day, child) == DayAllocation(day, child, {"completed", "partial"})

Everything(account) == [a \in Accounts |-> IF a = account THEN Unit ELSE 0]

\* Nobody recorded anything for the child on this day.
Fallback(assignments) ==
  LET party == IF primary # Nothing THEN primary ELSE default
      assigned == IF Cardinality(assignments) = 1 THEN CHOOSE a \in assignments : TRUE ELSE "shared"
  IN  CASE party # Nothing -> Everything(party)
        [] party = Nothing /\ assigned = "shared" ->
             [a \in Accounts |-> IF a \in Legacy THEN Unit \div 2 ELSE 0]
        [] party = Nothing /\ assigned \in Legacy -> Everything(assigned)
        [] OTHER -> Everything(Unassigned)

\* The periods that make this day a holiday of this child.
PeriodsOf(day, child) ==
  {h \in Holidays : /\ holiday[h] # Nothing /\ day \in InRange(holiday[h])
                    /\ child \in holiday[h].kids \/ holiday[h].kids = {}}

HolidayKids(day, child) ==
  {k \in Children : PeriodsOf(day, k) # {} /\ (child # Nothing => k = child)}

Slot(day, child) ==
  LET actual == Actually(day, child)
      planned == DayAllocation(day, child, {"planned"})
  IN  IF actual.covered > 0 THEN actual.share
      ELSE IF planned.covered > 0 THEN planned.share
      ELSE Fallback({holiday[h].assigned : h \in PeriodsOf(day, child)})

\* calculateHolidayStats: the days, and what each account has of them.
HolidayStats(range, child) ==
  LET days == {d \in InRange(range) : HolidayKids(d, child) # {}}
      slots == UNION {{d} \X HolidayKids(d, child) : d \in days}
      slot == [s \in slots |-> Slot(s[1], s[2])]
      part(a) == SumFunction([s \in slots |-> slot[s][a] \div Cardinality(HolidayKids(s[1], child))])
  IN  [days |-> Cardinality(days),
       byParty |-> [p \in Parties |-> part(p)],
       legacy |-> [g \in Legacy |-> part(g)],
       unresolved |-> part(Unresolved),
       unassigned |-> part(Unassigned) + part(Unresolved)]

-----------------------------------------------------------------------------
\* Actual entries that contradict each other remain from earlier releases.
Init ==
  /\ entry \in [Entries -> {Nothing} \cup Drafts]
  /\ holiday \in [Holidays -> {Nothing} \cup Periods]
  /\ primary = Nothing /\ default = Nothing

NoContradiction(i, d) ==
  \A j \in Rows \ {i} :
    \A c \in Conflicts({Normalized(i, d), Normalized(j, entry[j])}) : c.o.severity = "planned_warning"

SaveEntry(i) ==
  /\ \E d \in Drafts : (IsActual(d) => NoContradiction(i, d)) /\ entry' = [entry EXCEPT ![i] = d]
  /\ UNCHANGED <<holiday, primary, default>>

DeleteEntry(i) ==
  /\ entry' = [entry EXCEPT ![i] = Nothing]
  /\ UNCHANGED <<holiday, primary, default>>

SaveHoliday(h) ==
  /\ \E p \in Periods \cup {Nothing} : holiday' = [holiday EXCEPT ![h] = p]
  /\ UNCHANGED <<entry, primary, default>>

SaveSettings ==
  /\ primary' \in Defaults \cup {Nothing} /\ default' \in Defaults \cup {Nothing}
  /\ UNCHANGED <<entry, holiday>>

Next ==
  \/ \E i \in Entries : SaveEntry(i) \/ DeleteEntry(i)
  \/ \E h \in Holidays : SaveHoliday(h)
  \/ SaveSettings

Spec == Init /\ [][Next]_vars

-----------------------------------------------------------------------------
Selections == {Nothing} \cup Children

Ranges == Months \cup {Whole}

\* Every variable has its type (AppData).
TypeOK ==
  /\ entry \in [Entries -> {Nothing} \cup Drafts]
  /\ holiday \in [Holidays -> {Nothing} \cup Periods]
  /\ {primary, default} \subseteq Defaults \cup {Nothing}

\* Every holiday is credited to somebody or listed as unassigned, once:
\* nothing of a day is lost or counted twice, however entries, plans and the
\* fallbacks overlap (calculateHolidayStats, resolveTimedAllocation).
HolidaysAddUp ==
  \A range \in Ranges, child \in Selections :
    LET s == HolidayStats(range, child)
    IN  SumFunction(s.byParty) + SumFunction(s.legacy) + s.unassigned = s.days * Unit

\* Overlapping care is counted once, and the time that is in dispute is the
\* same whether it is found by comparing entries or by dividing up the days
\* (unionDuration, unresolvedCareDuration, careAllocationForDay).
CareCountedOnce ==
  \A range \in Ranges :
    /\ \A child \in Selections :
         LET done == Completed(range, child)
             instants == {t \in 0..((LastDay + 1) * PerDay - 1) :
                            t \div PerDay \in InRange(range)
                            /\ \E i \in done : Interval(entry[i]).from <= t /\ t < Interval(entry[i]).to}
         IN  Figures(range, child).time = Cardinality(instants)
    /\ \A child \in Children :
         UnresolvedCare({i \in Rows : IsActual(entry[i]) /\ child \in KidsOf(entry[i])}, range) * Unit
           = SumFunction([d \in InRange(range) |->
                            Actually(d, child).share[Unresolved] * Actually(d, child).covered])

\* The months show all the time of care that the whole period shows
\* (calculatePeriodStats).
MonthsAddUp ==
  \A child \in Selections :
    SumFunction([m \in Months |-> Figures(m, child).time]) = Figures(Whole, child).time

\* Care took place in no other month than it was planned for; the statistics
\* select it by its plan (entriesForRange).
TookPlaceWherePlanned ==
  \A i \in Rows, m \in Months :
    IsActual(entry[i]) /\ DatesOf(Interval(entry[i])) \cap InRange(m) # {} => i \in EntriesForRange(m)
=============================================================================
