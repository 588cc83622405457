--------------------------- MODULE ConflictDetection ---------------------------
(***************************************************************************)
(* The detection of care conflicts that the server, the browser and the    *)
(* statistics share (shared/careConflicts.ts). Two entries conflict where  *)
(* their effective times overlap for a common child; the entries of each   *)
(* child are swept in the order of their start. Times are small numbers.   *)
(***************************************************************************)
EXTENDS Integers, FiniteSets, SequencesExt

CONSTANTS Children

IsActual(r) == r.status \in {"completed", "partial"}

\* What took place, or else what is planned.
Effective(r) == IF r.status = "partial" THEN r.actual ELSE [from |-> r.from, to |-> r.to, kids |-> r.kids]

Normalized(i, r) ==
  [id |-> i, from |-> Effective(r).from, to |-> Effective(r).to,
   kids |-> Effective(r).kids, actual |-> IsActual(r)]

Before(a, b) ==
  \/ a.from < b.from
  \/ a.from = b.from /\ a.to < b.to
  \/ a.from = b.from /\ a.to = b.to /\ a.id < b.id

\* The items in this order, a total one: each has its position.
InOrder(items, before(_, _)) ==
  LET position(n) == Cardinality({m \in items : before(m, n)}) + 1
  IN  [i \in 1..Cardinality(items) |-> CHOOSE n \in items : position(n) = i]

Later(x, y) == IF x > y THEN x ELSE y

Earlier(x, y) == IF x < y THEN x ELSE y

Severity(a, b) == IF a.actual /\ b.actual THEN "unresolved_actual" ELSE "planned_warning"

\* A conflict without the children it is about.
Overlap(a, b) ==
  [ids |-> {a.id, b.id}, from |-> Later(a.from, b.from), to |-> Earlier(a.to, b.to),
   severity |-> Severity(a, b)]

\* Seeded fault: drops the entries that end before the current one does.
EndingLater(active, current) == {a \in active : a.to > current.to}

StillActive(active, current) == {a \in active : a.to > current.from}

Step(sweep, current) ==
  LET active == StillActive(sweep.active, current)
      overlaps == {Overlap(a, current) : a \in active}
  IN  [active |-> active \cup {current},
       found |-> sweep.found \cup {o \in overlaps : o.from < o.to}]

\* The entries of one child, swept in the order of their start.
Sweep(items) == FoldLeft(Step, [active |-> {}, found |-> {}], InOrder(items, Before)).found

Conflicts(items) ==
  LET found == [k \in Children |-> Sweep({n \in items : k \in n.kids})]
  IN  {[o |-> c, kids |-> {k \in Children : c \in found[k]}] : c \in UNION {found[k] : k \in Children}}
=============================================================================
