---------------------------- MODULE LegacyMigration ----------------------------
(***************************************************************************)
(* The migration of a browser's old data into the database                 *)
(* (server/services/legacyMigration.ts): the analysis of duplicates, the   *)
(* additive import and, on SQLite, the replacement after a backup. Both    *)
(* decide on what they read before their transaction; members work on and  *)
(* a second tab may migrate the same data.                                 *)
(*                                                                         *)
(* Children are the same when name and month of birth agree, whatever      *)
(* their ids; entries and holidays when their time and children agree. An  *)
(* item may name a child that the old data does not list: its id stays as  *)
(* it is. Actual children, newer than the old data, are left out.          *)
(***************************************************************************)
EXTENDS Naturals

CONSTANTS
  Ids,         \* ids of children
  Names,       \* identities of children
  LegacyName,  \* the children of the old data: identity of each id
  Items,       \* entries, holidays, patterns and periods of the old data
  Kind,        \* of each item
  Packages,    \* what is sent of the old data: the ids of each item's children
  Requests,    \* migrations that can be under way
  MaxCopies,   \* bound: rows of one item
  Nothing      \* absent value

LegacyAssumption ==
  /\ DOMAIN LegacyName \subseteq Ids
  /\ \A c \in DOMAIN LegacyName : LegacyName[c] \in Names
  /\ Packages \subseteq [Items -> SUBSET Ids]
  /\ Kind \in [Items -> {"entry", "holiday", "pattern", "period"}]
  /\ MaxCopies \in Nat \ {0}

VARIABLES
  child,    \* children by id; a deleted row keeps its id
  stored,   \* the rows at the time of each item
  request,  \* migrations after their analysis
  lost      \* history: a row was replaced that no backup holds

vars == <<child, stored, request, lost>>

-----------------------------------------------------------------------------
Child == [name : Names, live : BOOLEAN]

\* imported: written by a migration, not by a member; named: the ids its item
\* had in the old data.
Row == [kids : SUBSET Ids, imported : BOOLEAN, named : SUBSET Ids]

Copies == 1..MaxCopies

Rows == [Items -> [Copies -> Row \cup {Nothing}]]

\* A migration keeps its analysis, and what a backup of it holds.
Migration == [mode : {"add", "replace"}, kids : Packages, backup : Rows, skipped : SUBSET Items]

NothingAssumption == Nothing \notin Child /\ Nothing \notin Row /\ Nothing \notin Migration

Init ==
  /\ child = [c \in Ids |-> Nothing]
  /\ stored = [i \in Items |-> [n \in Copies |-> Nothing]]
  /\ request = [q \in Requests |-> Nothing]
  /\ lost = FALSE

LiveChildren == {c \in Ids : child[c] # Nothing /\ child[c].live}

CreateChild(c, name) ==
  /\ child[c] = Nothing
  /\ child' = [child EXCEPT ![c] = [name |-> name, live |-> TRUE]]
  /\ UNCHANGED <<stored, request, lost>>

Without(row, c) == [row EXCEPT !.kids = @ \ {c}]

DeleteChild(c) ==
  /\ c \in LiveChildren
  /\ child' = [child EXCEPT ![c].live = FALSE]
  /\ stored' = [i \in Items |-> [n \in Copies |->
       IF stored[i][n] = Nothing \/ stored[i][n].kids = {c} THEN Nothing
       ELSE Without(stored[i][n], c)]]
  /\ UNCHANGED <<request, lost>>

\* Where the next row of an item is kept.
NextCopy(i, n) == stored[i][n] = Nothing /\ \A m \in 1..(n - 1) : stored[i][m] # Nothing

HasRoom(i) == \E n \in Copies : NextCopy(i, n)

WithRow(i, row) == [n \in Copies |-> IF NextCopy(i, n) THEN row ELSE stored[i][n]]

\* A member enters something at the time of an item.
Enter(i, kids) ==
  /\ HasRoom(i)
  /\ kids # {} /\ kids \subseteq LiveChildren
  /\ stored' = [stored EXCEPT ![i] = WithRow(i, [kids |-> kids, imported |-> FALSE, named |-> {}])]
  /\ UNCHANGED <<child, request, lost>>

-----------------------------------------------------------------------------
(* Analysis                                                                *)

\* The child of the database that a child of the old data is.
Matches(c) == {d \in LiveChildren : child[d].name = LegacyName[c]}

\* A child that the old data does not list is nobody of the database here.
Known(ids) == \A c \in ids : c \in DOMAIN LegacyName /\ Matches(c) # {}

\* analyzeLegacyData: periods and patterns are not compared, nor is an item that
\* names two children who are one in the database.
Duplicate(i, ids) ==
  /\ Kind[i] \in {"entry", "holiday"}
  /\ Known(ids)
  /\ \E n \in Copies, map \in [ids -> Ids] :
       /\ \A c \in ids : map[c] \in Matches(c)
       /\ \A c, d \in ids : map[c] = map[d] => c = d
       /\ stored[i][n] # Nothing /\ stored[i][n].kids = {map[c] : c \in ids}

\* With the analysis, before the transaction; a replacement then makes the backup.
Analyze(q, mode, policy, kids) ==
  /\ request[q] = Nothing
  /\ request' = [request EXCEPT ![q] =
       [mode |-> mode, kids |-> kids, backup |-> stored,
        skipped |-> IF policy = "skip" THEN {i \in Items : Duplicate(i, kids[i])} ELSE {}]]
  /\ UNCHANGED <<child, stored, lost>>

-----------------------------------------------------------------------------
(* Additive import                                                         *)

\* The ids in use in the old data; makeId returns none of them.
OldIds == DOMAIN LegacyName \cup UNION {kids[i] : kids \in Packages, i \in Items}

\* uniqueId: the old id, or another one when a row has it, deleted or not.
NewIds(c) ==
  IF child[c] = Nothing THEN {c} ELSE {d \in Ids : child[d] = Nothing /\ d \notin OldIds}

\* childMap: matching children of the database, the same for the same child, and
\* new ones for the others.
ChildMaps ==
  {map \in [DOMAIN LegacyName -> Ids] :
     /\ \A c \in DOMAIN LegacyName :
          map[c] \in (IF Matches(c) # {} THEN Matches(c) ELSE NewIds(c))
     /\ \A c, d \in DOMAIN LegacyName :
          map[c] = map[d] <=> c = d \/ (LegacyName[c] = LegacyName[d] /\ Matches(c) # {})}

\* childMap.get(childId) ?? childId
Mapped(c, map) == IF c \in DOMAIN LegacyName THEN map[c] ELSE c

\* Seeded fault: the children keep the ids of the old data.
UnmappedKids(i, ids, map) == ids

\* insertUnavailable gets the period as it is.
MappedKids(i, ids, map) ==
  IF Kind[i] = "period" THEN ids ELSE {Mapped(c, map) : c \in ids}

Inserted(map) ==
  [c \in Ids |->
     IF child[c] = Nothing /\ \E d \in DOMAIN LegacyName : map[d] = c
       THEN [name |-> LegacyName[CHOOSE d \in DOMAIN LegacyName : map[d] = c], live |-> TRUE]
       ELSE child[c]]

\* The keys hold: every id is that of a child, a deleted one too, and no two
\* children of an item are the same.
Insertable(ids, i, map) ==
  /\ \A c \in MappedKids(i, ids, map) : Inserted(map)[c] # Nothing
  /\ Kind[i] # "period" => \A c, d \in ids : Mapped(c, map) = Mapped(d, map) => c = d

Add(q) ==
  /\ request[q] # Nothing /\ request[q].mode = "add"
  /\ \E map \in ChildMaps :
       LET kids  == request[q].kids
           added == Items \ request[q].skipped
       IN
       /\ \A i \in added : HasRoom(i) /\ Insertable(kids[i], i, map)
       /\ child' = Inserted(map)
       /\ stored' = [i \in Items |-> IF i \in added
            THEN WithRow(i, [kids |-> MappedKids(i, kids[i], map), imported |-> TRUE,
                             named |-> kids[i]])
            ELSE stored[i]]
  /\ request' = [request EXCEPT ![q] = Nothing]
  /\ UNCHANGED lost

-----------------------------------------------------------------------------
(* Replacement                                                             *)

\* clearDomainData and importData, with the ids of the old data, all of which
\* must be those of its children.
Replace(q) ==
  /\ request[q] # Nothing /\ request[q].mode = "replace"
  /\ \A i \in Items : request[q].kids[i] \subseteq DOMAIN LegacyName
  /\ child' = [c \in Ids |-> IF c \in DOMAIN LegacyName
                 THEN [name |-> LegacyName[c], live |-> TRUE] ELSE Nothing]
  /\ stored' = [i \in Items |-> [n \in Copies |->
       IF n = 1 THEN [kids |-> request[q].kids[i], imported |-> TRUE,
                      named |-> request[q].kids[i]]
       ELSE Nothing]]
  /\ lost' = (lost \/ \E i \in Items, n \in Copies :
       \A m \in Copies : request[q].backup[i][m] # stored[i][n])
  /\ request' = [request EXCEPT ![q] = Nothing]

\* The backup or the transaction fails: nothing has changed.
Fail(q) ==
  /\ request[q] # Nothing
  /\ request' = [request EXCEPT ![q] = Nothing]
  /\ UNCHANGED <<child, stored, lost>>

Next ==
  \/ \E c \in Ids : DeleteChild(c) \/ \E name \in Names : CreateChild(c, name)
  \/ \E i \in Items, kids \in SUBSET Ids : Enter(i, kids)
  \/ \E q \in Requests :
       \/ \E mode \in {"add", "replace"}, policy \in {"skip", "include"}, kids \in Packages :
            Analyze(q, mode, policy, kids)
       \/ Add(q) \/ Replace(q) \/ Fail(q)

Spec == Init /\ [][Next]_vars

-----------------------------------------------------------------------------
\* Every variable has its type.
TypeOK ==
  /\ child \in [Ids -> Child \cup {Nothing}]
  /\ stored \in Rows
  /\ request \in [Requests -> Migration \cup {Nothing}]
  /\ lost \in BOOLEAN

\* A member of a row's children is one that its item was about: it has the name
\* of a child listed in the old data that the item named.
IsListed(c, row) == \E d \in row.named \cap DOMAIN LegacyName : child[c].name = LegacyName[d]

\* An imported entry, holiday or pattern is about the children it was about in
\* the browser, although the database has them under other ids and the ids of
\* the browser may belong to somebody else; only a child that the old data does
\* not list is looked up by its id.
ImportedForItsChildren ==
  \A i \in Items, n \in Copies :
    stored[i][n] # Nothing /\ stored[i][n].imported /\ Kind[i] # "period" =>
      \A c \in stored[i][n].kids :
        IsListed(c, stored[i][n]) \/ c \in stored[i][n].named \ DOMAIN LegacyName

\* The analysis takes a child that the old data does not list for nobody of the
\* database (server/services/legacyMigration.ts:261). So no imported item is
\* about a child of the database on account of such an id.
ImportedChildrenAreListed ==
  \A i \in Items, n \in Copies :
    stored[i][n] # Nothing /\ stored[i][n].imported /\ Kind[i] # "period" =>
      \A c \in stored[i][n].kids : IsListed(c, stored[i][n])

\* The same as for entries, for unavailable periods.
PeriodsForTheirChildren ==
  \A i \in Items, n \in Copies :
    stored[i][n] # Nothing /\ stored[i][n].imported /\ Kind[i] = "period" =>
      \A c \in stored[i][n].kids :
        IsListed(c, stored[i][n]) \/ c \in stored[i][n].named \ DOMAIN LegacyName

\* docs/migration.md: the data is replaced only after it was backed up.
ReplacedDataIsBackedUp == ~lost
=============================================================================
