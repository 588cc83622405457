----------------------------- MODULE DataTransfer -----------------------------
(***************************************************************************)
(* Moving and replacing all of an installation's data                      *)
(* (server/services/dataTransfer.ts, routes/dataTransfer.ts, appData.ts):  *)
(* the owner exports a package, tests it in a dry run, imports it with the *)
(* receipt of the test, restores or resets without a test, and maps the    *)
(* historical actors of a package to members or invites them. Members work *)
(* on meanwhile. A package may have been exported by any installation: it  *)
(* is the content of some state, with rows of the same ids.                *)
(*                                                                         *)
(* A receipt is signed over the fingerprints of the package and of the     *)
(* target; it is current until a row of the target changes, rows are never *)
(* the same again, for they carry the time. The signing key lives in       *)
(* memory.                                                                 *)
(***************************************************************************)
EXTENDS Integers, FiniteSets

CONSTANTS
  Children,
  Parties,     \* care parties
  Records,     \* care entries and contact rules
  Kind,        \* "entry" or "rule"
  Members,     \* users other than the owner; they are the authors too
  Files,       \* exported packages
  Tests,       \* dry runs whose receipt is kept
  MaxWrites,   \* bound: changes by members
  Nothing      \* absent value

KindAssumption == Kind \in [Records -> {"entry", "rule"}]
BoundAssumption == MaxWrites \in Nat

VARIABLES
  domain,     \* children, care parties and records
  assigned,   \* app_user_care_party_assignments of each member
  invitation, \* the open invitation written for each actor
  actor,      \* data_transfer_actors of the one run that is kept
  file,       \* packages
  receipt,    \* receipts of successful dry runs
  chosen,     \* history: the care parties the owner gave somebody since the data was replaced
  writes      \* changes by members so far

vars == <<domain, assigned, invitation, actor, file, receipt, chosen, writes>>

-----------------------------------------------------------------------------
Status == {"absent", "live", "deleted"}

\* kids and actual are the links that are not deleted.
Row == [kids : SUBSET Children, actual : SUBSET Children, party : Parties, by : Members \cup {"historical"}]

Domain == [child : [Children -> Status], party : [Parties -> Status],
           record : [Records -> Row \cup {Nothing}]]

\* data_transfer_actor_care_parties: the suggestions whose party was imported.
Actor == [suggested : SUBSET Parties, mapped : Members \cup {Nothing}]

\* linked: it names the actor of the present run.
Invitation == [parties : SUBSET Parties, linked : BOOLEAN]

Package == [domain : Domain, actors : [Members -> (SUBSET Parties) \cup {Nothing}]]

\* A receipt of a dry run, and what its comparison showed of the target.
Receipt == [package : Package, current : BOOLEAN, shown : Domain]

NothingAssumption == Nothing \notin Actor

LiveIn(status) == {x \in DOMAIN status : status[x] = "live"}

Empty == [child |-> [c \in Children |-> "absent"], party |-> [p \in Parties |-> "absent"],
          record |-> [r \in Records |-> Nothing]]

NoActors == [m \in Members |-> Nothing]

Init ==
  /\ domain = Empty
  /\ assigned = [m \in Members |-> {}]
  /\ invitation = NoActors
  /\ actor = NoActors
  /\ file = [f \in Files |-> Nothing]
  /\ receipt = [t \in Tests |-> Nothing]
  /\ chosen = {}
  /\ writes = 0

\* targetStateFingerprint covers the domain, the actors and the invitations'
\* care parties: receipts of earlier tests no longer match.
Outdated == receipt' = [t \in Tests |->
              IF receipt[t] = Nothing THEN Nothing ELSE [receipt[t] EXCEPT !.current = FALSE]]

-----------------------------------------------------------------------------
(* Everyday work, where it decides what can be exported                    *)

Worked(d) ==
  /\ writes < MaxWrites
  /\ writes' = writes + 1
  /\ domain' = d
  /\ Outdated
  /\ UNCHANGED <<assigned, invitation, actor, file, chosen>>

CreateChild(c) ==
  /\ domain.child[c] = "absent"
  /\ Worked([domain EXCEPT !.child[c] = "live"])

\* softDeletePersistedChildRelations: planned links and entries without any go;
\* the links of contact rules and of actual care stay.
Unlinked(c) ==
  [r \in Records |->
     IF domain.record[r] = Nothing \/ Kind[r] = "rule" THEN domain.record[r]
     ELSE IF domain.record[r].kids \subseteq {c} THEN Nothing
     ELSE [domain.record[r] EXCEPT !.kids = @ \ {c}]]

DeleteChild(c) ==
  /\ domain.child[c] = "live"
  /\ Worked([domain EXCEPT !.child[c] = "deleted", !.record = Unlinked(c)])

CreateParty(p) ==
  /\ domain.party[p] = "absent"
  /\ Worked([domain EXCEPT !.party[p] = "live"])

DeleteParty(p) ==
  /\ domain.party[p] = "live"
  /\ \A r \in Records : domain.record[r] # Nothing => domain.record[r].party # p
  /\ Worked([domain EXCEPT !.party[p] = "deleted"])

\* An entry or a rule is created, or changed; a partial answer names the
\* children who were actually there.
WriteRecord(m, r, kids, actual, p) ==
  /\ kids # {} /\ kids \cup actual \subseteq LiveIn(domain.child)
  /\ p \in LiveIn(domain.party)
  /\ Kind[r] = "rule" => actual = {}
  /\ Worked([domain EXCEPT !.record[r] = [kids |-> kids, actual |-> actual, party |-> p, by |-> m]])

\* The owner selects a member's care parties; not part of the fingerprint.
Assign(m, ps) ==
  /\ writes < MaxWrites
  /\ ps \subseteq LiveIn(domain.party)
  /\ writes' = writes + 1
  /\ assigned' = [assigned EXCEPT ![m] = ps]
  /\ chosen' = chosen \cup ps
  /\ UNCHANGED <<domain, invitation, actor, file, receipt>>

-----------------------------------------------------------------------------
(* Export                                                                  *)

\* exportDomainData: the rows that are not deleted, with all their links that
\* are not.
Exported ==
  [child |-> [c \in Children |-> IF domain.child[c] = "live" THEN "live" ELSE "absent"],
   party |-> [p \in Parties |-> IF domain.party[p] = "live" THEN "live" ELSE "absent"],
   record |-> domain.record]

Authors == {domain.record[r].by : r \in {r \in Records : domain.record[r] # Nothing}} \cap Members

\* exportActors: who is named as an author, with the care parties assigned.
ExportedActors == [m \in Members |-> IF m \in Authors THEN assigned[m] ELSE Nothing]

Export(f) ==
  /\ file' = [file EXCEPT ![f] = [domain |-> Exported, actors |-> ExportedActors]]
  /\ UNCHANGED <<domain, assigned, invitation, actor, receipt, chosen, writes>>

-----------------------------------------------------------------------------
(* Dry run                                                                 *)

\* missingReferences: the planned children and the care party of every record.
MissingReferences(d) ==
  {r \in Records : /\ d.record[r] # Nothing
                   /\ ~(/\ d.record[r].kids \subseteq LiveIn(d.child)
                        /\ Kind[r] = "entry" => d.record[r].party \in LiveIn(d.party))}

\* The foreign keys that the insertion of the package has to satisfy.
ForeignKeys(d) ==
  \A r \in Records : d.record[r] # Nothing =>
    d.record[r].kids \cup d.record[r].actual \subseteq LiveIn(d.child)

\* What a dry run accepts: importData succeeds in an empty database.
Importable(d) == MissingReferences(d) = {} /\ ForeignKeys(d)

\* shown is what the comparison shows of the target.
DryRun(t, f) ==
  /\ file[f] # Nothing
  /\ Importable(file[f].domain)
  /\ receipt' = [receipt EXCEPT ![t] =
       [package |-> file[f], current |-> TRUE, shown |-> domain]]
  /\ UNCHANGED <<domain, assigned, invitation, actor, file, chosen, writes>>

\* The receipt has expired, or the owner leaves.
Discard(t) ==
  /\ receipt[t] # Nothing
  /\ receipt' = [receipt EXCEPT ![t] = Nothing]
  /\ UNCHANGED <<domain, assigned, invitation, actor, file, chosen, writes>>

\* The key of the receipts is lost.
Restart ==
  /\ receipt' = [t \in Tests |-> Nothing]
  /\ UNCHANGED <<domain, assigned, invitation, actor, file, chosen, writes>>

-----------------------------------------------------------------------------
(* Import, restore and reset                                               *)

\* Seeded fault: the members keep the care parties selected for them.
AssignmentsKept == assigned

\* clearDomainData deletes the assignments with the care parties.
AssignmentsCleared == [m \in Members |-> {}]

\* An import also takes the invitations off the actors it deletes.
InvitationsCleared(linked) ==
  [m \in Members |-> IF invitation[m] = Nothing THEN Nothing
     ELSE [parties |-> {}, linked |-> invitation[m].linked /\ linked]]

\* remapActorReferences: the authors are historical actors from now on.
Remapped(d) ==
  [d EXCEPT !.record = [r \in Records |->
     IF @[r] = Nothing THEN Nothing ELSE [@[r] EXCEPT !.by = "historical"]]]

\* insertImportedActors: parties that were not imported are not suggested.
ImportedActors(package) ==
  [m \in Members |-> IF package.actors[m] = Nothing THEN Nothing
     ELSE [suggested |-> package.actors[m] \cap LiveIn(package.domain.party), mapped |-> Nothing]]

Replaced(d, linked) ==
  /\ domain' = d
  /\ assigned' = AssignmentsCleared
  /\ invitation' = InvitationsCleared(linked)
  /\ chosen' = {}
  /\ Outdated
  /\ UNCHANGED <<file, writes>>

\* Seeded fault: the receipt is bound to the package only.
TestedPackage(t) == receipt[t] # Nothing

\* verifyDryRunReceipt with the target as it is in the import's transaction.
TestedOnTarget(t) == receipt[t] # Nothing /\ receipt[t].current

\* importPortableTransfer: the run and its actors replace the earlier ones.
Import(t) ==
  /\ TestedOnTarget(t)
  /\ actor' = ImportedActors(receipt[t].package)
  /\ Replaced(Remapped(receipt[t].package.domain), FALSE)

\* The suggestions of an earlier import still name care parties: their rows
\* cannot be deleted.
Clearable == \A m \in Members : actor[m] # Nothing => actor[m].suggested = {}

\* PUT /api/app-data and the legacy replacement: no dry run; authors as they
\* are, the actors of the last transfer stay.
Restore(f) ==
  /\ file[f] # Nothing
  /\ Clearable /\ ForeignKeys(file[f].domain)
  /\ Replaced(file[f].domain, TRUE)
  /\ UNCHANGED actor

\* DELETE /api/app-data.
Reset ==
  /\ Clearable
  /\ Replaced(Empty, TRUE)
  /\ UNCHANGED actor

-----------------------------------------------------------------------------
(* Historical actors                                                       *)

\* PUT /api/data-transfer/actors/:id/mapping, with the parties the owner selects.
MapActor(a, m, ps) ==
  /\ actor[a] # Nothing
  /\ ps \subseteq LiveIn(domain.party)
  /\ actor' = [actor EXCEPT ![a].mapped = m]
  /\ assigned' = [assigned EXCEPT ![m] = ps]
  /\ chosen' = chosen \cup ps
  /\ Outdated
  /\ UNCHANGED <<domain, invitation, file, writes>>

\* POST /api/data-transfer/actors/:id/invitation: with the care parties suggested.
\* Of several open invitations for one actor the last is kept here.
InviteActor(a) ==
  /\ actor[a] # Nothing
  /\ actor[a].suggested \subseteq LiveIn(domain.party)
  /\ invitation' = [invitation EXCEPT ![a] = [parties |-> actor[a].suggested, linked |-> TRUE]]
  /\ chosen' = chosen \cup actor[a].suggested
  /\ Outdated
  /\ UNCHANGED <<domain, assigned, actor, file, writes>>

\* acceptSelectedInvitation applies the care parties the invitation has now.
AcceptInvitation(a, m) ==
  /\ invitation[a] # Nothing
  /\ invitation[a].parties \subseteq LiveIn(domain.party)
  /\ assigned' = [assigned EXCEPT ![m] = invitation[a].parties]
  /\ invitation' = [invitation EXCEPT ![a] = Nothing]
  /\ actor' = IF invitation[a].linked THEN [actor EXCEPT ![a].mapped = m] ELSE actor
  /\ IF invitation[a].linked THEN Outdated ELSE UNCHANGED receipt
  /\ UNCHANGED <<domain, file, chosen, writes>>

Next ==
  \/ \E c \in Children : CreateChild(c) \/ DeleteChild(c)
  \/ \E p \in Parties : CreateParty(p) \/ DeleteParty(p)
  \/ \E m \in Members, r \in Records, kids, actual \in SUBSET Children, p \in Parties :
       WriteRecord(m, r, kids, actual, p)
  \/ \E m \in Members, ps \in SUBSET Parties : Assign(m, ps)
  \/ \E f \in Files : Export(f) \/ Restore(f)
  \/ \E t \in Tests, f \in Files : DryRun(t, f)
  \/ \E t \in Tests : Discard(t) \/ Import(t)
  \/ Restart \/ Reset
  \/ \E a, m \in Members, ps \in SUBSET Parties : MapActor(a, m, ps)
  \/ \E a \in Members : InviteActor(a)
  \/ \E a, m \in Members : AcceptInvitation(a, m)

Spec == Init /\ [][Next]_vars

-----------------------------------------------------------------------------
\* Every variable has its type.
TypeOK ==
  /\ domain \in Domain
  /\ assigned \in [Members -> SUBSET Parties]
  /\ invitation \in [Members -> Invitation \cup {Nothing}]
  /\ actor \in [Members -> Actor \cup {Nothing}]
  /\ file \in [Files -> Package \cup {Nothing}]
  /\ receipt \in [Tests -> Receipt \cup {Nothing}]
  /\ chosen \subseteq Parties
  /\ writes \in 0..MaxWrites

\* An import replaces the data its dry run compared the package with: changes
\* of members, another import or a restore in between ask for a new dry run.
ImportedAsTested ==
  [][\A t \in Tests : (Import(t) => receipt[t].shown = domain)]_vars

\* Care parties are given by id, and another installation's may have the same
\* ids: after the data was replaced a member or an invitation has only care
\* parties that the owner gave since then.
AccessGivenSinceReplaced ==
  /\ \A m \in Members : assigned[m] \subseteq chosen
  /\ \A m \in Members : invitation[m] # Nothing => invitation[m].parties \subseteq chosen

\* docs/data-model.md: the package contains the complete domain data; what an
\* installation exports can be imported.
ExportCanBeImported == Importable(Exported)
=============================================================================
