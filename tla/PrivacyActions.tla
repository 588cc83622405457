---------------------------- MODULE PrivacyActions ----------------------------
(***************************************************************************)
(* Privacy actions (server/services/privacyActions.ts and                  *)
(* privacyDomainErasure.ts): the owner previews actions on a user, a child *)
(* or a care party and confirms the fingerprint of the preview, which      *)
(* covers the subject's rows with their updated_at. Meanwhile everybody    *)
(* works on. A confirmation may arrive again: the run that it completed is *)
(* reported then, and nothing happens.                                     *)
(*                                                                         *)
(* A fingerprint is current until a row that the inventory of its subject  *)
(* lists changes; rows are never the same again, for they carry the time.  *)
(***************************************************************************)
EXTENDS Integers, FiniteSets

CONSTANTS
  Children,
  Users,      \* members other than the owner
  Parties,    \* care parties
  Records,    \* entries, series and periods children are linked to
  Kind,       \* "entry", "series" (rules, patterns, holidays) or "period"
  Selections, \* sets of actions the owner selects
  MaxWrites,  \* bound: changes by others
  Nothing     \* absent value

KindAssumption == Kind \in [Records -> {"entry", "series", "period"}]
BoundAssumption == MaxWrites \in Nat

VARIABLES
  record,    \* the records and their junction rows
  profile,   \* profile of each child and care party
  user,      \* each user's identity and what is attached to it
  relation,  \* what is attached to each care party
  preview,   \* the preview the owner has open
  stale,     \* the monthly closings are marked as changed
  unshown,   \* history: what was deleted without having been shown
  writes     \* changes by others so far

vars == <<record, profile, user, relation, preview, stale, unshown, writes>>

-----------------------------------------------------------------------------
Subjects == Children \cup Users \cup Parties

\* kids and actual are live links, past are links an edit has soft-deleted.
Row == [kids : SUBSET Children, past : SUBSET Children, actual : SUBSET Children, text : BOOLEAN]

Attached == {"access", "relationships", "channels", "transfer"}

\* rows are the categories of which a row exists, live or not.
UserRow == [identity : {"own", "detached"}, live : SUBSET Attached,
            rows : SUBSET (Attached \cup {"history"})]

Relations == {"assignment", "invitation"}

Listed == Records \cup Attached \cup {"history"} \cup Relations

Previewed == [subject : Subjects, actions : Selections, current : BOOLEAN, shown : SUBSET Listed]

NothingAssumption ==
  /\ Nothing \notin Row /\ Nothing \notin Previewed
  /\ \A x \in Relations, p \in Parties : <<x, p>> \notin Records

UserActions == Attached \cup {"history", "identity"}

ProfileActions == {"records", "relationships", "delete", "anonymize", "history"}

\* One action of each category at most.
Actions(s) ==
  {a \in Selections : /\ a \subseteq (IF s \in Users THEN UserActions ELSE ProfileActions)
                     /\ ~{"delete", "anonymize"} \subseteq a}

Init ==
  /\ record = [r \in Records |-> Nothing]
  /\ profile = [s \in Children \cup Parties |-> "live"]
  /\ user = [u \in Users |-> [identity |-> "own", live |-> {}, rows |-> {}]]
  /\ relation = [p \in Parties |-> {}]
  /\ preview = Nothing
  /\ stale = FALSE
  /\ unshown = {}
  /\ writes = 0

-----------------------------------------------------------------------------
(* The rows a subject is linked to                                         *)

LinkedTo(row) == row.kids \cup row.past \cup row.actual

RecordsOf(c) == {r \in Records : record[r] # Nothing /\ c \in LinkedTo(record[r])}

\* Seeded fault: only the planned children count.
PlannedOnly(c) == {r \in RecordsOf(c) : record[r].kids \cup record[r].past \subseteq {c}}

\* exclusiveChildOwners: a link of another child counts, live or not.
Exclusive(c) == {r \in RecordsOf(c) : LinkedTo(record[r]) \subseteq {c}}

\* childRecordAnalysis: shared series, and shared records with free text.
Ambiguous(c) ==
  {r \in RecordsOf(c) \ Exclusive(c) : Kind[r] = "series" \/ record[r].text}

\* What a preview counts: each record, relation or category of the subject
\* that its actions can delete. Invitations are not in the inventory.
Shown(s) ==
  IF s \in Users THEN user[s].rows
  ELSE IF s \in Children THEN RecordsOf(s)
  ELSE relation[s] \ {"invitation"}

Live(s) == IF s \in Users THEN TRUE ELSE profile[s] # "gone"

\* What has to be selected with the identity of user u.
Required(u) ==
  {"access", "channels"} \cup (user[u].rows \cap {"relationships", "transfer", "history"})

\* previewPrivacyAction and analyzePrivacyDomainErasure.
UserBlocked(u, a) == "identity" \in a /\ ~Required(u) \subseteq a

\* A profile has had an audit row since it was created.
HistoryBlocked(a) == a \cap {"delete", "anonymize"} # {} /\ "history" \notin a

ChildBlocked(c, a) ==
  \/ RecordsOf(c) # {} /\ a \cap {"records", "delete"} # {} /\ "relationships" \notin a
  \/ Exclusive(c) # {} /\ "relationships" \in a /\ "records" \notin a
  \/ Ambiguous(c) # {} /\ a \cap {"records", "relationships", "delete"} # {}

\* A care party here has no records of its own: with a child in them, which all
\* but periods have, their deletion is blocked.
PartyBlocked(p, a) == relation[p] # {} /\ "delete" \in a /\ "relationships" \notin a

Blocked(s, a) ==
  IF s \in Users THEN UserBlocked(s, a)
  ELSE HistoryBlocked(a) \/ (IF s \in Children THEN ChildBlocked(s, a) ELSE PartyBlocked(s, a))

\* The open preview once rows that the subjects' inventories list have changed.
Outdated(subjects) ==
  IF preview # Nothing /\ preview.subject \in subjects
  THEN [preview EXCEPT !.current = FALSE] ELSE preview

-----------------------------------------------------------------------------
(* Everybody else                                                          *)

\* An entry, series or period is created or edited. The children it had, in the
\* plan or actually, keep a soft-deleted link.
Save(r, kids, actual, text) ==
  /\ writes < MaxWrites
  /\ kids \cup actual \subseteq {c \in Children : Live(c)}
  /\ Kind[r] # "period" => kids # {}
  /\ Kind[r] # "entry" => actual = {}
  /\ record' = [record EXCEPT ![r] =
       [kids |-> kids, actual |-> actual, text |-> text,
        past |-> IF record[r] = Nothing THEN {}
                 ELSE LinkedTo(record[r]) \ (kids \cup actual)]]
  /\ preview' = Outdated(LinkedTo(record'[r]))
  /\ writes' = writes + 1
  /\ UNCHANGED <<profile, user, relation, stale, unshown>>

\* An invitation is accepted, a scope, a feed, a session or a mapping made.
Attach(u, x) ==
  /\ writes < MaxWrites
  /\ x \notin user[u].live
  /\ user' = [user EXCEPT ![u].live = @ \cup (IF x = "history" THEN {} ELSE {x}),
                          ![u].rows = @ \cup {x}]
  /\ preview' = Outdated({u})
  /\ writes' = writes + 1
  /\ UNCHANGED <<record, profile, relation, stale, unshown>>

\* A member or an invitation is assigned to the care party.
Assign(p, x) ==
  /\ writes < MaxWrites
  /\ Live(p) /\ x \notin relation[p]
  /\ relation' = [relation EXCEPT ![p] = @ \cup {x}]
  /\ preview' = IF x = "invitation" THEN preview ELSE Outdated({p})
  /\ writes' = writes + 1
  /\ UNCHANGED <<record, profile, user, stale, unshown>>

-----------------------------------------------------------------------------
(* The owner                                                               *)

Preview(s, a) ==
  /\ preview = Nothing
  /\ Live(s)
  /\ preview' = [subject |-> s, actions |-> a, current |-> TRUE, shown |-> Shown(s)]
  /\ UNCHANGED <<record, profile, user, relation, stale, unshown, writes>>

\* The preview is made again in the transaction, its fingerprint compared.
Current(p) == p.current

\* applyUserActions.
ActOnUser(u, a) ==
  /\ user' = [user EXCEPT ![u].live = @ \ a,
                          ![u].rows = @ \ (a \cap {"transfer"}),
                          ![u].identity = IF "identity" \in a THEN "detached" ELSE @]
  /\ UNCHANGED <<record, profile, relation, stale, unshown>>

\* applyProfileAnonymization and the end of applyPrivacyDomainErasure.
ActOnProfile(s, a) ==
  /\ profile' = IF "delete" \in a THEN [profile EXCEPT ![s] = "gone"]
                ELSE IF "anonymize" \in a THEN [profile EXCEPT ![s] = "anonymous"] ELSE profile
  /\ stale' = (stale \/ a \cap {"records", "relationships", "delete"} # {})

\* Records of the child alone go, the others lose their link to it.
WithoutChild(c, a) ==
  [r \in Records |->
     IF record[r] = Nothing \/ ("records" \in a /\ r \in Exclusive(c)) THEN Nothing
     ELSE [record[r] EXCEPT !.kids = @ \ {c}, !.past = @ \ {c}, !.actual = @ \ {c}]]

ActOnChild(c, a) ==
  /\ record' = IF a \cap {"records", "relationships", "delete"} # {}
               THEN WithoutChild(c, a) ELSE record
  /\ unshown' = unshown \cup
       {r \in Records : record[r] # Nothing /\ record'[r] = Nothing
                        /\ (r \notin preview.shown \/ ~(record[r].kids \cup record[r].actual \subseteq {c}))}
  /\ ActOnProfile(c, a)
  /\ UNCHANGED <<user, relation>>

ActOnParty(p, a) ==
  /\ relation' = IF "relationships" \in a THEN [relation EXCEPT ![p] = {}] ELSE relation
  /\ unshown' = unshown \cup
       (IF "relationships" \in a THEN (relation[p] \ preview.shown) \X {p} ELSE {})
  /\ ActOnProfile(p, a)
  /\ UNCHANGED <<record, user>>

\* executePrivacyAction.
Execute ==
  /\ preview # Nothing
  /\ Live(preview.subject)
  /\ Current(preview)
  /\ ~Blocked(preview.subject, preview.actions)
  /\ IF preview.subject \in Users THEN ActOnUser(preview.subject, preview.actions)
     ELSE IF preview.subject \in Children THEN ActOnChild(preview.subject, preview.actions)
     ELSE ActOnParty(preview.subject, preview.actions)
  /\ preview' = Outdated({preview.subject})
  /\ UNCHANGED writes

\* The preview is closed, after an error or a result.
Close ==
  /\ preview # Nothing
  /\ preview' = Nothing
  /\ UNCHANGED <<record, profile, user, relation, stale, unshown, writes>>

Next ==
  \/ \E r \in Records, kids, actual \in SUBSET Children, text \in BOOLEAN :
       Save(r, kids, actual, text)
  \/ \E u \in Users, x \in Attached \cup {"history"} : Attach(u, x)
  \/ \E p \in Parties, x \in Relations : Assign(p, x)
  \/ \E s \in Subjects : \E a \in Actions(s) : Preview(s, a)
  \/ Execute
  \/ Close

Spec == Init /\ [][Next]_vars

-----------------------------------------------------------------------------
\* Every variable has its type.
TypeOK ==
  /\ record \in [Records -> Row \cup {Nothing}]
  /\ profile \in [Children \cup Parties -> {"live", "anonymous", "gone"}]
  /\ user \in [Users -> UserRow]
  /\ relation \in [Parties -> SUBSET Relations]
  /\ preview \in Previewed \cup {Nothing}
  /\ stale \in BOOLEAN
  /\ writes \in 0..MaxWrites

\* docs/adr/0008: a record is deleted only if the preview covered it and no
\* other child has a part in it, neither a planned nor an actual one.
OnlyShownRecordsErased == unshown \cap Records = {}

\* docs/data-model.md: the step that detaches an identity leaves it no access,
\* care data, channel or mapping, whatever was attached since the preview.
DetachedKeepsNothing ==
  [][\A u \in Users : user[u].identity = "own" /\ user'[u].identity = "detached"
                        => user'[u].live = {}]_vars

\* docs/adr/0008: an entry that loses its complete meaning is blocked or
\* deleted. No entry or series is left without a planned child.
RecordsKeepAChild ==
  \A r \in Records : record[r] # Nothing /\ Kind[r] # "period" => record[r].kids # {}

\* docs/adr/0008: the preview inventories direct relationships.
OnlyShownRelationsErased == unshown \subseteq Records
=============================================================================
