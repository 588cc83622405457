----------------------------- MODULE PreviewsProofs -----------------------------
(***************************************************************************)
(* Proofs about what members are shown, as parts of Previews: their access *)
(* and feeds (MemberAccess), dialogs (PreviewDialog), what restricted      *)
(* members see (ScopedCare), the browser without a network (OfflineShell)  *)
(* and the change log (AuditLog), for any number of members, proposals,    *)
(* tabs, rows, pages and writes. With ChangesProofs and, through it,       *)
(* CareStatisticsProofs, every variable has its type.                      *)
(***************************************************************************)
EXTENDS ChangesProofs, Sequences

-----------------------------------------------------------------------------
(* Access of members, its previews and the feeds.                          *)

\* What the assumption on the constants says of this part.
LEMMA AccessConstants ==
  Access!ProposalAssumption /\ Access!MaxWritesAssumption /\ Access!NothingAssumption
  BY PreviewsAssumption DEF PreviewsAssumption

\* A behaviour of all parts is, seen from this part, a behaviour of it.
LEMMA AccessIsPart == Spec => Access!Spec
  <1>1. Init => Access!Init
    BY DEF Init
  <1>2. [Next]_vars => [Access!Next]_(Access!vars)
    BY DEF Next, vars, accessVars, Access!vars
  <1>. QED  BY <1>1, <1>2, PTL DEF Spec, Access!Spec

-----------------------------------------------------------------------------
(* Types.                                                                  *)

\* A normalized scope is a scope.
LEMMA NormalizedType ==
  ASSUME NEW role \in Access!Roles, NEW s \in Access!Scopes
  PROVE  Access!Normalized(role, s) \in Access!Scopes
  BY DEF Access!Normalized, Access!Scopes, Access!AllCare

\* Every member has a scope.
LEMMA ScopeType ==
  ASSUME Access!TypeOK, NEW u \in AccessUsers
  PROVE  Access!ScopeOf(u) \in Access!Scopes
  BY DEF Access!TypeOK, Access!ScopeOf, Access!Scopes, Access!AllCare, Access!Selected

\* Every role has a scope by default.
LEMMA DefaultType ==
  ASSUME NEW role \in Access!Roles
  PROVE  Access!DefaultScope(role) \in Access!Scopes
  BY DEF Access!DefaultScope, Access!Scopes, Access!AllCare, Access!Selected

\* What a preview shows, and what it is computed from, have their types.
LEMMA ShownType ==
  ASSUME Access!TypeOK, NEW u \in AccessUsers
  PROVE  /\ Access!Shown(u) \in Access!Shows
         /\ Access!Basis(u) \in Access!Bases
  <1>1. careParty \in Access!Times
    BY DEF Access!TypeOK
  <1>2. CASE member[u] = Nothing
    BY <1>1, <1>2 DEF Access!Shown, Access!Basis, Access!Access, Access!Shows, Access!Bases
  <1>3. CASE member[u] # Nothing
    <2>1. member[u] \in Access!Membership
      BY <1>3 DEF Access!TypeOK
    <2>2. member[u].role \in Access!Roles
      BY <2>1 DEF Access!Membership
    <2>3. Access!Access(u) \in Access!Grants
      BY <1>3, <2>2, ScopeType, NormalizedType DEF Access!Access, Access!Grants
    <2>4. [row |-> member[u], scope |-> Access!ScopeOf(u)]
            \in [row : Access!Membership, scope : Access!Scopes]
      BY <2>1, ScopeType
    <2>. QED  BY <1>1, <1>3, <2>3, <2>4 DEF Access!Shown, Access!Basis, Access!Shows, Access!Bases
  <1>. QED  BY <1>2, <1>3

\* A change of access keeps the types of the tables it writes.
LEMMA SetAccessType ==
  ASSUME Access!TypeOK, NEW u \in AccessUsers, NEW role \in Access!Roles,
         NEW s \in Access!Scopes, Access!SetAccess(u, role, s)
  PROVE  /\ member' \in [AccessUsers -> Access!Membership \cup {Nothing}]
         /\ assigned' \in [AccessUsers -> SUBSET AccessParties]
         /\ clock' \in 0..AccessWrites
  <1>1. clock' \in 0..AccessWrites
    BY AccessConstants DEF Access!TypeOK, Access!SetAccess, Access!Tick, Access!MaxWritesAssumption
  <1>2. /\ Access!Normalized(role, s).all \in BOOLEAN
        /\ Access!Normalized(role, s).parties \in SUBSET AccessParties
    BY NormalizedType DEF Access!Scopes
  <1>3. [role |-> role, all |-> Access!Normalized(role, s).all, at |-> clock'] \in Access!Membership
    BY <1>1, <1>2 DEF Access!Membership
  <1>. QED  BY <1>1, <1>2, <1>3 DEF Access!TypeOK, Access!SetAccess

\* The variables have their types at first.
LEMMA AccessTypeInit == Access!Init => Access!TypeOK
  <1>. SUFFICES ASSUME Access!Init PROVE Access!TypeOK
    OBVIOUS
  <1>1. [role |-> "editor", all |-> FALSE, at |-> 0] \in Access!Membership
    BY AccessConstants DEF Access!Membership, Access!Roles, Access!MaxWritesAssumption
  <1>2. member \in [AccessUsers -> Access!Membership \cup {Nothing}]
    BY <1>1 DEF Access!Init
  <1>3. careParty \in Access!Times /\ clock \in 0..AccessWrites
    BY AccessConstants DEF Access!Init, Access!Times, Access!MaxWritesAssumption
  <1>. QED  BY <1>2, <1>3 DEF Access!Init, Access!TypeOK, Access!Closed

\* A scope that is found keeps the type of the request.
LEMMA FoundType ==
  ASSUME reading \in Access!Readings, NEW ps \in SUBSET AccessParties
  PROVE  Access!Found(ps) \in Access!Readings \cup {Nothing}
  BY DEF Access!Found, Access!Readings

\* What is open to a member is a set of care parties.
LEMMA OpenType ==
  ASSUME Access!TypeOK, NEW u \in AccessUsers
  PROVE  Access!Visible(u) \in SUBSET AccessParties /\ assigned[u] \in SUBSET AccessParties
  BY DEF Access!TypeOK, Access!Visible

\* Every step keeps the types.
LEMMA AccessTypeStep == Access!TypeOK /\ [Access!Next]_(Access!vars) => Access!TypeOK'
  <1>. SUFFICES ASSUME Access!TypeOK, [Access!Next]_(Access!vars) PROVE Access!TypeOK'
    OBVIOUS
  <1>. USE DEF Access!TypeOK
  <1>. DEFINE Rest == /\ member \in [AccessUsers -> Access!Membership \cup {Nothing}]
                      /\ assigned \in [AccessUsers -> SUBSET AccessParties]
                      /\ careParty \in Access!Times
                      /\ clock \in 0..AccessWrites
                      /\ accessPreview \in [AccessUsers -> Access!Previews \cup {Nothing}]
                      /\ invitation \in [AccessUsers -> Access!Grants \cup {Nothing}]
                      /\ feed \in [AccessUsers -> SUBSET Access!Feeds]
                      /\ rotating \in [AccessUsers -> Access!Feeds \cup {Nothing}]
                      /\ reading \in Access!Readings \cup {Nothing}
  <1>1. ASSUME NEW u \in AccessUsers, NEW p \in AccessProposals,
               Access!PreviewAccess(u, p.role, p.scope)
        PROVE  Rest'
    <2>1. p.role \in Access!Roles /\ Access!Normalized(p.role, p.scope) \in Access!Scopes
      BY AccessConstants, NormalizedType DEF Access!ProposalAssumption, Access!Grants
    <2>2. [before |-> Access!Shown(u), basis |-> Access!Basis(u),
           after |-> [access |-> [role |-> p.role, scope |-> Access!Normalized(p.role, p.scope)],
                      parties |-> careParty]] \in Access!Previews
      BY <2>1, ShownType DEF Access!Previews, Access!Grants
    <2>. QED  BY <1>1, <2>2 DEF Access!PreviewAccess
  <1>2. ASSUME NEW u \in AccessUsers, NEW p \in AccessProposals, Access!Invite(u, p.role, p.scope)
        PROVE  Rest'
    <2>1. [role |-> p.role, scope |-> Access!Normalized(p.role, p.scope)] \in Access!Grants
      BY AccessConstants, NormalizedType DEF Access!ProposalAssumption, Access!Grants
    <2>. QED  BY <1>2, <2>1 DEF Access!Invite
  <1>3. ASSUME NEW u \in AccessUsers, NEW role \in Access!Roles, Access!UpdateRole(u, role)
        PROVE  Rest'
    <2>1. (IF member[u] = Nothing THEN Access!DefaultScope(role) ELSE Access!ScopeOf(u))
            \in Access!Scopes
      BY ScopeType, DefaultType
    <2>2. feed' \in [AccessUsers -> SUBSET Access!Feeds]
      BY <1>3 DEF Access!UpdateRole, Access!Revoked
    <2>. QED  BY <1>3, <2>1, <2>2, SetAccessType DEF Access!UpdateRole
  <1>4. ASSUME NEW u \in AccessUsers, NEW ps \in SUBSET AccessParties, Access!UpdateAssignments(u, ps)
        PROVE  Rest'
    <2>1. clock' \in 0..AccessWrites
      BY <1>4, AccessConstants DEF Access!UpdateAssignments, Access!Tick, Access!MaxWritesAssumption
    <2>2. member' \in [AccessUsers -> Access!Membership \cup {Nothing}]
      <3>1. CASE member[u] = Nothing
        BY <1>4, <3>1 DEF Access!UpdateAssignments
      <3>2. CASE member[u] # Nothing
        <4>1. [member[u] EXCEPT !.all = member[u].role = "admin", !.at = clock'] \in Access!Membership
          BY <2>1, <3>2 DEF Access!Membership
        <4>2. member' = [member EXCEPT ![u] =
                [member[u] EXCEPT !.all = member[u].role = "admin", !.at = clock']]
          BY <1>4, <3>2 DEF Access!UpdateAssignments
        <4>. QED  BY <4>1, <4>2
      <3>. QED  BY <3>1, <3>2
    <2>3. /\ assigned' \in [AccessUsers -> SUBSET AccessParties]
          /\ UNCHANGED <<careParty, accessPreview, invitation, feed, rotating, reading>>
      BY <1>4 DEF Access!UpdateAssignments
    <2>. QED  BY <2>1, <2>2, <2>3
  <1>5. ASSUME NEW u \in AccessUsers, NEW f \in Access!Feeds, Access!CheckFeedScope(u, f)
        PROVE  Rest'
    BY <1>5 DEF Access!CheckFeedScope
  <1>16. ASSUME NEW u \in AccessUsers, NEW f \in Access!Feeds, Access!FindToken(u, f)
         PROVE  Rest'
    <2>1. [user |-> u, feed |-> f, again |-> FALSE, scope |-> {}, next |-> "permission"]
            \in Access!Readings
      BY DEF Access!Readings
    <2>. QED  BY <1>16, <2>1 DEF Access!FindToken
  <1>6. ASSUME NEW u \in AccessUsers, NEW fs, Access!RevokeFeeds(u, fs)
        PROVE  Rest'
    BY <1>6 DEF Access!RevokeFeeds
  <1>7. ASSUME NEW u \in AccessUsers, Access!ApplyAccess(u)
        PROVE  Rest'
    <2>1. accessPreview[u] \in Access!Previews
      BY <1>7 DEF Access!ApplyAccess
    <2>2. accessPreview[u].after.access \in Access!Grants
      BY <2>1 DEF Access!Previews
    <2>3. feed' \in [AccessUsers -> SUBSET Access!Feeds]
      BY <1>7 DEF Access!ApplyAccess, Access!Revoked
    <2>. QED  BY <1>7, <2>2, <2>3, SetAccessType DEF Access!ApplyAccess, Access!Grants
  <1>8. ASSUME NEW u \in AccessUsers, Access!DropPreview(u)
        PROVE  Rest'
    BY <1>8 DEF Access!DropPreview
  <1>9. ASSUME NEW u \in AccessUsers, Access!RemoveMember(u)
        PROVE  Rest'
    BY <1>9, AccessConstants DEF Access!RemoveMember, Access!Tick, Access!Revoked, Access!MaxWritesAssumption
  <1>10. ASSUME NEW u \in AccessUsers, Access!AcceptInvitation(u)
         PROVE  Rest'
    <2>1. invitation[u] \in Access!Grants
      BY <1>10 DEF Access!AcceptInvitation
    <2>. QED  BY <1>10, <2>1, SetAccessType DEF Access!AcceptInvitation, Access!Grants
  <1>11. ASSUME NEW u \in AccessUsers, Access!RotateToken(u)
         PROVE  Rest'
    BY <1>11 DEF Access!RotateToken
  <1>12. ASSUME NEW p \in AccessParties, Access!UpdateParty(p) \/ Access!DeleteParty(p)
         PROVE  Rest'
    BY <1>12, AccessConstants
    DEF Access!UpdateParty, Access!DeleteParty, Access!Tick, Access!Times, Access!MaxWritesAssumption
  <1>13. ASSUME NEW u \in AccessUsers, reading # Nothing,
                \/ Access!ReadPermission(u) \/ Access!ReadUser(u)
                \/ Access!ReadMembership(u) \/ Access!ReadAssignments(u)
         PROVE  Rest'
    <2>. DEFINE Request(r) == r \in Access!Readings \cup {Nothing}
    <2>1. reading \in Access!Readings
      BY <1>13
    <2>2. /\ Request(Access!Found({})) /\ Request(Access!Found(AccessParties))
          /\ Request(Access!Found(assigned[u]))
      BY <2>1, FoundType
    <2>3. /\ Request([reading EXCEPT !.next = "user"])
          /\ Request([reading EXCEPT !.next = "membership"])
          /\ Request([reading EXCEPT !.next = "assignments"])
      BY <2>1 DEF Access!Readings
    <2>4. Request(reading')
      BY <1>13, <2>2, <2>3
      DEF Access!ReadPermission, Access!ReadUser, Access!ReadMembership, Access!ReadAssignments,
          Access!Read
    <2>5. UNCHANGED <<member, assigned, careParty, clock, accessPreview, invitation, feed, rotating>>
      BY <1>13
      DEF Access!ReadPermission, Access!ReadUser, Access!ReadMembership, Access!ReadAssignments,
          Access!Read
    <2>. QED  BY <2>4, <2>5
  <1>14. ASSUME Access!SendFeed PROVE Rest'
    BY <1>14 DEF Access!SendFeed, Access!Read
  <1>15. CASE UNCHANGED Access!vars
    BY <1>15 DEF Access!vars
  <1>17. CASE Access!Next
    <2>1. Rest'
      BY <1>1, <1>2, <1>3, <1>4, <1>5, <1>6, <1>7, <1>8, <1>9, <1>10, <1>11, <1>12, <1>13,
         <1>14, <1>16, <1>17 DEF Access!Next, Access!Step
    <2>2. ASSUME reading' # Nothing
          PROVE  /\ Access!Visible(reading'.user) \in SUBSET AccessParties
                 /\ assigned[reading'.user] \in SUBSET AccessParties
      BY <2>1, <2>2, OpenType DEF Access!Readings
    <2>3. open' \in [fed : BOOLEAN, parties : SUBSET AccessParties]
      BY <1>17, <2>2 DEF Access!Next, Access!Remember, Access!LookedAgain, Access!Closed,
                         Access!MayFeed
    <2>. QED  BY <2>1, <2>3
  <1>. QED  BY <1>15, <1>17

\* The members, their care parties, previews, invitations and feeds have their types
\* whenever the part is exercised (updateMemberAccess, feedEntriesForToken).
THEOREM AccessTypes == Spec => [](part = "access" => Access!TypeOK)
  <1>1. Access!Spec => []Access!TypeOK
    BY AccessTypeInit, AccessTypeStep, PTL DEF Access!Spec
  <1>. QED  BY <1>1, AccessIsPart, PTL

-----------------------------------------------------------------------------
(* Feeds. A request goes on to the entries with what one of its reads has  *)
(* found of the member, and what its second look finds is remembered as    *)
(* open to the member at that moment.                                      *)

FoundIsOpen ==
  reading # Nothing =>
    /\ Access!LookedAgain(reading) /\ reading.next # "entries" => open.fed
    /\ reading.scope # {} =>
         /\ reading.again /\ reading.next = "entries"
         /\ open.fed /\ reading.scope \subseteq open.parties

\* The answer to a calendar client goes on in its own steps only.
LEMMA ReadingMoves ==
  ASSUME Access!Step
  PROVE  \/ Access!SendFeed \/ reading' = reading
         \/ \E u \in AccessUsers, f \in Access!Feeds : Access!FindToken(u, f)
         \/ \E u \in AccessUsers :
              /\ reading # Nothing /\ reading.user = u
              /\ \/ Access!ReadPermission(u) \/ Access!ReadUser(u)
                 \/ Access!ReadMembership(u) \/ Access!ReadAssignments(u)
  BY DEF Access!Step, Access!PreviewAccess, Access!Invite, Access!UpdateRole,
     Access!UpdateAssignments, Access!CheckFeedScope, Access!RevokeFeeds,
     Access!ApplyAccess, Access!DropPreview, Access!RemoveMember, Access!AcceptInvitation,
     Access!RotateToken, Access!UpdateParty, Access!DeleteParty

\* Whoever sees all care data, as an administrator or by his membership, has all
\* care parties open to him.
LEMMA AllIsVisible ==
  ASSUME NEW u \in AccessUsers, member[u] # Nothing, member[u].role = "admin" \/ member[u].all
  PROVE  Access!Visible(u) = AccessParties
  BY DEF Access!Visible, Access!Access, Access!Normalized, Access!ScopeOf, Access!AllCare

\* What is open to a member at a step of the second look is remembered.
LEMMA Remembers ==
  ASSUME Access!TypeOK, Access!Remember, Access!LookedAgain(reading'),
         NEW u \in AccessUsers, reading'.user = u
  PROVE  /\ open'.fed = (open.fed \/ Access!MayFeed(u))
         /\ open'.parties = open.parties \cup Access!Visible(u) \cup assigned[u]
  BY DEF Access!Remember

\* Every step keeps what is found among what is open.
LEMMA FoundIsOpenStep ==
  Access!TypeOK /\ FoundIsOpen /\ [Access!Next]_(Access!vars) => FoundIsOpen'
  <1>. SUFFICES ASSUME Access!TypeOK, FoundIsOpen, [Access!Next]_(Access!vars)
                PROVE  FoundIsOpen'
    OBVIOUS
  <1>1. CASE UNCHANGED Access!vars
    BY <1>1 DEF Access!vars, FoundIsOpen, Access!LookedAgain
  <1>2. CASE Access!Next
    <2>. Access!Step /\ Access!Remember
      BY <1>2 DEF Access!Next
    <2>1. ASSUME NEW u \in AccessUsers, NEW f \in Access!Feeds, Access!FindToken(u, f)
          PROVE  FoundIsOpen'
      BY <2>1 DEF Access!FindToken, FoundIsOpen, Access!LookedAgain
    <2>2. CASE Access!SendFeed
      BY <2>2 DEF Access!SendFeed, Access!Read, FoundIsOpen
    <2>3. CASE reading' = reading
      <3>1. ASSUME reading # Nothing, Access!LookedAgain(reading)
            PROVE  (open.fed => open'.fed) /\ open.parties \subseteq open'.parties
        <4>1. reading.user \in AccessUsers
          BY <3>1 DEF Access!TypeOK, Access!Readings
        <4>2. Access!LookedAgain(reading')
          BY <2>3, <3>1 DEF Access!LookedAgain
        <4>. QED  BY <2>3, <4>1, <4>2, Remembers
      <3>. QED  BY <2>3, <3>1 DEF FoundIsOpen, Access!LookedAgain
    <2>4. ASSUME NEW u \in AccessUsers, reading # Nothing, reading.user = u,
                 \/ Access!ReadPermission(u) \/ Access!ReadUser(u)
                 \/ Access!ReadMembership(u) \/ Access!ReadAssignments(u)
          PROVE  FoundIsOpen'
      <3>. reading \in Access!Readings /\ reading.user = u
        BY <2>4 DEF Access!TypeOK
      <3>. DEFINE again == reading.again
      <3>1. ASSUME NEW ps \in SUBSET AccessParties, reading' = Access!Found(ps),
                   reading.next \in {"user", "membership", "assignments"},
                   again => reading.next = "user" \/ open.fed,
                   again /\ ps # {} /\ reading.next = "user" => Access!MayFeed(u),
                   ps \subseteq Access!Visible(u) \cup assigned[u] \/ ~again
            PROVE  FoundIsOpen'
        <4>1. CASE ~again
          <5>1. reading.scope = {}
            BY <2>4, <4>1 DEF FoundIsOpen
          <5>. QED  BY <3>1, <4>1, <5>1 DEF Access!Found, Access!Readings, FoundIsOpen, Access!LookedAgain
        <4>2. CASE again
          <5>1. /\ reading' = [reading EXCEPT !.scope = ps, !.next = "entries"]
                /\ reading' \in Access!Readings
            BY <3>1, <4>2 DEF Access!Found, Access!Readings
          <5>2. /\ reading'.user = u /\ reading'.again /\ reading'.scope = ps
                /\ reading'.next = "entries"
            BY <4>2, <5>1 DEF Access!Readings
          <5>3. reading' # Nothing
            BY <5>1, AccessConstants DEF Access!NothingAssumption
          <5>4. Access!LookedAgain(reading')
            BY <5>2, <5>3 DEF Access!LookedAgain
          <5>5. /\ open'.fed = (open.fed \/ Access!MayFeed(u))
                /\ open'.parties = open.parties \cup Access!Visible(u) \cup assigned[u]
            BY <5>2, <5>4, Remembers
          <5>6. ps # {} => open'.fed /\ ps \subseteq open'.parties
            BY <3>1, <4>2, <5>5
          <5>7. Access!LookedAgain(reading)'
            BY <5>4 DEF Access!LookedAgain
          <5>. QED  BY <5>2, <5>6, <5>7 DEF FoundIsOpen
        <4>. QED  BY <4>1, <4>2
      <3>2. ASSUME reading' = Nothing PROVE FoundIsOpen'
        BY <3>2 DEF FoundIsOpen
      <3>3. ASSUME NEW n \in {"user", "membership", "assignments"},
                   reading' = [reading EXCEPT !.next = n],
                   again /\ n # "user" => open.fed \/ Access!MayFeed(u),
                   reading.scope = {}
            PROVE  FoundIsOpen'
        <4>1. /\ reading'.user = u /\ reading'.again = again /\ reading'.scope = {}
              /\ reading'.next = n
          BY <3>3 DEF Access!Readings
        <4>2. CASE again /\ n # "user" /\ reading' # Nothing
          <5>1. Access!LookedAgain(reading')
            BY <4>1, <4>2 DEF Access!LookedAgain
          <5>2. open'.fed
            BY <3>3, <4>1, <4>2, <5>1, Remembers
          <5>. QED  BY <4>1, <5>2 DEF FoundIsOpen
        <4>. QED  BY <4>1, <4>2 DEF FoundIsOpen, Access!LookedAgain
      <3>4. /\ reading.next # "entries" => reading.scope = {}
            /\ again /\ reading.next \in {"membership", "assignments"} => open.fed
        BY <2>4 DEF FoundIsOpen, Access!LookedAgain
      <3>5. Access!Visible(u) \in SUBSET AccessParties /\ assigned[u] \in SUBSET AccessParties
        BY OpenType
      <3>6. CASE Access!ReadPermission(u)
        <4>1. again = FALSE \/ again = TRUE
          BY DEF Access!Readings
        <4>2. reading.next = "permission"
          BY <3>6 DEF Access!ReadPermission, Access!Read
        <4>. QED  BY <3>2, <3>3, <3>4, <3>6, <4>2 DEF Access!ReadPermission, Access!Read
      <3>7. CASE Access!ReadUser(u)
        <4>1. reading.next = "user" /\ reading.scope = {}
          BY <3>4, <3>7 DEF Access!ReadUser, Access!Read
        <4>2. CASE reading' = Access!Found({})
          BY <3>1, <4>1, <4>2
        <4>3. CASE /\ reading' = Access!Found(AccessParties)
                   /\ again => member[u] # Nothing /\ member[u].role = "admin"
          <5>1. again => Access!MayFeed(u) /\ Access!Visible(u) = AccessParties
            BY <4>3, AllIsVisible DEF Access!MayFeed
          <5>. QED  BY <3>1, <4>1, <4>3, <5>1
        <4>4. CASE /\ reading' = [reading EXCEPT !.next = "membership"]
                   /\ again => Access!MayFeed(u)
          BY <3>3, <4>1, <4>4
        <4>. QED  BY <3>2, <3>7, <4>2, <4>3, <4>4 DEF Access!ReadUser, Access!Read, Access!MayGoOn
      <3>8. CASE Access!ReadMembership(u)
        <4>1. reading.next = "membership" /\ reading.scope = {}
          BY <3>4, <3>8 DEF Access!ReadMembership, Access!Read
        <4>2. CASE reading' = Access!Found({})
          BY <3>1, <3>4, <4>1, <4>2
        <4>3. CASE /\ reading' = Access!Found(AccessParties)
                   /\ member[u] # Nothing /\ member[u].all
          BY <3>1, <3>4, <4>1, <4>3, AllIsVisible
        <4>4. CASE reading' = [reading EXCEPT !.next = "assignments"]
          BY <3>3, <3>4, <4>1, <4>4
        <4>. QED  BY <3>8, <4>2, <4>3, <4>4 DEF Access!ReadMembership, Access!Read
      <3>9. CASE Access!ReadAssignments(u)
        <4>1. reading.next = "assignments" /\ reading' = Access!Found(assigned[u])
          BY <3>9 DEF Access!ReadAssignments, Access!Read
        <4>. QED  BY <3>1, <3>4, <3>5, <4>1
      <3>. QED  BY <2>4, <3>6, <3>7, <3>8, <3>9
    <2>. QED  BY <2>1, <2>2, <2>3, <2>4, ReadingMoves
  <1>. QED  BY <1>1, <1>2

\* A calendar client is shown what its member had once the second look began
\* (feedEntriesForToken), whatever is written between the reads of a request and
\* however long ago the token was checked.
THEOREM FeedsFollow == Spec => []FeedsFollowAccess
  <1>1. Access!Init => FoundIsOpen
    BY DEF Access!Init, FoundIsOpen
  <1>2. Access!Spec => [](Access!TypeOK /\ FoundIsOpen)
    BY <1>1, FoundIsOpenStep, AccessTypeInit, AccessTypeStep, PTL DEF Access!Spec
  <1>3. FoundIsOpen => FeedsFollowAccess
    BY DEF FoundIsOpen, FeedsFollowAccess, Access!FeedsFollowAccess, Access!FeedContent
  <1>. QED  BY <1>2, <1>3, AccessIsPart, PTL

-----------------------------------------------------------------------------
(* Previews. What a preview shows is computed from its basis, and what it  *)
(* offers is a scope that its role can have: so a preview whose basis is   *)
(* still the state shows the state, and its application yields what it     *)
(* showed.                                                                 *)

AccessOf(current) ==
  IF current = Nothing THEN Nothing
  ELSE [role |-> current.row.role, scope |-> Access!Normalized(current.row.role, current.scope)]

ShowsItsBasis(p) ==
  /\ p.before = [access |-> AccessOf(p.basis.current), parties |-> p.basis.parties]
  /\ p.after.parties = p.basis.parties
  /\ p.after.access.scope = Access!Normalized(p.after.access.role, p.after.access.scope)

PreviewsShowTheirBasis ==
  \A u \in AccessUsers : accessPreview[u] # Nothing => ShowsItsBasis(accessPreview[u])

\* Previews come and go in three operations.
LEMMA PreviewKinds ==
  ASSUME [Access!Next]_(Access!vars)
  PROVE  \/ UNCHANGED accessPreview
         \/ \E v \in AccessUsers :
              \/ \E p \in AccessProposals : Access!PreviewAccess(v, p.role, p.scope)
              \/ Access!ApplyAccess(v)
              \/ Access!DropPreview(v)
  BY DEF Access!Next, Access!vars, Access!Invite, Access!UpdateRole,
     Access!UpdateAssignments, Access!CheckFeedScope, Access!FindToken, Access!RevokeFeeds,
     Access!RemoveMember, Access!AcceptInvitation,
     Access!RotateToken, Access!UpdateParty, Access!DeleteParty, Access!Step,
     Access!ReadPermission, Access!ReadUser, Access!ReadMembership, Access!ReadAssignments,
     Access!SendFeed, Access!Read

\* What a preview shows is a function of what its fingerprint covers.
LEMMA BasisShows ==
  ASSUME Access!TypeOK, NEW u \in AccessUsers
  PROVE  Access!Shown(u) = [access |-> AccessOf(Access!Basis(u).current),
                            parties |-> Access!Basis(u).parties]
  <1>1. CASE member[u] = Nothing
    BY <1>1 DEF Access!Shown, Access!Basis, Access!Access, AccessOf
  <1>2. CASE member[u] # Nothing
    <2>1. [row |-> member[u], scope |-> Access!ScopeOf(u)]
            \in [row : Access!Membership, scope : Access!Scopes]
      BY <1>2, ScopeType DEF Access!TypeOK
    <2>2. [row |-> member[u], scope |-> Access!ScopeOf(u)] # Nothing
      BY <2>1, AccessConstants DEF Access!NothingAssumption
    <2>. QED  BY <1>2, <2>2 DEF Access!Shown, Access!Basis, Access!Access, AccessOf
  <1>. QED  BY <1>1, <1>2

\* Normalizing a scope twice is normalizing it once.
LEMMA NormalizedTwice ==
  ASSUME NEW role, NEW s
  PROVE  Access!Normalized(role, Access!Normalized(role, s)) = Access!Normalized(role, s)
  BY DEF Access!Normalized

\* Every step keeps the previews true of their basis.
LEMMA PreviewsShowTheirBasisStep ==
  Access!TypeOK /\ PreviewsShowTheirBasis /\ [Access!Next]_(Access!vars)
    => PreviewsShowTheirBasis'
  <1>. SUFFICES ASSUME Access!TypeOK, PreviewsShowTheirBasis, [Access!Next]_(Access!vars)
                PROVE  PreviewsShowTheirBasis'
    OBVIOUS
  <1>0. ASSUME \A u \in AccessUsers :
                 accessPreview'[u] # Nothing => ShowsItsBasis(accessPreview'[u])
        PROVE  PreviewsShowTheirBasis'
    BY <1>0 DEF PreviewsShowTheirBasis, ShowsItsBasis
  <1>1. CASE UNCHANGED accessPreview
    BY <1>1 DEF PreviewsShowTheirBasis
  <1>2. ASSUME NEW v \in AccessUsers, NEW p \in AccessProposals,
               Access!PreviewAccess(v, p.role, p.scope)
        PROVE  PreviewsShowTheirBasis'
    <2>. DEFINE new == [before |-> Access!Shown(v), basis |-> Access!Basis(v),
                        after |-> [access |-> [role |-> p.role,
                                               scope |-> Access!Normalized(p.role, p.scope)],
                                   parties |-> careParty]]
    <2>1. ShowsItsBasis(new)
      BY BasisShows, NormalizedTwice DEF ShowsItsBasis, Access!Basis
    <2>2. accessPreview' = [accessPreview EXCEPT ![v] = new]
      BY <1>2 DEF Access!PreviewAccess
    <2>3. ASSUME NEW u \in AccessUsers, accessPreview'[u] # Nothing
          PROVE  ShowsItsBasis(accessPreview'[u])
      BY <2>1, <2>2, <2>3 DEF PreviewsShowTheirBasis, Access!TypeOK
    <2>. QED  BY <1>0, <2>3
  <1>3. ASSUME NEW v \in AccessUsers, Access!ApplyAccess(v) \/ Access!DropPreview(v)
        PROVE  PreviewsShowTheirBasis'
    <2>1. accessPreview' = [accessPreview EXCEPT ![v] = Nothing]
      BY <1>3 DEF Access!ApplyAccess, Access!DropPreview
    <2>2. ASSUME NEW u \in AccessUsers, accessPreview'[u] # Nothing
          PROVE  ShowsItsBasis(accessPreview'[u])
      <3>1. accessPreview'[u] = accessPreview[u]
        BY <2>1, <2>2 DEF Access!TypeOK
      <3>. QED  BY <2>2, <3>1 DEF PreviewsShowTheirBasis
    <2>. QED  BY <1>0, <2>2
  <1>. QED  BY <1>1, <1>2, <1>3, PreviewKinds

\* The preview of PreviewedWrite that a preview stands for.
Offer(p) == IF p = Nothing THEN Nothing ELSE [before |-> p.before, after |-> p.after]

\* A preview is an offer of the abstract specification.
LEMMA OfferIsThere ==
  ASSUME NEW p \in Access!Previews
  PROVE  Offer(p) # Nothing /\ Offer(p).before = p.before /\ Offer(p).after = p.after
  <1>1. p # Nothing
    BY AccessConstants DEF Access!NothingAssumption
  <1>2. [before |-> p.before, after |-> p.after]
          \in [before : Access!Shows, after : [access : Access!Grants, parties : Access!Times]]
    BY DEF Access!Previews
  <1>. QED  BY <1>1, <1>2, AccessConstants DEF Offer, Access!NothingAssumption

\* What is shown of a member depends on his membership, his care parties and the
\* parties there are.
LEMMA ShownKept ==
  ASSUME Access!TypeOK, NEW u \in AccessUsers,
         member'[u] = member[u], assigned'[u] = assigned[u], careParty' = careParty
  PROVE  Access!Shown(u)' = Access!Shown(u)
  BY DEF Access!Shown, Access!Access, Access!ScopeOf

\* After setMembershipAccess and syncMemberCareDataScope, the member has the
\* role and the scope they were called with.
LEMMA SetAccessSets ==
  ASSUME Access!TypeOK, NEW u \in AccessUsers, NEW g \in Access!Grants,
         g.scope = Access!Normalized(g.role, g.scope),
         Access!SetAccess(u, g.role, g.scope)
  PROVE  Access!Access(u)' = g
  <1>1. g.role \in Access!Roles /\ g.scope \in Access!Scopes /\ clock' \in 0..AccessWrites
    BY SetAccessType DEF Access!Grants
  <1>2. member'[u] = [role |-> g.role, all |-> g.scope.all, at |-> clock']
    BY DEF Access!SetAccess, Access!TypeOK
  <1>3. assigned'[u] = g.scope.parties
    BY DEF Access!SetAccess, Access!TypeOK
  <1>4. member'[u] # Nothing
    <2>. DEFINE all == g.scope.all
    <2>1. all \in BOOLEAN
      BY <1>1 DEF Access!Scopes
    <2>2. member'[u] = [role |-> g.role, all |-> all, at |-> clock']
      BY <1>2
    <2>. HIDE DEF all
    <2>3. member'[u] \in Access!Membership
      BY <1>1, <2>1, <2>2 DEF Access!Membership
    <2>. QED  BY <2>3, AccessConstants DEF Access!NothingAssumption
  <1>5. Access!ScopeOf(u)' = g.scope
    <2>1. member'[u].all = g.scope.all
      BY <1>2
    <2>2. CASE g.scope.all
      <3>1. g.scope \in [all : {TRUE}, parties : {{}}]
        BY <1>1, <2>2 DEF Access!Scopes
      <3>2. g.scope = Access!AllCare
        BY <3>1 DEF Access!AllCare
      <3>. QED  BY <2>1, <2>2, <3>2 DEF Access!ScopeOf, Access!AllCare
    <2>3. CASE ~g.scope.all
      <3>1. g.scope \in [all : {FALSE}, parties : SUBSET AccessParties]
        BY <1>1, <2>3 DEF Access!Scopes
      <3>2. g.scope = Access!Selected(g.scope.parties)
        BY <3>1 DEF Access!Selected
      <3>. QED  BY <1>3, <2>1, <2>3, <3>2 DEF Access!ScopeOf, Access!Selected
    <2>. QED  BY <2>2, <2>3
  <1>6. Access!Access(u)' = [role |-> g.role, scope |-> g.scope]
    BY <1>2, <1>4, <1>5 DEF Access!Access
  <1>. QED  BY <1>6 DEF Access!Grants

\* A change applied to one member changes nothing that is shown of another.
LEMMA ShownStep ==
  ASSUME Access!TypeOK, NEW u \in AccessUsers, NEW v \in AccessUsers, u # v,
         Access!ApplyAccess(v)
  PROVE  Access!Shown(u)' = Access!Shown(u)
  <1>1. member'[u] = member[u] /\ assigned'[u] = assigned[u] /\ careParty' = careParty
    BY DEF Access!ApplyAccess, Access!SetAccess, Access!TypeOK
  <1>. QED  BY <1>1, ShownKept

\* Every step is one of PreviewedWrite.
LEMMA AccessStepIsPreviewed ==
  ASSUME Access!TypeOK, PreviewsShowTheirBasis, [Access!Next]_(Access!vars)
  PROVE  Access!Previewed!Next
  <1>. DEFINE state == [u \in AccessUsers |-> Access!Shown(u)]
              offer == [u \in AccessUsers |-> Offer(accessPreview[u])]
  <1>0. offer = [u \in AccessUsers |-> IF accessPreview[u] = Nothing THEN Nothing
                   ELSE [before |-> accessPreview[u].before, after |-> accessPreview[u].after]]
    BY DEF Offer
  <1>1. CASE UNCHANGED accessPreview
    BY <1>1 DEF Access!Previewed!Next, Access!Previewed!Change
  <1>2. ASSUME NEW v \in AccessUsers, NEW p \in AccessProposals,
               Access!PreviewAccess(v, p.role, p.scope)
        PROVE  Access!Previewed!Show(v)
    <2>. DEFINE new == [before |-> Access!Shown(v), basis |-> Access!Basis(v),
                        after |-> [access |-> [role |-> p.role,
                                               scope |-> Access!Normalized(p.role, p.scope)],
                                   parties |-> careParty]]
    <2>1. accessPreview' = [accessPreview EXCEPT ![v] = new]
      BY <1>2 DEF Access!PreviewAccess
    <2>2. new \in Access!Previews
      <3>1. p.role \in Access!Roles /\ Access!Normalized(p.role, p.scope) \in Access!Scopes
        BY AccessConstants, NormalizedType DEF Access!ProposalAssumption, Access!Grants
      <3>. QED  BY <3>1, ShownType DEF Access!Previews, Access!Grants, Access!TypeOK
    <2>3. Offer(new) # Nothing /\ Offer(new).before = Access!Shown(v)
      BY <2>2, OfferIsThere
    <2>. HIDE DEF new
    <2>4. accessPreview' \in [AccessUsers -> Access!Previews \cup {Nothing}]
      BY <2>1, <2>2 DEF Access!TypeOK
    <2>5. offer' = [offer EXCEPT ![v] = Offer(new)]
      BY <2>1, <2>4 DEF Offer, Access!TypeOK
    <2>6. state' = state
      BY <1>2 DEF Access!PreviewAccess, Access!Shown, Access!Access, Access!ScopeOf
    <2>7. offer'[v] = Offer(new) /\ state[v] = Access!Shown(v)
      BY <2>5
    <2>. QED  BY <1>0, <2>3, <2>5, <2>6, <2>7 DEF Access!Previewed!Show, Offer
  <1>3. ASSUME NEW v \in AccessUsers, accessPreview[v] # Nothing,
               accessPreview' = [accessPreview EXCEPT ![v] = Nothing]
        PROVE  offer[v] # Nothing /\ offer' = [offer EXCEPT ![v] = Nothing]
    <2>1. accessPreview[v] \in Access!Previews
      BY <1>3 DEF Access!TypeOK
    <2>2. offer[v] # Nothing
      BY <2>1, OfferIsThere
    <2>3. offer' = [offer EXCEPT ![v] = Nothing]
      BY <1>3 DEF Offer, Access!TypeOK
    <2>. QED  BY <2>2, <2>3
  <1>4. ASSUME NEW v \in AccessUsers, Access!DropPreview(v)
        PROVE  Access!Previewed!Withdraw(v)
    <2>1. offer[v] # Nothing /\ offer' = [offer EXCEPT ![v] = Nothing]
      BY <1>3, <1>4 DEF Access!DropPreview
    <2>2. state' = state
      BY <1>4 DEF Access!DropPreview, Access!Shown, Access!Access, Access!ScopeOf
    <2>. QED  BY <1>0, <2>1, <2>2 DEF Access!Previewed!Withdraw, Offer
  <1>5. ASSUME NEW v \in AccessUsers, Access!ApplyAccess(v)
        PROVE  Access!Previewed!Apply(v)
    <2>. DEFINE p == accessPreview[v]
    <2>1. p \in Access!Previews /\ ShowsItsBasis(p) /\ p.basis = Access!Basis(v)
      BY <1>5 DEF Access!ApplyAccess, Access!TypeOK, PreviewsShowTheirBasis
    <2>2. offer[v] # Nothing /\ offer' = [offer EXCEPT ![v] = Nothing]
      BY <1>3, <1>5 DEF Access!ApplyAccess
    <2>3. offer[v].before = p.before /\ offer[v].after = p.after
      BY <2>1, OfferIsThere
    <2>4. p.before = Access!Shown(v)
      BY <2>1, BasisShows DEF ShowsItsBasis
    <2>5. p.after.access \in Access!Grants /\ p.after.parties = careParty
      BY <2>1 DEF Access!Previews, ShowsItsBasis, Access!Basis
    <2>6. Access!SetAccess(v, p.after.access.role, p.after.access.scope)
      BY <1>5 DEF Access!ApplyAccess
    <2>7. Access!Access(v)' = p.after.access
      BY <2>1, <2>5, <2>6, SetAccessSets DEF ShowsItsBasis
    <2>8. p.after = [access |-> p.after.access, parties |-> careParty]
      BY <2>1, <2>5 DEF Access!Previews
    <2>9. Access!Shown(v)' = p.after
      <3>1. careParty' = careParty
        BY <1>5 DEF Access!ApplyAccess
      <3>2. Access!Shown(v)' = [access |-> Access!Access(v)', parties |-> careParty']
        BY DEF Access!Shown
      <3>. QED  BY <2>7, <2>8, <3>1, <3>2
    <2>10. state' = [state EXCEPT ![v] = p.after]
      BY <1>5, <2>9, ShownStep
    <2>11. offer[v].before = state[v] /\ state' = [state EXCEPT ![v] = offer[v].after]
      BY <2>3, <2>4, <2>10
    <2>. QED  BY <1>0, <2>2, <2>11 DEF Access!Previewed!Apply, Offer
  <1>. QED
    BY <1>1, <1>2, <1>4, <1>5, PreviewKinds DEF Access!Previewed!Next

\* A change of a member's access does exactly what its preview showed, or
\* nothing (updateMemberAccess): MemberAccess implements PreviewedWrite.
THEOREM AccessIsPreviewed == Spec => AccessAppliedAsShown
  <1>1. Access!Init => PreviewsShowTheirBasis
    BY DEF Access!Init, PreviewsShowTheirBasis
  <1>2. Access!Spec => [](Access!TypeOK /\ PreviewsShowTheirBasis)
    BY <1>1, PreviewsShowTheirBasisStep, AccessTypeInit, AccessTypeStep, PTL DEF Access!Spec
  <1>3. Access!Init => Access!Previewed!Init
    BY DEF Access!Init, Access!Previewed!Init
  <1>4. Access!TypeOK /\ PreviewsShowTheirBasis /\ [Access!Next]_(Access!vars)
          => [Access!Previewed!Next]_(Access!Previewed!vars)
    BY AccessStepIsPreviewed
  <1>5. Access!Spec => Access!Previewed!Spec
    BY <1>2, <1>3, <1>4, PTL DEF Access!Spec, Access!Previewed!Spec
  <1>. QED
    BY <1>5, AccessIsPart DEF AccessAppliedAsShown, Access!AccessAppliedAsShown

-----------------------------------------------------------------------------
(* Dialogs with previews.                                                  *)

\* A behaviour of all parts is, seen from the dialog, a behaviour of it.
LEMMA DialogIsPart == Spec => Dialog!Spec
  <1>1. Init => Dialog!Init
    BY DEF Init
  <1>2. [Next]_vars => [Dialog!Next]_(Dialog!vars)
    BY DEF Next, vars, dialogVars, Dialog!vars
  <1>. QED  BY <1>1, <1>2, PTL DEF Spec, Dialog!Spec

\* A confirmation leaves the wire when the server handles it, and only then.
LEMMA OnlyHandledLeave ==
  ASSUME [Dialog!Next]_(Dialog!vars), NEW r \in wire, r \notin wire'
  PROVE  Dialog!Handle(r)
  <1>1. ASSUME NEW s \in Subjects, Dialog!Change(s) PROVE FALSE
    BY <1>1 DEF Dialog!Change
  <1>2. ASSUME NEW k, Dialog!Open(k) PROVE FALSE
    BY <1>2 DEF Dialog!Open
  <1>3. ASSUME NEW input, Dialog!ChangeForm(input) PROVE FALSE
    BY <1>3 DEF Dialog!ChangeForm
  <1>4. CASE \/ Dialog!AskPreview \/ Dialog!ServerPreviews \/ Dialog!PreviewArrives
             \/ Dialog!PreviewFails \/ Dialog!Answered \/ UNCHANGED Dialog!vars
    BY <1>4 DEF Dialog!AskPreview, Dialog!ServerPreviews, Dialog!PreviewArrives,
       Dialog!PreviewFails, Dialog!Answered, Dialog!vars
  <1>5. CASE Dialog!Confirm
    BY <1>5 DEF Dialog!Confirm
  <1>6. ASSUME NEW q \in wire, Dialog!Handle(q) PROVE Dialog!Handle(r)
    <2>1. r = q
      BY <1>6 DEF Dialog!Handle
    <2>. QED  BY <1>6, <2>1
  <1>. QED  BY <1>1, <1>2, <1>3, <1>4, <1>5, <1>6 DEF Dialog!Next

\* The evidence of a preview determines what it is about and what it is based
\* on: there is no other request, and no other state, it fits.
LEMMA EvidenceIsSpecific ==
  ASSUME NEW r, Dialog!Accepted(r)
  PROVE  r.body = r.displayed.input /\ changes[r.body.subject] = r.displayed.basis
  BY DEF Dialog!Accepted, Dialog!Evidence

\* What is applied is what the dialog showed when it was confirmed, whatever
\* has become of the form, the dialog and the subject since
\* (RecurringCareChange.tsx, SettingsPage.tsx and the others).
THEOREM ConfirmedIsDisplayed == Spec => AppliedAsDisplayed
  <1>1. ASSUME [Dialog!Next]_(Dialog!vars), NEW r \in wire \ wire', changes' # changes
        PROVE  r.body = r.displayed.input /\ changes[r.body.subject] = r.displayed.basis
    <2>1. Dialog!Handle(r)
      BY <1>1, OnlyHandledLeave
    <2>2. Dialog!Accepted(r)
      BY <1>1, <2>1 DEF Dialog!Handle
    <2>. QED  BY <2>2, EvidenceIsSpecific
  <1>2. [Dialog!Next]_(Dialog!vars) =>
          [\A r \in wire \ wire' :
             changes' # changes => r.body = r.displayed.input
                                   /\ changes[r.body.subject] = r.displayed.basis]_(Dialog!vars)
    BY <1>1
  <1>3. Dialog!Spec => Dialog!AppliedAsDisplayed
    BY <1>2, PTL DEF Dialog!Spec, Dialog!AppliedAsDisplayed
  <1>. QED  BY <1>3, DialogIsPart DEF AppliedAsDisplayed

-----------------------------------------------------------------------------
(* The offline application.                                                *)

\* What the assumption on the constants says of this part.
LEMMA OfflineConstants == Offline!ReleaseAssumption
  BY PreviewsAssumption DEF PreviewsAssumption

\* A behaviour of all parts is, seen from this one, a behaviour of it.
LEMMA OfflineIsPart == Spec => Offline!Spec
  <1>1. Init => Offline!Init
    BY DEF Init
  <1>2. [Next]_vars => [Offline!Next]_(Offline!vars)
    BY DEF Next, vars, offlineVars, Offline!vars
  <1>. QED  BY <1>1, <1>2, PTL DEF Spec, Offline!Spec

\* A put that nothing waits for is of an asset, under its own name, into the
\* cache of a worker that was registered.
LatePuts ==
  \A p \in late : \E r \in Releases, n \in Offline!Names :
    p = [cache |-> n, key |-> <<"asset", r>>, answer |-> [what |-> "asset", of |-> r, ok |-> TRUE]]

ShellInv == Offline!TypeOK /\ LatePuts /\ Offline!OnlyTheAppIsCached

\* The types, as TypeOK has them.
Workers == [active : Offline!Names \cup {Nothing}, installing : Offline!Names \cup {Nothing}]

Caches == [Offline!Names -> [Offline!Keys -> Offline!Answers \cup {Nothing}]]

Page == [step : {"closed", "loading", "running", "checked", "open", "other"},
         of : Releases, control : Offline!Names \cup {Nothing},
         found : [worker : BOOLEAN, push : BOOLEAN]]

Pages == [Tabs -> Page]

Puts == [cache : Offline!Names, key : Offline!Keys, answer : Offline!Answers]

ShellTypes ==
  /\ server \in [release : Releases, session : BOOLEAN, online : BOOLEAN]
  /\ worker \in Workers
  /\ cache \in Caches
  /\ tab \in Pages
  /\ late \subseteq Puts
  /\ marker \in BOOLEAN /\ subscribed \in BOOLEAN

\* The type invariant, with the sets named here.
LEMMA TypesOfShell == (Offline!TypeOK <=> ShellTypes) /\ (Offline!TypeOK' <=> ShellTypes')
  BY DEF Offline!TypeOK, ShellTypes, Workers, Caches, Page, Pages, Puts

Steps == {"closed", "loading", "running", "checked", "open", "other"}

\* Types are kept when a tab goes to its next step.
LEMMA PageSteps ==
  ASSUME tab \in Pages, NEW t \in Tabs, NEW step \in Steps
  PROVE  [tab EXCEPT ![t].step = step] \in Pages
  <1>1. [tab[t] EXCEPT !.step = step] \in Page
    BY DEF Pages, Page, Steps
  <1>. QED  BY <1>1 DEF Pages

\* Types are kept when a tab notes what it found.
LEMMA PageFinds ==
  ASSUME tab \in Pages, NEW t \in Tabs, NEW step \in Steps,
         NEW found \in [worker : BOOLEAN, push : BOOLEAN]
  PROVE  [tab EXCEPT ![t].step = step, ![t].found = found] \in Pages
  <1>. DEFINE page == [[tab[t] EXCEPT !.step = step] EXCEPT !.found = found]
  <1>1. page \in Page
    BY DEF Pages, Page, Steps
  <1>2. [tab EXCEPT ![t].step = step, ![t].found = found] = [tab EXCEPT ![t] = page]
    BY DEF Pages
  <1>. HIDE DEF page
  <1>3. [tab EXCEPT ![t] = page] \in Pages
    BY <1>1 DEF Pages
  <1>. QED  BY <1>2, <1>3

\* The key of the page is not that of an asset.
LEMMA KeysAreApart ==
  /\ Offline!PageKey \in Offline!Keys
  /\ \A r \in Releases : <<"asset", r>> \in Offline!Keys /\ <<"asset", r>> # Offline!PageKey
  BY DEF Offline!PageKey, Offline!Keys

\* What the server answers has its type.
LEMMA ServedTypes ==
  ASSUME Offline!TypeOK
  PROVE  /\ \A path : Offline!PageServed(path) \in Offline!Answers
         /\ \A r \in Releases : Offline!AssetServed(r) \in Offline!Answers
         /\ Offline!Failed \in Offline!Answers
  BY OfflineConstants DEF Offline!TypeOK, Offline!PageServed, Offline!AssetServed,
     Offline!Failed, Offline!Answers, Offline!ReleaseAssumption

\* What the caches answer has its type.
LEMMA MatchTypes ==
  ASSUME Offline!TypeOK, NEW k \in Offline!Keys
  PROVE  Offline!Matches(k) \subseteq Offline!Answers
  BY DEF Offline!TypeOK, Offline!Matches

\* The caches are empty at first.
LEMMA ShellInit == Offline!Init => ShellInv
  <1>. SUFFICES ASSUME Offline!Init PROVE ShellInv
    OBVIOUS
  <1>1. CacheName[FirstRelease] \in Offline!Names /\ Nothing \notin Offline!Names
    BY OfflineConstants DEF Offline!Names, Offline!ReleaseAssumption
  <1>2. Offline!Empty \in [Offline!Names -> [Offline!Keys -> {Nothing}]]
    BY DEF Offline!Empty
  <1>3. [what |-> "app", of |-> FirstRelease, ok |-> TRUE] \in Offline!Answers
    BY OfflineConstants DEF Offline!Answers, Offline!ReleaseAssumption
  <1>4. worker \in [active : Offline!Names \cup {Nothing}, installing : Offline!Names \cup {Nothing}]
    BY <1>1 DEF Offline!Init
  <1>5. \A n \in Offline!Names, k \in Offline!Keys :
          cache[n][k] \in {Nothing} \cup (IF k = Offline!PageKey
            THEN {[what |-> "app", of |-> FirstRelease, ok |-> TRUE]} ELSE {})
    BY <1>1, <1>2, <1>4, KeysAreApart DEF Offline!Init
  <1>6. cache \in [Offline!Names -> [Offline!Keys -> Offline!Answers \cup {Nothing}]]
    BY <1>1, <1>2, <1>3, <1>4, KeysAreApart DEF Offline!Init
  <1>7. Offline!OnlyTheAppIsCached
    BY <1>5 DEF Offline!OnlyTheAppIsCached
  <1>8. Offline!TypeOK
    BY <1>4, <1>6, OfflineConstants DEF Offline!Init, Offline!TypeOK, Offline!Closed, Offline!ReleaseAssumption
  <1>. QED  BY <1>7, <1>8 DEF Offline!Init, LatePuts, ShellInv

\* A put keeps the types of the caches.
LEMMA CacheChanges ==
  ASSUME cache \in Caches, NEW n \in Offline!Names, NEW k \in Offline!Keys,
         NEW a \in Offline!Answers
  PROVE  /\ [cache EXCEPT ![n][k] = a] \in Caches
         /\ [cache[n] EXCEPT ![k] = a] \in [Offline!Keys -> Offline!Answers \cup {Nothing}]
  <1>1. cache[n] \in [Offline!Keys -> Offline!Answers \cup {Nothing}]
    BY DEF Caches
  <1>2. [cache[n] EXCEPT ![k] = a] \in [Offline!Keys -> Offline!Answers \cup {Nothing}]
    BY <1>1
  <1>. QED  BY <1>2 DEF Caches

\* Every step keeps the types.
LEMMA ShellTypeStep == Offline!TypeOK /\ [Offline!Next]_(Offline!vars) => Offline!TypeOK'
  <1>. SUFFICES ASSUME ShellTypes, [Offline!Next]_(Offline!vars) PROVE ShellTypes'
    BY TypesOfShell
  <1>. USE DEF ShellTypes
  <1>0. Offline!TypeOK
    BY TypesOfShell
  <1>1. ASSUME NEW r \in Releases, Offline!Deploy(r) PROVE ShellTypes'
    BY <1>1 DEF Offline!Deploy
  <1>2. CASE Offline!SessionOrNetworkChanges
    BY <1>2 DEF Offline!SessionOrNetworkChanges
  <1>3. ASSUME NEW p \in late, Offline!Put(p) PROVE ShellTypes'
    <2>1. p.cache \in Offline!Names /\ p.key \in Offline!Keys /\ p.answer \in Offline!Answers
      BY DEF Puts
    <2>2. cache' \in Caches
      BY <1>3, <2>1, CacheChanges DEF Offline!Put
    <2>. QED  BY <1>3, <2>2 DEF Offline!Put
  <1>4. CASE Offline!Install
    <2>1. CASE server.online
      <3>1. [what |-> "app", of |-> server.release, ok |-> TRUE] \in Offline!Answers
        BY DEF Offline!Answers
      <3>2. worker.installing \in Offline!Names
        BY <1>4 DEF Offline!Install, Workers
      <3>3. [cache[worker.installing] EXCEPT
              ![Offline!PageKey] = [what |-> "app", of |-> server.release, ok |-> TRUE]]
                \in [Offline!Keys -> Offline!Answers \cup {Nothing}]
        BY <3>1, <3>2, CacheChanges, KeysAreApart
      <3>4. cache' \in Caches
        <4>. DEFINE row1 == [cache[worker.installing] EXCEPT
               ![Offline!PageKey] = [what |-> "app", of |-> server.release, ok |-> TRUE]]
        <4>1. cache' = [m \in Offline!Names |->
                 IF m = worker.installing THEN row1 ELSE [k \in Offline!Keys |-> Nothing]]
          BY <1>4, <2>1 DEF Offline!Install
        <4>2. row1 \in [Offline!Keys -> Offline!Answers \cup {Nothing}]
          BY <3>3
        <4>. HIDE DEF row1
        <4>. QED  BY <4>1, <4>2 DEF Caches
      <3>5. \A t \in Tabs : [tab[t] EXCEPT !.control = worker.installing] \in Page
        BY <3>2 DEF Pages, Page
      <3>6. tab' \in Pages
        BY <1>4, <2>1, <3>5 DEF Offline!Install, Pages
      <3>7. worker' \in Workers
        BY <1>4, <2>1, <3>2 DEF Offline!Install, Workers
      <3>. QED  BY <1>4, <3>4, <3>6, <3>7 DEF Offline!Install
    <2>2. CASE ~server.online
      <3>1. worker' \in Workers
        BY <1>4, <2>2 DEF Offline!Install, Workers
      <3>. QED  BY <1>4, <2>2, <3>1 DEF Offline!Install
    <2>. QED  BY <2>1, <2>2
  <1>5. CASE Offline!UpdateWorker \/ Offline!LoseMarker
    BY <1>5 DEF Offline!UpdateWorker, Offline!LoseMarker, Offline!Names, Workers
  <1>6. ASSUME NEW t \in Tabs, NEW path \in {"app", "legal"}, Offline!Navigate(t, path)
        PROVE  ShellTypes'
    <2>. DEFINE new(a) == [Offline!Closed EXCEPT
                   !.step = IF a.what = "app" THEN "loading" ELSE "other",
                   !.of = a.of, !.control = IF a.ok THEN worker.active ELSE Nothing]
    <2>1. \E a \in Offline!Answers : tab' = [tab EXCEPT ![t] = new(a)]
      BY <1>0, <1>6, ServedTypes, MatchTypes, KeysAreApart DEF Offline!Navigate
    <2>2. PICK a \in Offline!Answers : tab' = [tab EXCEPT ![t] = new(a)]
      BY <2>1
    <2>3. new(a) \in Page
      BY DEF Offline!Closed, Page, Offline!Answers, Workers
    <2>. HIDE DEF new
    <2>4. tab' \in Pages
      BY <2>2, <2>3 DEF Pages
    <2>5. cache' \in Caches
      <3>1. CASE UNCHANGED cache
        BY <3>1
      <3>2. CASE /\ worker.active # Nothing
                 /\ cache' = [cache EXCEPT ![worker.active][Offline!PageKey] = Offline!PageServed(path)]
        <4>1. worker.active \in Offline!Names
          BY <3>2 DEF Workers
        <4>. QED  BY <1>0, <3>2, <4>1, ServedTypes, KeysAreApart, CacheChanges
      <3>. QED  BY <1>6, <3>1, <3>2 DEF Offline!Navigate
    <2>. QED  BY <1>6, <2>4, <2>5 DEF Offline!Navigate
  <1>7. ASSUME NEW t \in Tabs, Offline!LoadAsset(t) PROVE ShellTypes'
    <2>1. tab[t].of \in Releases /\ tab[t].control \in Offline!Names \cup {Nothing}
      BY DEF Pages, Page
    <2>2. late' \subseteq Puts
      BY <1>0, <1>7, <2>1, ServedTypes, KeysAreApart DEF Offline!LoadAsset, Puts
    <2>3. \E st \in {"running", "other"} : tab' = [tab EXCEPT ![t].step = st]
      BY <1>7 DEF Offline!LoadAsset
    <2>4. tab' \in Pages
      <3>1. PICK st \in {"running", "other"} : tab' = [tab EXCEPT ![t].step = st]
        BY <2>3
      <3>2. st \in Steps
        BY DEF Steps
      <3>3. [tab EXCEPT ![t].step = st] \in Pages
        BY <3>2, PageSteps
      <3>. QED  BY <3>1, <3>3
    <2>. QED  BY <1>7, <2>2, <2>4 DEF Offline!LoadAsset
  <1>8. ASSUME Offline!Registers PROVE worker' \in Workers /\ marker' \in BOOLEAN
    BY <1>8 DEF Offline!Registers, Offline!Names, Workers
  <1>9. ASSUME NEW t \in Tabs, Offline!Initialize(t) PROVE ShellTypes'
    <2>. DEFINE found == [worker |-> worker.active # Nothing \/ worker.installing # Nothing,
                          push |-> subscribed]
    <2>1. \/ tab' = [tab EXCEPT ![t].step = "open"]
          \/ tab' = [tab EXCEPT ![t].step = "checked", ![t].found = found]
      BY <1>9 DEF Offline!Initialize
    <2>2. found \in [worker : BOOLEAN, push : BOOLEAN]
      OBVIOUS
    <2>. HIDE DEF found
    <2>3. tab' \in Pages
      <3>1. CASE tab' = [tab EXCEPT ![t].step = "open"]
        <4>1. [tab EXCEPT ![t].step = "open"] \in Pages
          BY PageSteps DEF Steps
        <4>. QED  BY <3>1, <4>1
      <3>2. CASE tab' = [tab EXCEPT ![t].step = "checked", ![t].found = found]
        <4>1. [tab EXCEPT ![t].step = "checked", ![t].found = found] \in Pages
          BY <2>2, PageFinds DEF Steps
        <4>. QED  BY <3>2, <4>1
      <3>. QED  BY <2>1, <3>1, <3>2
    <2>4. worker' \in Workers /\ marker' \in BOOLEAN
      BY <1>8, <1>9 DEF Offline!Initialize
    <2>. QED  BY <1>9, <2>3, <2>4 DEF Offline!Initialize
  <1>10. ASSUME NEW t \in Tabs, Offline!Finish(t) PROVE ShellTypes'
    <2>1. tab' \in Pages
      BY <1>10, PageFinds DEF Offline!Finish, Offline!Closed, Steps
    <2>2. cache' \in Caches /\ worker' \in Workers
      BY <1>10 DEF Offline!Finish, Offline!Empty, Caches, Workers
    <2>3. marker' \in BOOLEAN /\ subscribed' \in BOOLEAN /\ UNCHANGED <<server, late>>
      BY <1>10 DEF Offline!Finish
    <2>. QED  BY <2>1, <2>2, <2>3
  <1>11. ASSUME NEW t \in Tabs, Offline!Activate(t) \/ Offline!Subscribe(t) PROVE ShellTypes'
    BY <1>8, <1>11 DEF Offline!Activate, Offline!Subscribe
  <1>12. CASE UNCHANGED Offline!vars
    BY <1>12 DEF Offline!vars
  <1>. QED
    BY <1>1, <1>2, <1>3, <1>4, <1>5, <1>6, <1>7, <1>9, <1>10, <1>11, <1>12 DEF Offline!Next

\* What may become a page is the application's, signed in.
LEMMA CacheableIsApp ==
  ASSUME NEW path \in {"app", "legal"},
         Offline!IsCacheablePage(path, Offline!PageServed(path))
  PROVE  Offline!PageServed(path).what = "app"
  BY DEF Offline!IsCacheablePage, Offline!IsNetworkOnly, Offline!PageServed, Offline!Failed

\* What is still to be put into a cache stays what may be put there.
LEMMA LatePutsStep == ShellInv /\ [Offline!Next]_(Offline!vars) => LatePuts'
  <1>. SUFFICES ASSUME ShellInv, [Offline!Next]_(Offline!vars) PROVE LatePuts'
    OBVIOUS
  <1>. USE DEF ShellInv, LatePuts
  <1>1. ASSUME NEW t \in Tabs, Offline!LoadAsset(t) PROVE LatePuts'
    <2>1. tab[t].of \in Releases /\ tab[t].control \in Offline!Names \cup {Nothing}
      BY DEF Offline!TypeOK
    <2>2. Offline!AssetServed(tab[t].of).ok =>
            Offline!AssetServed(tab[t].of) = [what |-> "asset", of |-> tab[t].of, ok |-> TRUE]
      BY DEF Offline!AssetServed, Offline!Failed
    <2>3. ~Offline!Failed.ok
      BY DEF Offline!Failed
    <2>4. late' = late \/ (/\ tab[t].control # Nothing
                           /\ late' = late \cup {[cache |-> tab[t].control, key |-> <<"asset", tab[t].of>>,
                                answer |-> [what |-> "asset", of |-> tab[t].of, ok |-> TRUE]]})
      BY <1>1, <2>2, <2>3 DEF Offline!LoadAsset
    <2>. QED  BY <2>1, <2>4
  <1>2. ASSUME NEW p \in late, Offline!Put(p) PROVE LatePuts'
    BY <1>2 DEF Offline!Put
  <1>3. ASSUME late' = late PROVE LatePuts'
    BY <1>3
  <1>. QED
    BY <1>1, <1>2, <1>3 DEF Offline!Next, Offline!vars, Offline!Deploy, Offline!SessionOrNetworkChanges,
       Offline!Install, Offline!UpdateWorker, Offline!LoseMarker, Offline!Navigate,
       Offline!Initialize, Offline!Finish, Offline!Activate, Offline!Subscribe

\* Every step keeps the caches to the application.
LEMMA CachedStep == ShellInv /\ [Offline!Next]_(Offline!vars) => Offline!OnlyTheAppIsCached'
  <1>. SUFFICES ASSUME ShellInv, [Offline!Next]_(Offline!vars) PROVE Offline!OnlyTheAppIsCached'
    OBVIOUS
  <1>. USE DEF ShellInv, Offline!OnlyTheAppIsCached
  <1>1. ASSUME NEW p \in late, Offline!Put(p) PROVE Offline!OnlyTheAppIsCached'
    <2>1. PICK r \in Releases, n \in Offline!Names :
            p = [cache |-> n, key |-> <<"asset", r>>, answer |-> [what |-> "asset", of |-> r, ok |-> TRUE]]
      BY DEF LatePuts
    <2>2. cache' = [cache EXCEPT ![n][<<"asset", r>>] = [what |-> "asset", of |-> r, ok |-> TRUE]]
      BY <1>1, <2>1 DEF Offline!Put
    <2>. QED  BY <2>2, KeysAreApart DEF Offline!TypeOK
  <1>2. ASSUME NEW t \in Tabs, NEW path \in {"app", "legal"}, Offline!Navigate(t, path)
        PROVE  Offline!OnlyTheAppIsCached'
    <2>1. CASE UNCHANGED cache
      BY <2>1
    <2>2. CASE /\ worker.active # Nothing
               /\ Offline!IsCacheablePage(path, Offline!PageServed(path))
               /\ cache' = [cache EXCEPT ![worker.active][Offline!PageKey] = Offline!PageServed(path)]
      <3>1. Offline!PageServed(path).what = "app"
        BY <2>2, CacheableIsApp
      <3>. QED  BY <2>2, <3>1, KeysAreApart DEF Offline!TypeOK
    <2>. QED  BY <1>2, <2>1, <2>2 DEF Offline!Navigate
  <1>3. CASE Offline!Install
    <2>1. CASE UNCHANGED cache
      BY <2>1
    <2>2. CASE cache' = [m \in Offline!Names |->
                 IF m = worker.installing
                 THEN [cache[worker.installing] EXCEPT
                        ![Offline!PageKey] = [what |-> "app", of |-> server.release, ok |-> TRUE]]
                 ELSE [k \in Offline!Keys |-> Nothing]]
      BY <2>2, KeysAreApart DEF Offline!TypeOK
    <2>. QED  BY <1>3, <2>1, <2>2 DEF Offline!Install
  <1>4. ASSUME cache' \in {cache, Offline!Empty} PROVE Offline!OnlyTheAppIsCached'
    BY <1>4 DEF Offline!Empty
  <1>. QED
    BY <1>1, <1>2, <1>3, <1>4 DEF Offline!Next, Offline!vars, Offline!Deploy, Offline!SessionOrNetworkChanges,
       Offline!UpdateWorker, Offline!LoseMarker, Offline!LoadAsset,
       Offline!Initialize, Offline!Finish, Offline!Activate, Offline!Subscribe

\* The offline application by itself: its types, its late puts and its caches
\* (service worker, isCacheableNavigationResponse).
THEOREM ShellInvariant == Offline!Spec => []ShellInv
  <1>1. ShellInv /\ [Offline!Next]_(Offline!vars) => ShellInv'
    BY ShellTypeStep, LatePutsStep, CachedStep DEF ShellInv
  <1>. QED  BY <1>1, ShellInit, PTL DEF Offline!Spec

\* The browser keeps the application's page and its assets, nothing else, for
\* any releases, any names of caches and any number of pages
\* (isCacheableNavigationResponse, isSpaFallbackRequest).
THEOREM CachesHoldTheApp == Spec => []OnlyTheAppIsCached
  <1>1. ShellInv => OnlyTheAppIsCached
    BY DEF ShellInv, OnlyTheAppIsCached
  <1>. QED  BY <1>1, ShellInvariant, OfflineIsPart, PTL

-----------------------------------------------------------------------------
(* What restricted members see and change.                                 *)

\* What the assumption on the constants says of this part.
LEMMA SightsConstants ==
  Sights!ScopeAssumption /\ Sights!PartyAssumption /\ Sights!BoundAssumption
  BY PreviewsAssumption DEF PreviewsAssumption

\* A behaviour of all parts is, seen from this one, a behaviour of it.
LEMMA SightsIsPart == Spec => Sights!Spec
  <1>1. Init => Sights!Init
    BY DEF Init
  <1>2. [Next]_vars => [Sights!Next]_(Sights!vars)
    BY DEF Next, vars, sightsVars, Sights!vars
  <1>. QED  BY <1>1, <1>2, PTL DEF Spec, Sights!Spec

\* The queries and the routes take the same party for a record's.
LEMMA ColumnIsEffective ==
  ASSUME NEW r
  PROVE  Sights!EffectiveColumn(r) = Sights!Effective(r)
  BY DEF Sights!EffectiveColumn, Sights!Effective

\* What is listed may be opened, unless its party is deleted; and conversely.
LEMMA ListedOpens ==
  ASSUME NEW m
  PROVE  /\ Sights!MayOpen(m) => Sights!Listed(m)
         /\ row # Nothing /\ Sights!PartiesLive(row) => (Sights!Listed(m) <=> Sights!MayOpen(m))
  <1>1. Sights!MayOpen(m) => Sights!Listed(m)
    BY ColumnIsEffective DEF Sights!MayOpen, Sights!Usable, Sights!Listed
  <1>2. ASSUME row # Nothing, Sights!PartiesLive(row), Sights!Listed(m) PROVE Sights!MayOpen(m)
    <2>1. Sights!Effective(row) \in {row.party, row.actual}
      BY DEF Sights!Effective
    <2>. QED
      BY <1>2, <2>1, ColumnIsEffective
      DEF Sights!MayOpen, Sights!Usable, Sights!Listed, Sights!PartiesLive
  <1>. QED  BY <1>1, <1>2

\* Only entries have a status of their own; so the party of the other kinds is
\* the one they are stored with.
OthersArePlanned == item # "entry" /\ row # Nothing => row.status = "planned"

\* The default care party is one, or absent.
LEMMA DefaultPartyType == Sights!DefaultParty \in Sights!Optional
  BY SightsConstants DEF Sights!DefaultParty, Sights!Optional, Sights!PartyAssumption

\* The first of two parties that is there is one, or absent.
LEMMA FirstType ==
  ASSUME NEW a \in Sights!Optional, NEW b \in Sights!Optional
  PROVE  Sights!First(a, b) \in Sights!Optional
  BY DEF Sights!First

\* What is stored of an input has the type of a row, and only entries a status.
LEMMA StoredType ==
  ASSUME Sights!TypeOK, NEW i \in Sights!Inputs, NEW before \in Sights!Rows \cup {Nothing}
  PROVE  /\ Sights!Stored(i, before) \in Sights!Rows
         /\ item # "entry" => Sights!Stored(i, before).status = "planned"
  <1>. DEFINE was == IF before = Nothing THEN [party |-> Nothing, actual |-> Nothing] ELSE before
              mirrored == IF row = Nothing THEN Nothing ELSE row.party
              own == CASE item = "period" -> i.party
                       [] item = "pattern" -> Sights!First(mirrored, Sights!DefaultParty)
                       [] OTHER -> Sights!First(Sights!First(i.party, was.party), Sights!DefaultParty)
              taken == IF item = "entry" /\ i.status = "partial"
                       THEN Sights!First(Sights!First(i.actual, was.actual), own) ELSE Nothing
  <1>1. was.party \in Sights!Optional /\ was.actual \in Sights!Optional
    BY DEF Sights!Rows, Sights!Optional
  <1>2. mirrored \in Sights!Optional
    BY DEF Sights!TypeOK, Sights!Rows, Sights!Optional
  <1>3. i.party \in Sights!Optional /\ i.actual \in Sights!Optional /\ i.status \in Sights!Status
        /\ "planned" \in Sights!Status /\ Nothing \in Sights!Optional
    BY DEF Sights!Inputs, Sights!Optional, Sights!Status
  <1>4. Sights!Stored(i, before) = [status |-> IF item = "entry" THEN i.status ELSE "planned",
                                    party |-> own, actual |-> taken]
    BY DEF Sights!Stored
  <1>. HIDE DEF was, mirrored
  <1>5. own \in Sights!Optional
    BY <1>1, <1>2, <1>3, FirstType, DefaultPartyType
  <1>. HIDE DEF own
  <1>6. taken \in Sights!Optional
    BY <1>1, <1>3, <1>5, FirstType
  <1>. HIDE DEF taken
  <1>. QED  BY <1>3, <1>4, <1>5, <1>6 DEF Sights!Rows

SightsInv == Sights!TypeOK /\ OthersArePlanned

\* Every step keeps the types, and what has no status planned.
LEMMA SightsInvStep == SightsInv /\ [Sights!Next]_(Sights!vars) => SightsInv'
  <1>. SUFFICES ASSUME SightsInv, [Sights!Next]_(Sights!vars) PROVE SightsInv'
    OBVIOUS
  <1>0. Sights!TypeOK /\ Nothing \notin CareParties /\ ScopeWrites \in Nat
    BY SightsConstants DEF SightsInv, Sights!PartyAssumption, Sights!BoundAssumption
  <1>. USE DEF SightsInv, OthersArePlanned, Sights!TypeOK
  <1>c. ASSUME Sights!Changes PROVE scopeWrites' \in 0..ScopeWrites
    BY <1>0, <1>c DEF Sights!Changes
  <1>1. ASSUME NEW m \in ScopedMembers, NEW i \in Sights!Inputs, Sights!Create(m, i)
        PROVE  SightsInv'
    <2>1. row' \in Sights!Rows /\ (item # "entry" => row'.status = "planned")
      BY <1>0, <1>1, StoredType DEF Sights!Create
    <2>. QED  BY <1>1, <1>c, <2>1 DEF Sights!Create
  <1>2. ASSUME NEW q \in ScopedRequests, NEW m \in ScopedMembers, NEW op \in {"update", "delete"},
               Sights!LookUp(q, m, op)
        PROVE  SightsInv'
    BY <1>2 DEF Sights!LookUp
  <1>3. ASSUME NEW q \in ScopedRequests, Sights!Delete(q) PROVE SightsInv'
    BY <1>3, <1>c DEF Sights!Delete
  <1>4. ASSUME NEW q \in ScopedRequests, Sights!Refuse(q) PROVE SightsInv'
    BY <1>4 DEF Sights!Refuse
  <1>5. ASSUME NEW q \in ScopedRequests, NEW i \in Sights!Inputs, Sights!Update(q, i)
        PROVE  SightsInv'
    <2>1. pending[q].before \in Sights!Rows
      BY <1>5 DEF Sights!Update
    <2>2. row' = Sights!Stored(i, pending[q].before)
      BY <1>5 DEF Sights!Update
    <2>3. row' \in Sights!Rows /\ (item # "entry" => row'.status = "planned")
      BY <1>0, <2>1, <2>2, StoredType
    <2>. QED  BY <1>5, <1>c, <2>3 DEF Sights!Update
  <1>6. ASSUME NEW m \in ScopedMembers, Sights!DeleteMirroredRule(m) PROVE SightsInv'
    <2>1. row \in Sights!Rows /\ row' = [row EXCEPT !.party = Nothing]
      BY <1>6 DEF Sights!DeleteMirroredRule
    <2>2. row' \in Sights!Rows /\ row'.status = row.status
      BY <2>1 DEF Sights!Rows, Sights!Optional
    <2>. QED  BY <1>6, <1>c, <2>1, <2>2 DEF Sights!DeleteMirroredRule
  <1>7. ASSUME NEW m \in ScopedMembers, NEW p \in CareParties, Sights!DeleteParty(m, p)
        PROVE  SightsInv'
    BY <1>7, <1>c DEF Sights!DeleteParty
  <1>8. ASSUME NEW m \in ScopedMembers, NEW s \in MemberScopes, Sights!SetScope(m, s)
        PROVE  SightsInv'
    BY <1>8, <1>c DEF Sights!SetScope
  <1>9. ASSUME NEW r \in Sights!Rows, Sights!Import(r) PROVE SightsInv'
    BY <1>9, <1>c DEF Sights!Import
  <1>10. CASE UNCHANGED Sights!vars
    BY <1>10 DEF Sights!vars
  <1>. QED
    BY <1>1, <1>2, <1>3, <1>4, <1>5, <1>6, <1>7, <1>8, <1>9, <1>10 DEF Sights!Next

\* There are no rows at first.
LEMMA SightsInvInit == Sights!Init => SightsInv
  BY SightsConstants DEF Sights!Init, SightsInv, Sights!TypeOK, OthersArePlanned, Sights!BoundAssumption

\* The types hold throughout, and only entries have a status of their own.
LEMMA SightsInvariant == Spec => []SightsInv
  BY SightsInvInit, SightsInvStep, SightsIsPart, PTL DEF Sights!Spec

\* Only the handler that ends has its look-up dropped.
LEMMA EndsItself ==
  ASSUME SightsInv, [Sights!Next]_(Sights!vars), NEW q \in ScopedRequests,
         pending[q] # Nothing, pending'[q] = Nothing, row' # row
  PROVE  Sights!Delete(q) \/ \E i \in Sights!Inputs : Sights!Update(q, i)
  <1>. USE DEF SightsInv, Sights!TypeOK
  <1>1. ASSUME NEW x \in ScopedRequests, Sights!Delete(x) PROVE Sights!Delete(q)
    <2>1. x = q
      BY <1>1 DEF Sights!Delete
    <2>. QED  BY <1>1, <2>1
  <1>2. ASSUME NEW x \in ScopedRequests, NEW i \in Sights!Inputs, Sights!Update(x, i)
        PROVE  Sights!Update(q, i)
    <2>1. x = q
      BY <1>2 DEF Sights!Update
    <2>. QED  BY <1>2, <2>1
  <1>3. ASSUME pending' = pending \/ row' = row PROVE FALSE
    BY <1>3
  <1>. QED
    BY <1>1, <1>2, <1>3
    DEF Sights!Next, Sights!vars, Sights!Create, Sights!LookUp, Sights!Refuse, Sights!DeleteMirroredRule,
        Sights!DeleteParty, Sights!SetScope, Sights!Import

\* What a handler of member m does when it ends.
InScopeStep(q, m) ==
  /\ pending[q].op = "update" => Sights!Listed(m)' /\ Sights!MayOpen(m)'
  /\ (IF item = "pattern" THEN pending[q].op = "delete"
      ELSE pending[q].op = "update" /\ row = pending[q].before) => Sights!Listed(m)

\* A member's update ends in his scope and began there.
LEMMA UpdatedInScope ==
  ASSUME SightsInv, NEW q \in ScopedRequests, NEW m \in ScopedMembers, NEW i \in Sights!Inputs,
         pending[q] # Nothing, pending[q].by = m, Sights!Update(q, i)
  PROVE  InScopeStep(q, m)
  <1>. DEFINE new == Sights!Stored(i, pending[q].before)
  <1>1. /\ pending[q].op = "update" /\ pending[q].before \in Sights!Rows
        /\ item # "pattern" => Sights!Usable(m, Sights!Effective(pending[q].before))
        /\ Sights!Usable(m, Sights!Effective(new))
        /\ row' = new /\ UNCHANGED <<item, caring, scope>>
    BY DEF SightsInv, Sights!TypeOK, Sights!Update, Sights!Accepts
  <1>2. new \in Sights!Rows /\ Nothing \notin Sights!Rows
    <2>1. new \in Sights!Rows
      BY <1>1, StoredType DEF SightsInv
    <2>. QED  BY <2>1, SightsConstants DEF Sights!PartyAssumption
  <1>. HIDE DEF new
  <1>3. Sights!MayOpen(m)'
    <2>1. row' # Nothing
      BY <1>1, <1>2
    <2>2. Sights!Usable(m, Sights!Effective(row))'
      BY <1>1 DEF Sights!Usable, Sights!InScope, Sights!Effective
    <2>. QED  BY <2>1, <2>2 DEF Sights!MayOpen
  <1>4. Sights!Listed(m)'
    BY <1>3 DEF Sights!Listed, Sights!MayOpen, Sights!Usable, Sights!InScope,
       Sights!Effective, Sights!EffectiveColumn
  <1>5. ASSUME item # "pattern", row = pending[q].before PROVE Sights!Listed(m)
    <2>1. Sights!MayOpen(m)
      BY <1>1, <1>2, <1>5 DEF Sights!MayOpen
    <2>. QED  BY <2>1, ListedOpens
  <1>. QED  BY <1>1, <1>3, <1>4, <1>5 DEF InScopeStep

\* A member's deletion began in his scope.
LEMMA DeletedInScope ==
  ASSUME SightsInv, NEW q \in ScopedRequests, NEW m \in ScopedMembers,
         pending[q] # Nothing, pending[q].by = m, row' # row, Sights!Delete(q)
  PROVE  InScopeStep(q, m)
  <1>1. pending[q].op = "delete" /\ row # Nothing
    BY DEF Sights!Delete
  <1>2. ASSUME item = "pattern" PROVE Sights!Listed(m)
    <2>1. Sights!Usable(m, row.party)
      BY <1>1, <1>2 DEF Sights!Delete
    <2>2. Sights!EffectiveColumn(row) = row.party
      BY <1>1, <1>2 DEF SightsInv, OthersArePlanned, Sights!EffectiveColumn
    <2>. QED  BY <1>1, <2>1, <2>2 DEF Sights!Listed, Sights!Usable
  <1>. QED  BY <1>1, <1>2 DEF InScopeStep

\* A restricted member is listed exactly the records he may open, as long as
\* their parties are there; what he updates he is listed afterwards, under the
\* scope he has by then, and was listed before, if nobody has replaced it since
\* his handler looked it up (effectiveCareEntryPartyId,
\* assertCanUsePersistedCareParty): for any members, scopes, parties and any
\* number of handlers under way.
THEOREM MembersKeepToTheirScope == Spec => ScopesAreKept
  <1>1. Sights!ListedIsOpened
    BY ListedOpens DEF Sights!ListedIsOpened
  <1>2. ASSUME SightsInv, [Sights!Next]_(Sights!vars), NEW q \in ScopedRequests, NEW m \in ScopedMembers,
               pending[q] # Nothing, pending[q].by = m, pending'[q] = Nothing, row' # row
        PROVE  InScopeStep(q, m)
    BY <1>2, EndsItself, UpdatedInScope, DeletedInScope
  <1>3. SightsInv /\ [Sights!Next]_(Sights!vars) =>
          [\A q \in ScopedRequests, m \in ScopedMembers :
             /\ pending[q] # Nothing /\ pending[q].by = m
             /\ pending'[q] = Nothing /\ row' # row
             => /\ pending[q].op = "update" => Sights!Listed(m)' /\ Sights!MayOpen(m)'
                /\ (IF item = "pattern" THEN pending[q].op = "delete"
                    ELSE pending[q].op = "update" /\ row = pending[q].before)
                      => Sights!Listed(m)]_(Sights!vars)
    BY <1>2 DEF InScopeStep
  <1>4. Sights!Spec => Sights!ChangesStayInScope
    BY <1>3, SightsInvInit, SightsInvStep, PTL DEF Sights!Spec, Sights!ChangesStayInScope
  <1>. QED  BY <1>1, <1>4, SightsIsPart, PTL DEF ScopesAreKept

-----------------------------------------------------------------------------
(* Types of the dialogs and of what the figures are computed from.         *)

\* Every variable of a dialog has its type.
THEOREM DialogTypes == Spec => []Dialog!TypeOK
  <1>0. Dialog!BoundAssumption /\ Dialog!InputAssumption /\ Dialog!NothingAssumption
    BY PreviewsAssumption DEF PreviewsAssumption
  <1>1. Dialog!Init => Dialog!TypeOK
    <2>1. (CHOOSE input \in Dialog!Inputs : TRUE) \in Dialog!Inputs
      <3>1. PICK s \in Subjects, p \in Proposals : TRUE
        BY <1>0 DEF Dialog!InputAssumption
      <3>2. [subject |-> s, proposal |-> p] \in Dialog!Inputs
        BY DEF Dialog!Inputs
      <3>. QED  BY <3>2
    <2>2. 0 \in Dialog!Basis
      BY <1>0 DEF Dialog!Basis, Dialog!BoundAssumption
    <2>. QED  BY <2>1, <2>2 DEF Dialog!Init, Dialog!TypeOK
  <1>2. Dialog!TypeOK /\ [Dialog!Next]_(Dialog!vars) => Dialog!TypeOK'
    <2>. SUFFICES ASSUME Dialog!TypeOK, [Dialog!Next]_(Dialog!vars) PROVE Dialog!TypeOK'
      OBVIOUS
    <2>0. \A s \in Subjects : changes[s] < MaxChanges => changes[s] + 1 \in Dialog!Basis
      BY <1>0 DEF Dialog!TypeOK, Dialog!Basis, Dialog!BoundAssumption
    <2>1. ASSUME NEW k \in {"form", "preview"}, Dialog!Open(k) PROVE Dialog!TypeOK'
      BY <2>1 DEF Dialog!TypeOK, Dialog!Open
    <2>2. ASSUME NEW input \in Dialog!Inputs, Dialog!ChangeForm(input) PROVE Dialog!TypeOK'
      BY <2>2 DEF Dialog!TypeOK, Dialog!ChangeForm
    <2>3. CASE Dialog!AskPreview
      BY <2>3 DEF Dialog!TypeOK, Dialog!AskPreview
    <2>4. CASE Dialog!ServerPreviews
      <3>1. asked.input \in Dialog!Inputs /\ changes[asked.input.subject] \in Dialog!Basis
        BY <2>4 DEF Dialog!TypeOK, Dialog!ServerPreviews, Dialog!Inputs
      <3>2. [input |-> asked.input, basis |-> changes[asked.input.subject]] \in Dialog!Preview
        BY <3>1 DEF Dialog!Preview
      <3>. HIDE DEF Dialog!Preview
      <3>. QED  BY <2>4, <3>2 DEF Dialog!TypeOK, Dialog!ServerPreviews
    <2>5. CASE Dialog!PreviewArrives
      BY <2>5 DEF Dialog!TypeOK, Dialog!PreviewArrives
    <2>6. CASE Dialog!PreviewFails
      BY <2>6 DEF Dialog!TypeOK, Dialog!PreviewFails
    <2>7. CASE Dialog!Confirm
      <3>1. shown \in Dialog!Preview
        BY <2>7 DEF Dialog!TypeOK, Dialog!Confirm
      <3>2. Dialog!Body \in Dialog!Inputs
        BY <3>1 DEF Dialog!TypeOK, Dialog!Body, Dialog!Inputs, Dialog!Preview
      <3>3. [body |-> Dialog!Body, displayed |-> shown] \in Dialog!Request
        BY <3>1, <3>2 DEF Dialog!Request
      <3>. QED  BY <2>7, <3>3 DEF Dialog!TypeOK, Dialog!Confirm
    <2>8. CASE Dialog!Answered
      BY <2>8 DEF Dialog!TypeOK, Dialog!Answered
    <2>9. ASSUME NEW r \in wire, Dialog!Handle(r) PROVE Dialog!TypeOK'
      <3>1. changes' \in [Subjects -> Dialog!Basis]
        <4>1. r.body.subject \in Subjects
          BY DEF Dialog!TypeOK, Dialog!Request, Dialog!Inputs
        <4>. QED  BY <2>0, <2>9, <4>1 DEF Dialog!TypeOK, Dialog!Handle
      <3>. QED  BY <2>9, <3>1 DEF Dialog!TypeOK, Dialog!Handle
    <2>10. ASSUME NEW s \in Subjects, Dialog!Change(s) PROVE Dialog!TypeOK'
      BY <2>0, <2>10 DEF Dialog!TypeOK, Dialog!Change
    <2>11. CASE UNCHANGED Dialog!vars
      BY <2>11 DEF Dialog!TypeOK, Dialog!vars
    <2>. QED  BY <2>1, <2>2, <2>3, <2>4, <2>5, <2>6, <2>7, <2>8, <2>9, <2>10, <2>11 DEF Dialog!Next
  <1>. QED  BY <1>1, <1>2, DialogIsPart, PTL DEF Dialog!Spec

-----------------------------------------------------------------------------
(* The change log and its pages.                                           *)

\* A behaviour of all parts is, seen from this one, a behaviour of it.
LEMMA LogIsPart == Spec => Log!Spec
  <1>1. Init => Log!Init
    BY DEF Init
  <1>2. [Next]_vars => [Log!Next]_(Log!vars)
    BY DEF Next, vars, logVars, Log!vars
  <1>. QED  BY <1>1, <1>2, PTL DEF Spec, Log!Spec

\* What the assumption on the constants says of this part.
LEMMA LogConstants == Log!LogAssumption
  BY PreviewsAssumption DEF PreviewsAssumption

\* The module's own cardinality is the one the theorems are about.
LEMMA CardinalityOfLog == \A S : Log!Cardinality(S) = Cardinality(S)
  BY DEF Log!Cardinality, Cardinality

\* Newer is a strict order of the rows, and total for rows with different ids.
LEMMA NewerOrders ==
  /\ \A a \in Log!Rows : ~Log!Newer(a, a)
  /\ \A a, b \in Log!Rows : ~(Log!Newer(a, b) /\ Log!Newer(b, a))
  /\ \A a, b, c \in Log!Rows : Log!Newer(a, b) /\ Log!Newer(b, c) => Log!Newer(a, c)
  /\ \A a, b \in Log!Rows : a.id # b.id => Log!Newer(a, b) \/ Log!Newer(b, a)
  BY DEF Log!Newer, Log!Follows, Log!Rows, Log!Ids, Log!Times

\* A set of rows with ids of their own.
IsTable(rows) == rows \subseteq Log!Rows /\ \A a, b \in rows : a.id = b.id => a = b

\* A table of rows with ids of their own is finite.
LEMMA TableIsFinite ==
  ASSUME NEW rows, IsTable(rows)
  PROVE  IsFiniteSet(rows) /\ Cardinality(rows) \in Nat
  <1>. DEFINE f == [x \in rows |-> x.id]
  <1>1. f \in Injection(rows, 1..MaxRows)
    BY DEF Injection, IsInjective, IsTable, Log!Rows, Log!Ids
  <1>2. IsFiniteSet(1..MaxRows)
    BY LogConstants, FS_Interval DEF Log!LogAssumption
  <1>3. IsFiniteSet(rows)
    BY <1>1, <1>2, FS_Injection
  <1>. QED  BY <1>3, FS_CardinalityType

\* Positions in the order run from one to the number of rows, and grow with age.
LEMMA PositionIs ==
  ASSUME NEW rows, IsTable(rows)
  PROVE  /\ \A x \in rows : Log!Position(x, rows) \in 1..Cardinality(rows)
         /\ \A x, y \in rows : Log!Newer(x, y) => Log!Position(x, rows) < Log!Position(y, rows)
  <1>. DEFINE Before(x) == {other \in rows : Log!Newer(other, x)}
  <1>0. IsFiniteSet(rows) /\ Cardinality(rows) \in Nat
    BY TableIsFinite
  <1>1. \A x \in rows : Before(x) \in SUBSET (rows \ {x})
    BY NewerOrders DEF IsTable
  <1>2. \A x \in rows : IsFiniteSet(rows \ {x}) /\ Cardinality(rows \ {x}) = Cardinality(rows) - 1
    BY <1>0, FS_RemoveElement
  <1>3. \A x \in rows : /\ IsFiniteSet(Before(x)) /\ Cardinality(Before(x)) \in Nat
                        /\ Cardinality(Before(x)) <= Cardinality(rows) - 1
    <2>. SUFFICES ASSUME NEW x \in rows
                  PROVE  /\ IsFiniteSet(Before(x)) /\ Cardinality(Before(x)) \in Nat
                         /\ Cardinality(Before(x)) <= Cardinality(rows) - 1
      OBVIOUS
    <2>. HIDE DEF Before
    <2>1. IsFiniteSet(Before(x)) /\ Cardinality(Before(x)) <= Cardinality(rows \ {x})
      BY <1>1, <1>2, FS_Subset
    <2>2. Cardinality(Before(x)) \in Nat
      BY <2>1, FS_CardinalityType
    <2>. QED  BY <1>2, <2>1, <2>2
  <1>4. \A x \in rows : Log!Position(x, rows) = Cardinality(Before(x)) + 1
    BY CardinalityOfLog DEF Log!Position
  <1>5. ASSUME NEW x \in rows, NEW y \in rows, Log!Newer(x, y)
        PROVE  Cardinality(Before(x)) < Cardinality(Before(y))
    <2>1. Before(x) \subseteq Before(y) /\ x \in Before(y) /\ x \notin Before(x)
      BY <1>5, NewerOrders DEF IsTable
    <2>. HIDE DEF Before
    <2>2. Cardinality(Before(x)) <= Cardinality(Before(y)) /\ Before(x) # Before(y)
      BY <1>3, <2>1, FS_Subset
    <2>3. Cardinality(Before(x)) # Cardinality(Before(y))
      BY <1>3, <2>1, <2>2, FS_Subset
    <2>. QED  BY <1>3, <2>2, <2>3
  <1>. HIDE DEF Before
  <1>. QED  BY <1>0, <1>3, <1>4, <1>5

\* All rows of a table, each once, newest first.
LEMMA NewestFirstIs ==
  ASSUME NEW rows, IsTable(rows)
  PROVE  LET s == Log!NewestFirst(rows)
             n == Cardinality(rows)
         IN /\ n \in Nat /\ s \in [1..n -> rows]
            /\ \A i, j \in 1..n : i < j => Log!Newer(s[i], s[j])
            /\ \A x \in rows : \E i \in 1..n : s[i] = x
  <1>. DEFINE s == Log!NewestFirst(rows)
              n == Cardinality(rows)
              p == [x \in rows |-> Log!Position(x, rows)]
  <1>1. n \in Nat /\ IsFiniteSet(1..n) /\ Cardinality(1..n) = n /\ IsFiniteSet(rows)
    BY TableIsFinite, FS_Interval
  <1>2. \A x, y \in rows : x # y => Log!Newer(x, y) \/ Log!Newer(y, x)
    BY NewerOrders DEF IsTable
  <1>3. /\ \A x \in rows : Log!Position(x, rows) \in 1..n
        /\ \A x, y \in rows : Log!Newer(x, y) => Log!Position(x, rows) < Log!Position(y, rows)
    BY PositionIs
  <1>. HIDE DEF n
  <1>4. p \in Injection(rows, 1..n)
    BY <1>1, <1>2, <1>3 DEF Injection, IsInjective
  <1>5. p \in Surjection(rows, 1..n)
    BY <1>1, <1>4, FS_Injection DEF n
  <1>6. \A i \in 1..n : \E x \in rows : Log!Position(x, rows) = i
    BY <1>5 DEF Surjection
  <1>7. s = [i \in 1..n |-> CHOOSE x \in rows : Log!Position(x, rows) = i]
    BY CardinalityOfLog DEF Log!NewestFirst, n
  <1>8. \A i \in 1..n : s[i] \in rows /\ Log!Position(s[i], rows) = i
    BY <1>6, <1>7
  <1>9. s \in [1..n -> rows]
    BY <1>7, <1>8
  <1>. HIDE DEF s
  <1>10. \A i, j \in 1..n : i < j => Log!Newer(s[i], s[j])
    BY <1>1, <1>2, <1>3, <1>8
  <1>11. \A x \in rows : \E i \in 1..n : s[i] = x
    BY <1>1, <1>2, <1>3, <1>8
  <1>. QED  BY <1>1, <1>9, <1>10, <1>11 DEF s, n

\* The beginning of a sequence (LIMIT).
LEMMA FirstOfIs ==
  ASSUME NEW s \in Seq(Log!Rows), NEW n \in Nat
  PROVE  LET first == Log!FirstOf(s, n) IN
           /\ first \in Seq(Log!Rows)
           /\ Len(first) = IF Len(s) <= n THEN Len(s) ELSE n
           /\ \A i \in 1..Len(first) : first[i] = s[i]
  <1>1. CASE Len(s) <= n
    BY <1>1 DEF Log!FirstOf
  <1>2. CASE ~(Len(s) <= n)
    <2>1. Log!FirstOf(s, n) = SubSeq(s, 1, n)
      BY <1>2 DEF Log!FirstOf
    <2>. HIDE DEF Log!Rows
    <2>. QED  BY <1>2, <2>1
  <1>. QED  BY <1>1, <1>2

\* Every row of the log has its place, in the order in which it was written.
LogIsTable ==
  \A i \in Log!Ids : log[i] # Nothing => log[i].id = i /\ i <= written

\* The rows of a filter are a table, of what has been written.
LEMMA MatchingIsTable ==
  ASSUME Log!TypeOK, LogIsTable, NEW k
  PROVE  IsTable(Log!Matching(k)) /\ \A x \in Log!Matching(k) : x.id <= written /\ Log!Matches(x, k)
  <1>1. \A x \in Log!Matching(k) : \E i \in Log!Ids : x = log[i] /\ x # Nothing /\ Log!Matches(x, k)
    BY DEF Log!Matching
  <1>2. \A i \in Log!Ids : log[i] # Nothing => log[i] \in Log!Rows
    BY DEF Log!TypeOK
  <1>. QED  BY <1>1, <1>2 DEF IsTable, LogIsTable

\* An answer brings what there is after its cursor, up to the next one.
PageIsGood(page, k, after, upto, there) ==
  /\ \A i, j \in 1..Len(page.items) : i < j => Log!Newer(page.items[i], page.items[j])
  /\ \A i \in 1..Len(page.items) :
       /\ Log!Matches(page.items[i], k)
       /\ after # Nothing => Log!Follows(page.items[i], after)
       /\ page.next # Nothing => ~Log!Follows(page.items[i], page.next)
  /\ page.next # Nothing => Len(page.items) > 0
  /\ \A x \in there :
       x.id <= upto /\ (after = Nothing \/ Log!Follows(x, after)) =>
         x \in Log!ToSet(page.items) \/ (page.next # Nothing /\ Log!Follows(x, page.next))

\* What the server answers is a good page (GET /api/audit-log/page).
LEMMA PageIs ==
  ASSUME Log!TypeOK, LogIsTable, NEW k, NEW c, NEW upto
  PROVE  Log!Page(k, c) \in Log!Pages /\ PageIsGood(Log!Page(k, c), k, c, upto, Log!Matching(k))
  <1>. DEFINE rows == {x \in Log!Matching(k) : c = Nothing \/ Log!Follows(x, c)}
              s == Log!NewestFirst(rows)
              n == Cardinality(rows)
              more == Log!FirstOf(s, PageSize + 1)
              items == Log!FirstOf(more, PageSize)
              next == IF Len(more) > PageSize
                      THEN [id |-> Log!Last(items).id, time |-> Log!Last(items).time] ELSE Nothing
  <1>0. PageSize \in Nat /\ PageSize > 0
    BY LogConstants DEF Log!LogAssumption
  <1>1. Log!Page(k, c) = [items |-> items, next |-> next]
    BY DEF Log!Page, Log!Selected
  <1>2. IsTable(rows) /\ rows \subseteq Log!Rows /\ \A x \in rows : Log!Matches(x, k) /\ (c # Nothing => Log!Follows(x, c))
    BY MatchingIsTable DEF IsTable
  <1>3. /\ n \in Nat /\ s \in [1..n -> rows]
        /\ \A i, j \in 1..n : i < j => Log!Newer(s[i], s[j])
        /\ \A x \in rows : \E i \in 1..n : s[i] = x
    BY <1>2, NewestFirstIs
  <1>4. \A x \in Log!Matching(k) : (c = Nothing \/ Log!Follows(x, c)) => x \in rows
    OBVIOUS
  <1>. HIDE DEF rows, n, s
  <1>5. s \in Seq(Log!Rows) /\ Len(s) = n
    BY <1>2, <1>3
  <1>6. /\ more \in Seq(Log!Rows) /\ Len(more) = IF n <= PageSize + 1 THEN n ELSE PageSize + 1
        /\ \A i \in 1..Len(more) : more[i] = s[i]
    BY <1>0, <1>5, FirstOfIs
  <1>. HIDE DEF more
  <1>7. /\ items \in Seq(Log!Rows) /\ Len(items) = IF n <= PageSize THEN n ELSE PageSize
        /\ \A i \in 1..Len(items) : items[i] = s[i]
    BY <1>0, <1>3, <1>6, FirstOfIs
  <1>8. IF n <= PageSize THEN next = Nothing
        ELSE next = [id |-> s[PageSize].id, time |-> s[PageSize].time]
    BY <1>0, <1>3, <1>6, <1>7 DEF Log!Last
  <1>9. \A i \in 1..n : s[i] \in Log!Rows
    BY <1>2, <1>3
  <1>. HIDE DEF items, next
  <1>17. ~(n <= PageSize) => next \in Log!Cursors
    BY <1>0, <1>3, <1>8, <1>9 DEF Log!Cursors, Log!Rows
  <1>18. Nothing \notin Log!Cursors
    BY LogConstants DEF Log!LogAssumption, Log!Cursors, Log!Ids, Log!Times
  <1>10. next \in Log!Cursors \cup {Nothing}
    BY <1>8, <1>17
  <1>11. \A i \in 1..n : ~(n <= PageSize) => (Log!Follows(s[i], next) <=> Log!Newer(s[PageSize], s[i]))
    BY <1>8 DEF Log!Newer
  <1>12. \A i \in 1..Len(items) : next # Nothing => ~Log!Follows(items[i], next)
    <2>. SUFFICES ASSUME NEW i \in 1..Len(items), next # Nothing PROVE ~Log!Follows(items[i], next)
      OBVIOUS
    <2>1. ~(n <= PageSize) /\ i \in 1..n /\ PageSize \in 1..n /\ i <= PageSize /\ items[i] = s[i]
      BY <1>0, <1>3, <1>7, <1>8
    <2>2. ~Log!Newer(s[PageSize], s[i])
      BY <1>0, <1>3, <1>9, <2>1, NewerOrders
    <2>. QED  BY <1>11, <2>1, <2>2
  <1>13. \A x \in rows : x \in Log!ToSet(items) \/ (next # Nothing /\ Log!Follows(x, next))
    <2>. SUFFICES ASSUME NEW x \in rows, x \notin Log!ToSet(items)
                  PROVE  next # Nothing /\ Log!Follows(x, next)
      OBVIOUS
    <2>1. PICK i \in 1..n : s[i] = x
      BY <1>3
    <2>2. i \notin 1..Len(items)
      BY <1>7, <2>1 DEF Log!ToSet
    <2>3. ~(n <= PageSize) /\ PageSize < i /\ PageSize \in 1..n
      BY <1>0, <1>3, <1>7, <2>2
    <2>4. Log!Newer(s[PageSize], s[i])
      BY <1>3, <2>3
    <2>5. next # Nothing
      BY <1>17, <1>18, <2>3
    <2>. QED  BY <1>11, <2>1, <2>3, <2>4, <2>5
  <1>14. Log!Page(k, c) \in Log!Pages
    BY <1>1, <1>7, <1>10 DEF Log!Pages
  <1>15. \A i, j \in 1..Len(items) : i < j => Log!Newer(items[i], items[j])
    BY <1>0, <1>3, <1>7
  <1>16. \A i \in 1..Len(items) : Log!Matches(items[i], k) /\ (c # Nothing => Log!Follows(items[i], c))
    BY <1>0, <1>2, <1>3, <1>7
  <1>19. next # Nothing => Len(items) > 0
    BY <1>0, <1>7, <1>8
  <1>. QED  BY <1>1, <1>4, <1>12, <1>19, <1>13, <1>14, <1>15, <1>16 DEF PageIsGood

\* An answer stays as good when only rows written since come to the log.
LEMMA PageStays ==
  ASSUME NEW page, NEW k, NEW after, NEW upto, NEW there, NEW there2,
         PageIsGood(page, k, after, upto, there),
         \A x \in there2 : x.id <= upto => x \in there
  PROVE  PageIsGood(page, k, after, upto, there2)
  BY DEF PageIsGood

\* The next page continues the ones shown.
LEMMA AppendedIsGood ==
  ASSUME NEW e \in Seq(Log!Rows), NEW c \in Log!Cursors, NEW page \in Log!Pages,
         NEW k, NEW upto, NEW there, there \subseteq Log!Rows, c # Nothing,
         PageIsGood([items |-> e, next |-> c], k, Nothing, upto, there),
         PageIsGood(page, k, c, upto, there)
  PROVE  PageIsGood([items |-> e \o page.items, next |-> page.next], k, Nothing, upto, there)
  <1>. DEFINE s == page.items
              d == page.next
              all == e \o s
  <1>1. /\ \A i, j \in 1..Len(e) : i < j => Log!Newer(e[i], e[j])
        /\ \A i \in 1..Len(e) : Log!Matches(e[i], k) /\ ~Log!Follows(e[i], c)
        /\ \A x \in there : x.id <= upto => x \in Log!ToSet(e) \/ Log!Follows(x, c)
    BY DEF PageIsGood
  <1>2. /\ \A i, j \in 1..Len(s) : i < j => Log!Newer(s[i], s[j])
        /\ \A i \in 1..Len(s) : /\ Log!Matches(s[i], k) /\ Log!Follows(s[i], c)
                                /\ d # Nothing => ~Log!Follows(s[i], d)
        /\ d # Nothing => Len(s) > 0
        /\ \A x \in there : x.id <= upto /\ Log!Follows(x, c) =>
             x \in Log!ToSet(s) \/ (d # Nothing /\ Log!Follows(x, d))
    BY DEF PageIsGood
  <1>3. s \in Seq(Log!Rows) /\ d \in Log!Cursors \cup {Nothing}
    BY DEF Log!Pages
  <1>. HIDE DEF s, d
  <1>4. /\ Len(e) \in Nat /\ Len(s) \in Nat /\ Len(all) = Len(e) + Len(s)
        /\ \A i \in 1..Len(e) : all[i] = e[i] /\ e[i] \in Log!Rows
        /\ \A i \in 1..Len(s) : all[Len(e) + i] = s[i] /\ s[i] \in Log!Rows
    <2>. HIDE DEF Log!Rows
    <2>. QED  BY <1>3
  <1>. HIDE DEF all
  <1>5. \A i \in 1..Len(all) : i \in 1..Len(e) \/ \E j \in 1..Len(s) : i = Len(e) + j
    <2>. SUFFICES ASSUME NEW i \in 1..Len(all), i \notin 1..Len(e)
                  PROVE  \E j \in 1..Len(s) : i = Len(e) + j
      OBVIOUS
    <2>1. i - Len(e) \in 1..Len(s) /\ i = Len(e) + (i - Len(e))
      BY <1>4
    <2>. QED  BY <2>1
  <1>6. \A x, y \in Log!Rows : ~Log!Follows(x, c) /\ Log!Follows(y, c) => Log!Newer(x, y)
    BY DEF Log!Newer, Log!Follows, Log!Rows, Log!Cursors, Log!Ids, Log!Times
  <1>7. \A i, j \in 1..Len(all) : i < j => Log!Newer(all[i], all[j])
    <2>. SUFFICES ASSUME NEW i \in 1..Len(all), NEW j \in 1..Len(all), i < j
                  PROVE  Log!Newer(all[i], all[j])
      OBVIOUS
    <2>1. CASE j \in 1..Len(e)
      <3>1. i \in 1..Len(e)
        BY <1>4, <2>1
      <3>. QED  BY <1>1, <1>4, <2>1, <3>1
    <2>2. CASE \E y \in 1..Len(s) : j = Len(e) + y
      <3>1. PICK y \in 1..Len(s) : j = Len(e) + y
        BY <2>2
      <3>2. CASE i \in 1..Len(e)
        BY <1>1, <1>2, <1>4, <1>6, <3>1, <3>2
      <3>3. CASE \E x \in 1..Len(s) : i = Len(e) + x
        <4>1. PICK x \in 1..Len(s) : i = Len(e) + x
          BY <3>3
        <4>2. x < y
          BY <1>4, <3>1, <4>1
        <4>. QED  BY <1>2, <1>4, <3>1, <4>1, <4>2
      <3>. QED  BY <1>5, <3>2, <3>3
    <2>. QED  BY <1>5, <2>1, <2>2
  <1>8. \A i \in 1..Len(all) : Log!Matches(all[i], k)
    BY <1>1, <1>2, <1>4, <1>5
  <1>9. ASSUME d # Nothing PROVE \A i \in 1..Len(all) : ~Log!Follows(all[i], d)
    <2>1. \A x, y \in Log!Rows : ~Log!Follows(x, c) /\ Log!Follows(y, c) /\ ~Log!Follows(y, d) => ~Log!Follows(x, d)
      <3>1. d \in Log!Cursors
        BY <1>3, <1>9
      <3>. QED  BY <3>1 DEF Log!Follows, Log!Rows, Log!Cursors, Log!Ids, Log!Times
    <2>2. 1 \in 1..Len(s)
      BY <1>2, <1>4, <1>9
    <2>. QED  BY <1>1, <1>2, <1>4, <1>5, <1>9, <2>1, <2>2
  <1>10. \A x : x \in Log!ToSet(e) \/ x \in Log!ToSet(s) => x \in Log!ToSet(all)
    <2>1. /\ \A x : x \in Log!ToSet(e) => \E i \in 1..Len(e) : x = e[i]
          /\ \A x : x \in Log!ToSet(s) => \E i \in 1..Len(s) : x = s[i]
          /\ \A i \in 1..Len(all) : all[i] \in Log!ToSet(all)
      BY DEF Log!ToSet
    <2>2. /\ \A i \in 1..Len(e) : i \in 1..Len(all)
          /\ \A i \in 1..Len(s) : Len(e) + i \in 1..Len(all)
      BY <1>4
    <2>. QED  BY <1>4, <2>1, <2>2
  <1>11. d # Nothing => Len(all) > 0
    BY <1>2, <1>4
  <1>. QED  BY <1>1, <1>2, <1>7, <1>8, <1>9, <1>10, <1>11 DEF PageIsGood, all, s, d

\* What the page shows is an answer to its first request that has been continued.
ShownIsGood ==
  PageIsGood([items |-> entries, next |-> cursor], filter, Nothing, listed, Log!Matching(filter))

\* The request of this generation asks for what follows, and so does its answer.
RequestIsGood ==
  load["current"] # Nothing =>
    LET q == load["current"] IN
    /\ q.kind = filter /\ q.rows <= written
    /\ q.after # Nothing => q.after = cursor
    /\ q.page # Nothing =>
         PageIsGood(q.page, filter, q.after, IF q.after = Nothing THEN q.rows ELSE listed, Log!Matching(filter))

LogInv ==
  /\ Log!TypeOK
  /\ LogIsTable
  /\ listed <= written
  /\ ShownIsGood
  /\ RequestIsGood

\* An empty list leaves out nothing of the rows before the first.
LEMMA NoPageIsGood ==
  ASSUME NEW k, NEW there, there \subseteq Log!Rows
  PROVE  PageIsGood([items |-> <<>>, next |-> Nothing], k, Nothing, 0, there)
  BY DEF PageIsGood, Log!Rows, Log!Ids

\* The page and the log are empty at first.
LEMMA LogStarts == Log!Init => LogInv
  <1>. SUFFICES ASSUME Log!Init PROVE LogInv
    OBVIOUS
  <1>1. Log!TypeOK /\ LogIsTable /\ listed <= written
    BY LogConstants DEF Log!Init, Log!TypeOK, LogIsTable, Log!LogAssumption, Log!Filters, Log!Requests, Log!Loads
  <1>2. Log!Matching(filter) \subseteq Log!Rows
    BY <1>1, MatchingIsTable DEF IsTable
  <1>3. ShownIsGood
    BY <1>2, NoPageIsGood DEF Log!Init, ShownIsGood
  <1>4. RequestIsGood
    BY DEF Log!Init, RequestIsGood, Log!Loads
  <1>. QED  BY <1>1, <1>3, <1>4 DEF LogInv

\* What a step of the log or of the page may change.
LEMMA LogTypes ==
  ASSUME LogInv, Log!Next
  PROVE  Log!TypeOK'
  <1>. USE DEF LogInv, Log!TypeOK
  <1>1. ASSUME NEW time \in Log!Times, NEW type \in Types, Log!Record(time, type)
        PROVE  Log!TypeOK'
    <2>1. written + 1 \in Log!Ids /\ written + 1 \in 0..MaxRows
      BY <1>1, LogConstants DEF Log!Record, Log!Ids, Log!LogAssumption
    <2>2. [id |-> written + 1, time |-> time, type |-> type] \in Log!Rows
      BY <2>1 DEF Log!Rows
    <2>. QED  BY <1>1, <2>1, <2>2 DEF Log!Record
  <1>2. CASE Log!Clear
    BY <1>2 DEF Log!Clear
  <1>3. ASSUME NEW k \in Log!Filters, Log!Open(k) PROVE Log!TypeOK'
    <2>1. Log!Request(k, Nothing) \in Log!Requests
      BY LogConstants DEF Log!Request, Log!Requests, Log!LogAssumption
    <2>2. load["earlier"] \in Log!Requests \cup {Nothing} /\ load["current"] \in Log!Requests \cup {Nothing}
      BY DEF Log!Loads
    <2>3. load' \in [Log!Loads -> Log!Requests \cup {Nothing}]
      BY <1>3, <2>1, <2>2 DEF Log!Open, Log!Loads
    <2>. QED  BY <1>3, <2>3, LogConstants DEF Log!Open, Log!LogAssumption
  <1>4. CASE Log!LoadMore
    <2>1. Log!Request(filter, cursor) \in Log!Requests
      BY LogConstants DEF Log!Request, Log!Requests, Log!LogAssumption
    <2>. QED  BY <1>4, <2>1 DEF Log!LoadMore
  <1>5. ASSUME NEW l \in Log!Loads, Log!Answer(l) PROVE Log!TypeOK'
    <2>. DEFINE q == load[l]
                p == Log!Page(q.kind, q.after)
                n == IF q.after = Nothing THEN written ELSE 0
    <2>1. q \in Log!Requests
      BY <1>5 DEF Log!Answer
    <2>2. p \in Log!Pages
      BY PageIs
    <2>3. n \in 0..MaxRows
      BY LogConstants DEF Log!LogAssumption
    <2>. HIDE DEF p, n
    <2>4. load' = [load EXCEPT ![l] = [q EXCEPT !.page = p, !.rows = n]]
      BY <1>5 DEF Log!Answer, p, n
    <2>5. [q EXCEPT !.page = p, !.rows = n] \in Log!Requests
      BY <2>1, <2>2, <2>3 DEF Log!Requests
    <2>. QED  BY <1>5, <2>4, <2>5 DEF Log!Answer
  <1>6. ASSUME NEW l \in Log!Loads, Log!Arrive(l) PROVE Log!TypeOK'
    <2>1. load[l] \in Log!Requests /\ load[l].page \in Log!Pages /\ load[l].rows \in 0..MaxRows
      BY <1>6 DEF Log!Arrive, Log!Requests
    <2>2. load[l].page.items \in Seq(Log!Rows) /\ load[l].page.next \in Log!Cursors \cup {Nothing}
      BY <2>1 DEF Log!Pages
    <2>3. entries \o load[l].page.items \in Seq(Log!Rows)
      BY <2>2
    <2>. QED  BY <1>6, <2>1, <2>2, <2>3 DEF Log!Arrive
  <1>7. ASSUME NEW l \in Log!Loads, Log!Fail(l) PROVE Log!TypeOK'
    BY <1>7 DEF Log!Fail
  <1>. QED  BY <1>1, <1>2, <1>3, <1>4, <1>5, <1>6, <1>7 DEF Log!Next

\* Every step keeps the rows under their ids, and the first answer among the past.
LEMMA LogTableStays ==
  ASSUME LogInv, Log!Next
  PROVE  LogIsTable' /\ (listed <= written)'
  <1>. USE DEF LogInv, Log!TypeOK, LogIsTable
  <1>1. ASSUME NEW time \in Log!Times, NEW type \in Types, Log!Record(time, type)
        PROVE  LogIsTable' /\ (listed <= written)'
    <2>1. written + 1 \in Log!Ids /\ written \in Nat /\ listed \in Nat
      BY <1>1, LogConstants DEF Log!Record, Log!Ids, Log!LogAssumption
    <2>2. \A i \in Log!Ids : log'[i] = IF i = written + 1 THEN [id |-> written + 1, time |-> time, type |-> type] ELSE log[i]
      BY <1>1 DEF Log!Record
    <2>3. \A i \in Log!Ids : i \in Nat
      BY DEF Log!Ids
    <2>. QED  BY <1>1, <2>1, <2>2, <2>3 DEF Log!Record
  <1>2. CASE Log!Clear
    BY <1>2 DEF Log!Clear
  <1>3. ASSUME NEW k \in Log!Filters, Log!Open(k) PROVE LogIsTable' /\ (listed <= written)'
    BY <1>3, LogConstants DEF Log!Open, Log!LogAssumption
  <1>4. CASE Log!LoadMore
    BY <1>4 DEF Log!LoadMore
  <1>5. ASSUME NEW l \in Log!Loads, Log!Answer(l) PROVE LogIsTable' /\ (listed <= written)'
    BY <1>5 DEF Log!Answer
  <1>6. ASSUME NEW l \in Log!Loads, Log!Arrive(l) PROVE LogIsTable' /\ (listed <= written)'
    BY <1>6 DEF Log!Arrive, RequestIsGood
  <1>7. ASSUME NEW l \in Log!Loads, Log!Fail(l) PROVE LogIsTable' /\ (listed <= written)'
    BY <1>7 DEF Log!Fail
  <1>. QED  BY <1>1, <1>2, <1>3, <1>4, <1>5, <1>6, <1>7 DEF Log!Next

\* While the page stays with its filter, the log only gets rows written since.
LEMMA MatchingStays ==
  ASSUME LogInv, Log!Next, filter' = filter
  PROVE  \A x \in Log!Matching(filter)' : x.id <= written => x \in Log!Matching(filter)
  <1>. USE DEF LogInv, Log!TypeOK
  <1>1. ASSUME NEW time \in Log!Times, NEW type \in Types, Log!Record(time, type)
        PROVE  \A x \in Log!Matching(filter)' : x.id <= written => x \in Log!Matching(filter)
    <2>1. \A i \in Log!Ids : log'[i] = IF i = written + 1 THEN [id |-> written + 1, time |-> time, type |-> type] ELSE log[i]
      BY <1>1 DEF Log!Record
    <2>2. written \in Nat
      BY LogConstants DEF Log!LogAssumption
    <2>. QED  BY <2>1, <2>2 DEF Log!Matching
  <1>2. CASE Log!Clear
    BY <1>2 DEF Log!Clear, Log!Matching
  <1>3. CASE log' = log
    BY <1>3 DEF Log!Matching
  <1>4. log' = log \/ Log!Clear \/ \E time \in Log!Times, type \in Types : Log!Record(time, type)
    BY DEF Log!Next, Log!Open, Log!LoadMore, Log!Answer, Log!Arrive, Log!Fail
  <1>. QED  BY <1>1, <1>2, <1>3, <1>4

\* A page shown, or an answer under way, stays as good while its filter does.
LEMMA GoodStays ==
  ASSUME LogInv, Log!Next, filter' = filter, NEW page, NEW after, NEW upto \in 0..MaxRows, upto <= written,
         PageIsGood(page, filter, after, upto, Log!Matching(filter))
  PROVE  PageIsGood(page, filter, after, upto, Log!Matching(filter)')
  <1>1. \A x \in Log!Matching(filter)' : x.id \in Nat
    <2>1. Log!TypeOK' /\ LogIsTable'
      BY LogTypes, LogTableStays
    <2>2. \A x \in Log!Matching(filter)' : x \in Log!Rows
      BY <2>1 DEF Log!Matching, Log!TypeOK
    <2>. QED  BY <2>2 DEF Log!Rows, Log!Ids
  <1>2. \A x \in Log!Matching(filter)' : x.id <= upto => x \in Log!Matching(filter)
    BY <1>1, MatchingStays DEF LogInv, Log!TypeOK
  <1>. QED  BY <1>2, PageStays

\* Every step keeps what is shown good: an answer replaces or continues it.
LEMMA ShownStays ==
  ASSUME LogInv, Log!Next
  PROVE  ShownIsGood'
  <1>0. Log!TypeOK /\ LogIsTable /\ Log!TypeOK' /\ LogIsTable' /\ listed <= written /\ listed \in 0..MaxRows
    BY LogTypes, LogTableStays DEF LogInv, Log!TypeOK
  <1>1. CASE UNCHANGED <<filter, entries, cursor, listed>>
    <2>1. PageIsGood([items |-> entries, next |-> cursor], filter, Nothing, listed, Log!Matching(filter)')
      BY <1>0, <1>1, GoodStays DEF LogInv, ShownIsGood
    <2>. QED  BY <1>1, <2>1 DEF ShownIsGood
  <1>2. ASSUME NEW k \in Log!Filters, Log!Open(k) PROVE ShownIsGood'
    <2>1. Log!Matching(filter)' \subseteq Log!Rows
      BY <1>0 DEF Log!Matching, Log!TypeOK
    <2>2. PageIsGood([items |-> <<>>, next |-> Nothing], filter', Nothing, 0, Log!Matching(filter)')
      BY <2>1, NoPageIsGood
    <2>. QED  BY <1>2, <2>2 DEF Log!Open, ShownIsGood
  <1>3. CASE Log!Arrive("current")
    <2>. DEFINE q == load["current"]
    <2>1. q \in Log!Requests /\ q # Nothing /\ q.page # Nothing /\ q.page \in Log!Pages /\ q.rows \in 0..MaxRows
      BY <1>0, <1>3 DEF Log!Arrive, Log!TypeOK, Log!Requests, Log!Loads
    <2>2. /\ q.rows <= written /\ (q.after # Nothing => q.after = cursor)
          /\ PageIsGood(q.page, filter, q.after, IF q.after = Nothing THEN q.rows ELSE listed, Log!Matching(filter))
      BY <2>1 DEF LogInv, RequestIsGood
    <2>3. /\ filter' = filter /\ cursor' = q.page.next
          /\ entries' = IF q.after = Nothing THEN q.page.items ELSE entries \o q.page.items
          /\ listed' = IF q.after = Nothing THEN q.rows ELSE listed
      BY <1>3 DEF Log!Arrive
    <2>. HIDE DEF q
    <2>4. PageIsGood([items |-> entries', next |-> cursor'], filter, Nothing, listed', Log!Matching(filter))
      <3>1. CASE q.after = Nothing
        <4>1. PageIsGood(q.page, filter, Nothing, q.rows, Log!Matching(filter))
          BY <2>2, <3>1
        <4>2. PageIsGood([items |-> q.page.items, next |-> q.page.next], filter, Nothing, q.rows, Log!Matching(filter))
          BY <4>1 DEF PageIsGood
        <4>. QED  BY <2>3, <3>1, <4>2
      <3>2. CASE q.after # Nothing
        <4>1. cursor # Nothing /\ cursor \in Log!Cursors /\ entries \in Seq(Log!Rows)
          BY <1>0, <2>2, <3>2 DEF Log!TypeOK
        <4>2. PageIsGood(q.page, filter, cursor, listed, Log!Matching(filter))
          BY <2>2, <3>2
        <4>3. Log!Matching(filter) \subseteq Log!Rows
          BY <1>0, MatchingIsTable DEF IsTable
        <4>4. PageIsGood([items |-> entries \o q.page.items, next |-> q.page.next], filter, Nothing, listed, Log!Matching(filter))
          BY <2>1, <4>1, <4>2, <4>3, AppendedIsGood DEF LogInv, ShownIsGood
        <4>. QED  BY <2>3, <3>2, <4>4
      <3>. QED  BY <3>1, <3>2
    <2>5. listed' \in 0..MaxRows /\ listed' <= written
      BY <1>0, <2>1, <2>2, <2>3
    <2>6. PageIsGood([items |-> entries', next |-> cursor'], filter, Nothing, listed', Log!Matching(filter)')
      BY <2>3, <2>4, <2>5, GoodStays
    <2>. QED  BY <2>3, <2>6 DEF ShownIsGood
  <1>4. \/ UNCHANGED <<filter, entries, cursor, listed>>
        \/ \E k \in Log!Filters : Log!Open(k)
        \/ Log!Arrive("current")
    BY DEF Log!Next, Log!Record, Log!Clear, Log!LoadMore, Log!Answer, Log!Arrive, Log!Fail, Log!Loads
  <1>. QED  BY <1>1, <1>2, <1>3, <1>4

\* Every step keeps the request of this generation and its answer good.
LEMMA RequestStays ==
  ASSUME LogInv, Log!Next
  PROVE  RequestIsGood'
  <1>. DEFINE q == load["current"]
  <1>0. /\ Log!TypeOK /\ LogIsTable /\ listed <= written /\ listed \in 0..MaxRows
        /\ written \in 0..MaxRows /\ written' \in 0..MaxRows
    BY LogTypes DEF LogInv, Log!TypeOK
  <1>1. CASE UNCHANGED <<filter, cursor, listed, load>> /\ written <= written'
    <2>. SUFFICES ASSUME q # Nothing, q.page # Nothing
                  PROVE  PageIsGood(q.page, filter, q.after, IF q.after = Nothing THEN q.rows ELSE listed, Log!Matching(filter)')
      <3>1. q # Nothing => q \in Log!Requests /\ q.rows \in 0..MaxRows
        BY <1>0 DEF Log!TypeOK, Log!Loads, Log!Requests
      <3>2. q # Nothing => q.kind = filter /\ q.rows <= written' /\ (q.after # Nothing => q.after = cursor)
        BY <1>0, <1>1, <3>1 DEF LogInv, RequestIsGood
      <3>. QED  BY <1>1, <3>2 DEF RequestIsGood
    <2>. DEFINE upto == IF q.after = Nothing THEN q.rows ELSE listed
    <2>1. q \in Log!Requests
      BY <1>0 DEF Log!TypeOK, Log!Loads
    <2>2. upto \in 0..MaxRows /\ upto <= written /\ PageIsGood(q.page, filter, q.after, upto, Log!Matching(filter))
      BY <1>0, <2>1 DEF LogInv, RequestIsGood, Log!Requests
    <2>. HIDE DEF upto, q
    <2>3. PageIsGood(q.page, filter, q.after, upto, Log!Matching(filter)')
      BY <1>1, <2>2, GoodStays
    <2>. QED  BY <2>3 DEF upto
  <1>2. ASSUME NEW k \in Log!Filters, Log!Open(k) PROVE RequestIsGood'
    <2>1. load'["current"] = Log!Request(k, Nothing) /\ filter' = k
      BY <1>2 DEF Log!Open
    <2>. QED  BY <1>0, <2>1 DEF Log!Request, RequestIsGood
  <1>3. CASE Log!LoadMore
    <2>1. load'["current"] = Log!Request(filter, cursor) /\ UNCHANGED <<filter, cursor, written>>
      BY <1>0, <1>3 DEF Log!LoadMore, Log!TypeOK, Log!Loads
    <2>. QED  BY <1>0, <2>1 DEF Log!Request, RequestIsGood
  <1>4. CASE Log!Answer("current")
    <2>. DEFINE p == Log!Page(q.kind, q.after)
                n == IF q.after = Nothing THEN written ELSE 0
    <2>1. q \in Log!Requests /\ q # Nothing
      BY <1>0, <1>4 DEF Log!Answer, Log!TypeOK, Log!Loads
    <2>2. q.kind = filter /\ (q.after # Nothing => q.after = cursor)
      BY <2>1 DEF LogInv, RequestIsGood
    <2>3. PageIsGood(p, q.kind, q.after, IF q.after = Nothing THEN n ELSE listed, Log!Matching(q.kind))
      BY <1>0, PageIs
    <2>. HIDE DEF p, n
    <2>4. load' = [load EXCEPT !["current"] = [q EXCEPT !.page = p, !.rows = n]] /\ UNCHANGED <<filter, cursor, listed, log, written>>
      BY <1>4 DEF Log!Answer, p, n
    <2>5. load'["current"] = [q EXCEPT !.page = p, !.rows = n]
      BY <1>0, <2>4 DEF Log!TypeOK, Log!Loads
    <2>6. /\ load'["current"].kind = q.kind /\ load'["current"].after = q.after
          /\ load'["current"].page = p /\ load'["current"].rows = n
      BY <2>1, <2>5 DEF Log!Requests
    <2>7. Log!Matching(filter)' = Log!Matching(filter)
      BY <2>4 DEF Log!Matching
    <2>8. n <= written
      BY <1>0 DEF n
    <2>9. PageIsGood(p, filter, q.after, IF q.after = Nothing THEN n ELSE listed, Log!Matching(filter)')
      BY <2>2, <2>3, <2>7
    <2>. HIDE DEF q
    <2>. QED  BY <2>2, <2>4, <2>6, <2>8, <2>9 DEF RequestIsGood
  <1>5. CASE load'["current"] = Nothing
    BY <1>5 DEF RequestIsGood
  <1>6. CASE UNCHANGED <<filter, cursor, listed, log, written>> /\ load'["current"] = load["current"]
    <2>1. Log!Matching(filter)' = Log!Matching(filter)
      BY <1>6 DEF Log!Matching
    <2>. QED  BY <1>6, <2>1 DEF LogInv, RequestIsGood
  <1>7. \/ UNCHANGED <<filter, cursor, listed, load>> /\ written <= written'
        \/ \E k \in Log!Filters : Log!Open(k)
        \/ Log!LoadMore \/ Log!Answer("current")
        \/ load'["current"] = Nothing
        \/ UNCHANGED <<filter, cursor, listed, log, written>> /\ load'["current"] = load["current"]
    <2>1. ASSUME NEW l \in Log!Loads, Log!Answer(l) \/ Log!Arrive(l) \/ Log!Fail(l)
          PROVE  \/ Log!Answer("current") \/ load'["current"] = Nothing
                 \/ UNCHANGED <<filter, cursor, listed, log, written>> /\ load'["current"] = load["current"]
      <3>1. CASE l = "current"
        BY <1>0, <2>1, <3>1 DEF Log!Arrive, Log!Fail, Log!TypeOK, Log!Loads
      <3>2. CASE l # "current"
        BY <1>0, <2>1, <3>2 DEF Log!Answer, Log!Arrive, Log!Fail, Log!TypeOK, Log!Loads
      <3>. QED  BY <3>1, <3>2
    <2>2. ASSUME NEW time \in Log!Times, NEW type \in Types, Log!Record(time, type)
          PROVE  UNCHANGED <<filter, cursor, listed, load>> /\ written <= written'
      BY <1>0, <2>2, LogConstants DEF Log!Record, Log!LogAssumption
    <2>3. ASSUME Log!Clear PROVE UNCHANGED <<filter, cursor, listed, load>> /\ written <= written'
      BY <1>0, <2>3, LogConstants DEF Log!Clear, Log!LogAssumption
    <2>. QED  BY <2>1, <2>2, <2>3 DEF Log!Next
  <1>. QED  BY <1>1, <1>2, <1>3, <1>4, <1>5, <1>6, <1>7

\* What is shown, what is under way and the log fit together throughout.
LEMMA LogInvariant == Spec => []LogInv
  <1>1. LogInv /\ [Log!Next]_(Log!vars) => LogInv'
    <2>. SUFFICES ASSUME LogInv, [Log!Next]_(Log!vars) PROVE LogInv'
      OBVIOUS
    <2>1. CASE Log!Next
      BY <2>1, LogTypes, LogTableStays, ShownStays, RequestStays DEF LogInv
    <2>2. CASE UNCHANGED Log!vars
      <3>1. UNCHANGED <<log, written, filter, entries, cursor, load, listed>>
        BY <2>2 DEF Log!vars
      <3>2. Log!Matching(filter)' = Log!Matching(filter)
        BY <3>1 DEF Log!Matching
      <3>. QED  BY <3>1, <3>2 DEF LogInv, Log!TypeOK, LogIsTable, ShownIsGood, RequestIsGood
    <2>. QED  BY <2>1, <2>2
  <1>. QED  BY <1>1, LogStarts, LogIsPart, PTL DEF Log!Spec

\* The log and its page keep their types.
LEMMA LogTypesHold == Spec => []Log!TypeOK
  <1>1. LogInv => Log!TypeOK
    BY DEF LogInv
  <1>. QED  BY <1>1, LogInvariant, PTL

\* Whatever is written and replaced between the pages, and however answers
\* overlap when the filter changes, the page of the change log shows rows of
\* its filter only, newest first and each once, and leaves out only what the
\* next pages will bring (AuditLogPage.tsx, routes/audit.ts).
THEOREM PagesStayComplete == Spec => []PagesAreComplete
  <1>1. LogInv => PagesAreComplete
    <2>. SUFFICES ASSUME LogInv PROVE PagesAreComplete
      OBVIOUS
    <2>1. ShownIsGood
      BY DEF LogInv
    <2>. QED  BY <2>1 DEF ShownIsGood, PageIsGood, PagesAreComplete, Log!PagesAreComplete
  <1>. QED  BY <1>1, LogInvariant, PTL

-----------------------------------------------------------------------------
(* All parts together.                                                     *)

\* Every variable of every part always has its type.
THEOREM PreviewsTypes == Spec => []TypeOK
  <1>1. Init => part \in Parts
    BY DEF Init
  <1>2. part \in Parts /\ [Next]_vars => (part \in Parts)'
    BY DEF Next, vars
  <1>3. Spec => [](part \in Parts)
    BY <1>1, <1>2, PTL DEF Spec
  <1>4. RulesInv => Rules!TypeOK
    BY DEF RulesInv
  <1>5. ClosingsInv => Closings!TypeOK
    BY DEF ClosingsInv
  <1>6. SightsInv => Sights!TypeOK
    BY DEF SightsInv
  <1>7. ShellInv => Offline!TypeOK
    BY DEF ShellInv
  <1>8. /\ part \in Parts /\ Rules!TypeOK /\ (part = "access" => Access!TypeOK)
        /\ Dialog!TypeOK /\ Figures!TypeOK /\ Log!TypeOK /\ Closings!TypeOK
        /\ Sights!TypeOK /\ Offline!TypeOK /\ Editing!TypeOK
        => TypeOK
    BY DEF TypeOK
  <1>. QED
    BY <1>3, <1>4, <1>5, <1>6, <1>7, <1>8, RulesInvariant, AccessTypes, DialogTypes, FiguresTypes,
       LogTypesHold, ClosingsInvariant, SightsInvariant, OfflineIsPart, ShellInvariant, EditingTypes, PTL

=============================================================================
