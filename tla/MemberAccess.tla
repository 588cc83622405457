----------------------------- MODULE MemberAccess -----------------------------
(***************************************************************************)
(* What a member may see: the role and the care-data scope of every        *)
(* membership, the owner's previewed and unpreviewed changes to them,      *)
(* invitations with a scope, and the personal calendar feeds that depend   *)
(* on both (server/services/memberManagement.ts, memberships.ts,           *)
(* careDataScopes.ts, calendarFeeds.ts and their routes).                  *)
(*                                                                         *)
(* The owner's changes run in one transaction each. A rotation of a feed   *)
(* checks the scope before its transaction. A calendar client's request    *)
(* looks the member up twice, for its token and again for the entries, and *)
(* every look takes several reads, between which anything may be written.  *)
(***************************************************************************)
EXTENDS Naturals

CONSTANTS
  Users,      \* members and former members other than the owner
  Parties,    \* ids of care parties
  Proposals,  \* the roles with a scope that the owner previews and invites to
  MaxWrites,  \* bound on writes of memberships and care parties
  Nothing     \* absent value

\* A scheduler differs from a viewer in nothing that matters here.
Roles == {"admin", "editor", "viewer"}

Scopes == [all : {TRUE}, parties : {{}}] \cup [all : {FALSE}, parties : SUBSET Parties]

Grants == [role : Roles, scope : Scopes]

Membership == [role : Roles, all : BOOLEAN, at : 0..MaxWrites]

Times == [Parties -> 0..MaxWrites \cup {Nothing}]

\* What a preview showed of a member, what it was computed from, and its effect.
Shows == [access : Grants \cup {Nothing}, parties : Times]

Bases == [current : [row : Membership, scope : Scopes] \cup {Nothing}, parties : Times]

Previews == [before : Shows, basis : Bases, after : [access : Grants, parties : Times]]

\* An "all" and a "legacy" feed are restricted in the same way.
Feeds == {"all"} \cup Parties

\* A calendar client's request past its token: what it reads next, and the scope
\* it has found when it has read everything.
Readings == [user : Users, feed : Feeds, again : BOOLEAN, scope : SUBSET Parties,
             next : {"permission", "user", "membership", "assignments", "entries"}]

ProposalAssumption == Proposals \subseteq Grants
MaxWritesAssumption == MaxWrites \in Nat
NothingAssumption ==
  /\ Nothing \notin Users /\ Nothing \notin Feeds /\ Nothing \notin Nat
  /\ Nothing \notin Membership /\ Nothing \notin Grants
  /\ Nothing \notin [row : Membership, scope : Scopes]
  /\ Nothing \notin Previews /\ Nothing \notin Readings
  /\ \A ps \in SUBSET Parties : Nothing # ps
  /\ Nothing \notin [before : Shows, after : [access : Grants, parties : Times]]

VARIABLES
  member,      \* latest row of app_memberships, Nothing when missing or deleted
  assigned,    \* active rows of app_user_care_party_assignments
  party,       \* updated_at of every active care party
  clock,       \* the time of the last write
  preview,     \* the access preview the owner has open for each member
  invitation,  \* the open invitation of each person
  feed,        \* live tokens of each member, by their scope
  rotating,    \* the rotation of each member that is past its check
  reading,     \* a calendar client's request past the token
  open         \* history: what its member had since its second look began

vars == <<member, assigned, party, clock, preview, invitation, feed, rotating, reading, open>>

-----------------------------------------------------------------------------
AllCare == [all |-> TRUE, parties |-> {}]

Selected(ps) == [all |-> FALSE, parties |-> ps]

ActiveParties == {p \in Parties : party[p] # Nothing}

\* membershipCareDataScope
ScopeOf(u) == IF member[u].all THEN AllCare ELSE Selected(assigned[u])

\* normalizeCareDataScope
Normalized(role, scope) == IF role = "admin" THEN AllCare ELSE scope

\* defaultCareDataScope: anybody's assignment makes the default an empty one.
DefaultScope(role) ==
  IF role = "admin" \/ \A u \in Users : assigned[u] = {} THEN AllCare ELSE Selected({})

\* memberAccessState
Access(u) ==
  IF member[u] = Nothing THEN Nothing
  ELSE [role |-> member[u].role, scope |-> Normalized(member[u].role, ScopeOf(u))]

\* effectiveCareDataScope
Visible(u) ==
  IF member[u] = Nothing THEN {}
  ELSE IF Access(u).scope.all THEN Parties ELSE assigned[u]

\* feeds:manage-own, which every role but the last two has.
MayFeed(u) == member[u] # Nothing /\ member[u].role \in {"admin", "editor"}

Closed == [fed |-> FALSE, parties |-> {}]

\* What the owner is shown of a member: the access, and the care parties.
Shown(u) == [access |-> Access(u), parties |-> party]

\* Seeded fault: the fingerprint leaves the care parties out.
BasisOfMember(u) ==
  IF member[u] = Nothing THEN Nothing ELSE [row |-> member[u], scope |-> ScopeOf(u)]

\* memberAccessFingerprint of the snapshot and the active care parties.
Basis(u) ==
  [current |-> IF member[u] = Nothing THEN Nothing
               ELSE [row |-> member[u], scope |-> ScopeOf(u)],
   parties |-> party]

Init ==
  /\ assigned \in [Users -> {{}, Parties}]
  /\ member \in [Users -> {Nothing, [role |-> "editor", all |-> FALSE, at |-> 0]}]
  /\ \A u \in Users : member[u] = Nothing => assigned[u] = {}
  /\ party = [p \in Parties |-> 0]
  /\ clock = 0
  /\ preview = [u \in Users |-> Nothing]
  /\ invitation = [u \in Users |-> Nothing]
  /\ feed = [u \in Users |-> {}]
  /\ rotating = [u \in Users |-> Nothing]
  /\ reading = Nothing
  /\ open = Closed

Tick == clock < MaxWrites /\ clock' = clock + 1

\* setMembershipAccess and syncMemberCareDataScope.
SetAccess(u, role, scope) ==
  /\ Tick
  /\ Normalized(role, scope).parties \subseteq ActiveParties
  /\ member' = [member EXCEPT ![u] =
       [role |-> role, all |-> Normalized(role, scope).all, at |-> clock']]
  /\ assigned' = [assigned EXCEPT ![u] = Normalized(role, scope).parties]

Revoked(u) == [feed EXCEPT ![u] = {}]

-----------------------------------------------------------------------------
(* The owner's member administration                                       *)

\* POST access-preview
PreviewAccess(u, role, scope) ==
  /\ Normalized(role, scope).parties \subseteq ActiveParties
  /\ preview' = [preview EXCEPT ![u] =
       [before |-> Shown(u), basis |-> Basis(u),
        after |-> [access |-> [role |-> role, scope |-> Normalized(role, scope)],
                   parties |-> party]]]
  /\ UNCHANGED <<member, assigned, party, clock, invitation, feed, rotating, reading>>

\* PUT access: updateMemberAccess.
ApplyAccess(u) ==
  /\ preview[u] # Nothing
  /\ preview[u].basis = Basis(u)
  /\ LET after == preview[u].after.access IN
       /\ SetAccess(u, after.role, after.scope)
       /\ feed' = IF Access(u) = after THEN feed ELSE Revoked(u)
  /\ preview' = [preview EXCEPT ![u] = Nothing]
  /\ UNCHANGED <<party, invitation, rotating, reading>>

\* The owner gives up, or the answer is 409.
DropPreview(u) ==
  /\ preview[u] # Nothing
  /\ preview' = [preview EXCEPT ![u] = Nothing]
  /\ UNCHANGED <<member, assigned, party, clock, invitation, feed, rotating, reading>>

\* PUT role, deprecated: the scope stays, and somebody without a membership
\* becomes a member.
UpdateRole(u, role) ==
  /\ SetAccess(u, role, IF member[u] = Nothing THEN DefaultScope(role) ELSE ScopeOf(u))
  /\ feed' = IF role = "viewer" THEN Revoked(u) ELSE feed
  /\ UNCHANGED <<party, preview, invitation, rotating, reading>>

\* PUT user-care-party-assignments, deprecated: an administrator gets the rows
\* and keeps the scope, somebody without a membership only gets the rows.
UpdateAssignments(u, ps) ==
  /\ Tick
  /\ ps \subseteq ActiveParties
  /\ assigned' = [assigned EXCEPT ![u] = ps]
  /\ member' = IF member[u] = Nothing THEN member
               ELSE [member EXCEPT ![u].all = member[u].role = "admin", ![u].at = clock']
  /\ UNCHANGED <<party, preview, invitation, feed, rotating, reading>>

\* DELETE: the assignments stay.
RemoveMember(u) ==
  /\ Tick
  /\ member[u] # Nothing
  /\ member' = [member EXCEPT ![u] = Nothing]
  /\ feed' = Revoked(u)
  /\ UNCHANGED <<assigned, party, preview, invitation, rotating, reading>>

\* POST /api/invitations after its preview, for a person who may have been, or
\* may be, a member.
Invite(u, role, scope) ==
  /\ invitation[u] = Nothing
  /\ Normalized(role, scope).parties \subseteq ActiveParties
  /\ invitation' = [invitation EXCEPT ![u] = [role |-> role, scope |-> Normalized(role, scope)]]
  /\ UNCHANGED <<member, assigned, party, clock, preview, feed, rotating, reading>>

\* acceptSelectedInvitation: it fails when a care party of the scope is gone.
AcceptInvitation(u) ==
  /\ invitation[u] # Nothing
  /\ SetAccess(u, invitation[u].role, invitation[u].scope)
  /\ invitation' = [invitation EXCEPT ![u] = Nothing]
  /\ UNCHANGED <<party, preview, feed, rotating, reading>>

\* PUT and DELETE /api/care-parties/:id; assignments do not count as a use.
UpdateParty(p) ==
  /\ Tick
  /\ party[p] # Nothing
  /\ party' = [party EXCEPT ![p] = clock']
  /\ UNCHANGED <<member, assigned, preview, invitation, feed, rotating, reading>>

DeleteParty(p) ==
  /\ Tick
  /\ party[p] # Nothing
  /\ party' = [party EXCEPT ![p] = Nothing]
  /\ UNCHANGED <<member, assigned, preview, invitation, feed, rotating, reading>>

-----------------------------------------------------------------------------
(* Personal calendar feeds                                                 *)

MayRead(u, f) == MayFeed(u) /\ f \in {"all"} \cup (ActiveParties \cap Visible(u))

\* POST /api/calendar-feed: the permission and assertScopeAllowed.
CheckFeedScope(u, f) ==
  /\ rotating[u] = Nothing
  /\ MayRead(u, f)
  /\ rotating' = [rotating EXCEPT ![u] = f]
  /\ UNCHANGED <<member, assigned, party, clock, preview, invitation, feed, reading>>

\* The transaction of rotateCalendarFeedToken.
RotateToken(u) ==
  /\ rotating[u] # Nothing
  /\ feed' = [feed EXCEPT ![u] = @ \cup {rotating[u]}]
  /\ rotating' = [rotating EXCEPT ![u] = Nothing]
  /\ UNCHANGED <<member, assigned, party, clock, preview, invitation, reading>>

\* DELETE /api/calendar-feed, of one scope or of all.
RevokeFeeds(u, fs) ==
  /\ MayFeed(u)
  /\ feed' = [feed EXCEPT ![u] = @ \ fs]
  /\ UNCHANGED <<member, assigned, party, clock, preview, invitation, rotating, reading>>

\* resolveCalendarFeedToken, the row of the token with its care party.
FindToken(u, f) ==
  /\ reading = Nothing
  /\ f \in feed[u] \cap ({"all"} \cup ActiveParties)
  /\ reading' = [user |-> u, feed |-> f, again |-> FALSE, scope |-> {}, next |-> "permission"]
  /\ UNCHANGED <<member, assigned, party, clock, preview, invitation, feed, rotating>>

\* The next read of a request: r is what the request is after it.
Read(next, r) ==
  /\ reading # Nothing /\ reading.next = next
  /\ reading' = r
  /\ UNCHANGED <<member, assigned, party, clock, preview, invitation, feed, rotating>>

\* A scope has been found. It must hold the care party of the token; after the
\* token, feedEntriesForToken looks the member up again.
Found(ps) ==
  IF reading.again THEN [reading EXCEPT !.scope = ps, !.next = "entries"]
  ELSE IF reading.feed \in {"all"} \cup ps THEN [reading EXCEPT !.again = TRUE, !.next = "user"]
  ELSE Nothing

\* userHasWorkspacePermission, for the token.
ReadPermission(u) ==
  Read("permission", IF MayFeed(u) THEN [reading EXCEPT !.next = "user"] ELSE Nothing)

\* Seeded fault: the permission is not asked for once more.
MayReadOnce(u) == reading.again \/ member[u] # Nothing

\* workspaceAccess, and for the entries the permission as well.
MayGoOn(u) == IF reading.again THEN MayFeed(u) ELSE member[u] # Nothing

\* findAuthenticatedUserBySubject. Without access the token is refused, and the
\* calendar stays empty; an administrator has all care data.
ReadUser(u) ==
  Read("user",
       IF ~MayGoOn(u) THEN IF reading.again THEN Found({}) ELSE Nothing
       ELSE IF \/ ~reading.again /\ reading.feed = "all"
               \/ member[u] # Nothing /\ member[u].role = "admin" THEN Found(Parties)
       ELSE [reading EXCEPT !.next = "membership"])

\* membershipCareDataScope, the row and then, for selected care parties, those.
ReadMembership(u) ==
  Read("membership",
       IF member[u] = Nothing THEN Found({})
       ELSE IF member[u].all THEN Found(Parties)
       ELSE [reading EXCEPT !.next = "assignments"])

ReadAssignments(u) == Read("assignments", Found(assigned[u]))

\* The care parties whose entries the query selects.
FeedContent(r) == r.scope \cap (IF r.feed = "all" THEN Parties ELSE {r.feed})

\* buildPersonalCalendarFeed, the end of the request.
SendFeed == Read("entries", Nothing)

Step ==
  \/ \E u \in Users :
       \/ \E p \in Proposals : PreviewAccess(u, p.role, p.scope) \/ Invite(u, p.role, p.scope)
       \/ \E role \in Roles : UpdateRole(u, role)
       \/ \E ps \in SUBSET Parties : UpdateAssignments(u, ps)
       \/ \E f \in Feeds : CheckFeedScope(u, f) \/ FindToken(u, f)
       \/ \E fs \in {Feeds} \cup {{f} : f \in Feeds} : RevokeFeeds(u, fs)
       \/ ApplyAccess(u) \/ DropPreview(u) \/ RemoveMember(u) \/ AcceptInvitation(u)
       \/ RotateToken(u)
       \/ /\ reading # Nothing /\ reading.user = u
          /\ ReadPermission(u) \/ ReadUser(u) \/ ReadMembership(u) \/ ReadAssignments(u)
  \/ \E p \in Parties : UpdateParty(p) \/ DeleteParty(p)
  \/ SendFeed

\* The second look at the member of a request has begun.
LookedAgain(r) == r # Nothing /\ r.again /\ r.next # "user"

\* What a request may still show is what the member had at one of its reads, or
\* between two of them.
Remember ==
  open' = IF ~LookedAgain(reading') THEN Closed
          ELSE LET u == reading'.user IN
                 [fed |-> open.fed \/ MayFeed(u),
                  parties |-> open.parties \cup Visible(u) \cup assigned[u]]

Next == Step /\ Remember

Spec == Init /\ [][Next]_vars

-----------------------------------------------------------------------------
\* Every variable has its type.
TypeOK ==
  /\ member \in [Users -> Membership \cup {Nothing}]
  /\ assigned \in [Users -> SUBSET Parties]
  /\ party \in Times
  /\ clock \in 0..MaxWrites
  /\ preview \in [Users -> Previews \cup {Nothing}]
  /\ invitation \in [Users -> Grants \cup {Nothing}]
  /\ feed \in [Users -> SUBSET Feeds]
  /\ rotating \in [Users -> Feeds \cup {Nothing}]
  /\ reading \in Readings \cup {Nothing}
  /\ open \in [fed : BOOLEAN, parties : SUBSET Parties]

\* What a member's previewed change promises.
Previewed == INSTANCE PreviewedWrite WITH
  Subjects <- Users, Nothing <- Nothing,
  state <- [u \in Users |-> Shown(u)],
  offer <- [u \in Users |-> IF preview[u] = Nothing THEN Nothing
              ELSE [before |-> preview[u].before, after |-> preview[u].after]]

\* docs/security.md: the owner confirms a change of exactly the access, and of
\* the care parties, that the preview showed, and a stale preview changes
\* nothing, whoever else changed the member or a care party in between.
AccessAppliedAsShown == Previewed!Spec

\* What a calendar client is shown its member had once the second look began,
\* and so had the permission for feeds: the answer does not rest on the check of
\* the token, however long ago that was. Access lost during the second look may
\* still be shown, and so may be a care party assigned to a removed member.
FeedsFollowAccess ==
  reading # Nothing /\ FeedContent(reading) # {} =>
    open.fed /\ FeedContent(reading) \subseteq open.parties

\* docs/adr/0009: narrowing a scope, reducing a role or removing a membership
\* revokes the affected feeds in the same transaction.
NarrowingRevokesFeeds ==
  [][\A u \in Users :
       Visible(u) \ {p \in Visible(u) : member'[u] # Nothing
                                        /\ (member'[u].all \/ p \in assigned'[u])} # {}
         => feed'[u] = {}]_vars
=============================================================================
