------------------------------- MODULE FirstUse --------------------------------
(***************************************************************************)
(* The first use of an installation: the setup wizard                      *)
(* (src/pages/SetupWizardPage.tsx, routes/setup.ts,                        *)
(* services/setupBootstrap.ts) in every authentication mode, the owner     *)
(* setup links of native OIDC and the administration of members beside it. *)
(* Transactions are taken statement by statement: PostgreSQL interleaves   *)
(* them (READ COMMITTED), with SQLite one holds the only connection.       *)
(***************************************************************************)
EXTENDS Naturals

CONSTANTS
  Users,      \* administrators: of the proxy's group or of the provider
  LocalUser,  \* the user of local mode
  Requests,   \* submissions under way at a time
  Nothing     \* absent value

UserAssumption == LocalUser \notin Users /\ Nothing \notin Users \cup Requests \cup {LocalUser}

VARIABLES
  driver,       \* of the installation's database
  mode,         \* authentication
  owner,        \* setting setup.ownerUserId
  completedBy,  \* setting setup.completedBy, written with completedAt
  member,       \* memberships
  created,      \* how often a user's setup has created care parties and children
  existing,     \* whether there are children and care parties without a setup
  request,      \* submissions: user and step of the transaction
  removal,      \* the removal of a member under way
  tokens,       \* owner setup: the token of the file, the consumed ones
  link,         \* each user's claim by a setup link
  relinked      \* history: a link has replaced an owner

vars == <<driver, mode, owner, completedBy, member, created, existing, request, removal,
          tokens, link, relinked>>

-----------------------------------------------------------------------------
People == Users \cup {LocalUser}

Modes == {"native", "proxy", "local"}

Memberships == {"none", "admin", "revoked"}

NoRequest == [step |-> "idle", user |-> Nothing]

\* A transaction has read the state, holds the user's row, has claimed the
\* ownership.
InTransaction == {"begun", "known", "claimed"}

\* A new installation, or one that was used before it had an owner.
Init ==
  /\ driver \in {"sqlite", "postgres"}
  /\ mode \in Modes
  /\ owner = Nothing /\ completedBy = Nothing
  /\ member \in {m \in [People -> {"none", "admin"}] : m[LocalUser] = "none"}
  /\ created = [u \in People |-> 0]
  /\ existing = FALSE
  /\ request = [q \in Requests |-> NoRequest]
  /\ removal = Nothing
  /\ tokens = [file |-> 1, consumed |-> {}]
  /\ link = [u \in Users |-> Nothing]
  /\ relinked = FALSE

Open == {q \in Requests : request[q].step \in InTransaction}

ConnectionFree ==
  driver = "sqlite" => Open = {} /\ removal = Nothing /\ \A u \in Users : link[u] = Nothing

-----------------------------------------------------------------------------
(* Who is who                                                              *)

\* resolveRequestUser: the proxy's headers, the session, or local-dev.
SignedIn(u) == IF mode = "local" THEN u = LocalUser ELSE u \in Users

\* applyMembershipRole: without an owner the role of the groups counts, except
\* for native OIDC.
HasAccess(u) ==
  /\ SignedIn(u)
  /\ \/ member[u] = "admin"
     \/ member[u] = "none" /\ owner = Nothing /\ mode # "native"

\* canAdministerMembers
MayAdminister(u) == HasAccess(u) /\ owner \in {u, Nothing}

\* setupUser
MaySetUp(u) == SignedIn(u) /\ (mode = "native" => HasAccess(u) /\ owner = u)

\* buildSetupState; the setup's own parties and children come with completedBy.
Complete == completedBy # Nothing \/ existing

-----------------------------------------------------------------------------
(* The setup wizard                                                        *)

\* From the wizard, which waits for the answer; but another window, or the
\* same one after its timeout, may submit beside it.
Submit(u, q) ==
  /\ request[q] = NoRequest
  /\ MaySetUp(u)
  /\ request' = [request EXCEPT ![q] = [step |-> "allowed", user |-> u]]
  /\ UNCHANGED <<driver, mode, owner, completedBy, member, created, existing, removal,
                 tokens, link, relinked>>

Advance(q, from, to) ==
  /\ request[q].step = from
  /\ request' = [request EXCEPT ![q].step = to]
  /\ UNCHANGED <<driver, mode, owner, completedBy, member, created, existing, removal,
                 tokens, link, relinked>>

\* The error is answered, what the transaction did is rolled back.
Rejected(q) ==
  /\ request' = [request EXCEPT ![q] = NoRequest]
  /\ UNCHANGED <<driver, mode, owner, completedBy, member, created, existing, removal,
                 tokens, link, relinked>>

\* buildSetupState
Begin(q) == ConnectionFree /\ ~Complete /\ Advance(q, "allowed", "begun")

AlreadyComplete(q) ==
  request[q].step = "allowed" /\ ConnectionFree /\ Complete /\ Rejected(q)

\* upsertAuthenticatedUser waits for whoever has written the same user's row.
KnowUser(q) ==
  /\ \A r \in Open \ {q} : request[r].user = request[q].user => request[r].step = "begun"
  /\ Advance(q, "begun", "known")

\* The insertion of the owner waits for one that is not committed.
KeyFree(others) == owner # Nothing \/ \A r \in others : request[r].step # "claimed"

\* Seeded fault: the owner is written like the other settings.
ClaimableByAnyone(q) == TRUE

\* claimOrAssertOwner: the insertion does nothing when there is an owner, who
\* is then read again.
Claimable(q) == owner \in {request[q].user, Nothing}

Claim(q) == KeyFree(Open \ {q}) /\ Claimable(q) /\ Advance(q, "known", "claimed")

ClaimConflict(q) ==
  request[q].step = "known" /\ KeyFree(Open \ {q}) /\ ~Claimable(q) /\ Rejected(q)

\* createCareParty, the children and the settings.
Creates(u) == created' = [created EXCEPT ![u] = @ + 1]

\* The rest of the transaction: what the setup creates, and recordSetupComplete
\* with setMembershipRole.
Commit(q) ==
  LET u == request[q].user IN
  /\ request[q].step = "claimed"
  /\ Creates(u)
  /\ owner' = u
  /\ completedBy' = u
  /\ member' = [member EXCEPT ![u] = "admin"]
  /\ request' = [request EXCEPT ![q] = NoRequest]
  /\ UNCHANGED <<driver, mode, existing, removal, tokens, link, relinked>>

\* Anything else may fail.
Fail(q) == request[q] # NoRequest /\ Rejected(q)

-----------------------------------------------------------------------------
(* Beside the wizard                                                       *)

\* Children and care parties are created and deleted, by whoever has access.
ChangeRecords(u) ==
  /\ HasAccess(u) /\ ConnectionFree
  /\ existing' = ~existing
  /\ UNCHANGED <<driver, mode, owner, completedBy, member, created, request, removal,
                 tokens, link, relinked>>

\* removeMember: the owner is read first, the membership is written last.
CheckRemoval(u, v) ==
  /\ removal = Nothing /\ ConnectionFree
  /\ u # v /\ MayAdminister(u)
  /\ member[v] = "admin"
  /\ removal' = v
  /\ UNCHANGED <<driver, mode, owner, completedBy, member, created, existing, request,
                 tokens, link, relinked>>

Remove ==
  /\ removal # Nothing
  /\ member' = [member EXCEPT ![removal] = "revoked"]
  /\ removal' = Nothing
  /\ UNCHANGED <<driver, mode, owner, completedBy, created, existing, request,
                 tokens, link, relinked>>

\* consumeAndClaim reads the owner and consumes the token; a second claim with
\* the same token waits for the first one, and fails when that has committed.
CheckLink(u) ==
  /\ mode = "native" /\ link[u] = Nothing
  /\ ConnectionFree
  /\ owner = Nothing
  /\ tokens.file \notin tokens.consumed \cup {link[v] : v \in Users}
  /\ link' = [link EXCEPT ![u] = tokens.file]
  /\ UNCHANGED <<driver, mode, owner, completedBy, member, created, existing, request,
                 removal, tokens, relinked>>

\* It writes the owner, whoever it is by then.
ClaimByLink(u) ==
  /\ link[u] # Nothing
  /\ KeyFree(Open)
  /\ relinked' = (relinked \/ owner \notin {u, Nothing})
  /\ owner' = u
  /\ member' = [member EXCEPT ![u] = "admin"]
  /\ tokens' = [tokens EXCEPT !.consumed = @ \cup {link[u]}]
  /\ link' = [link EXCEPT ![u] = Nothing]
  /\ UNCHANGED <<driver, mode, completedBy, created, existing, request, removal>>

\* The operator mounts another token.
Rotate ==
  /\ tokens.file = 1
  /\ tokens' = [tokens EXCEPT !.file = 2]
  /\ UNCHANGED <<driver, mode, owner, completedBy, member, created, existing, request,
                 removal, link, relinked>>

\* disableLocalDevelopmentIdentityAccess
WithoutLocalUser(m) ==
  IF m = "local" \/ owner = LocalUser \/ member[LocalUser] = "none" THEN member
  ELSE [member EXCEPT ![LocalUser] = "revoked"]

\* The server stops, and starts in the same or another mode.
Restart(m) ==
  /\ mode' = m
  /\ request' = [q \in Requests |-> NoRequest]
  /\ removal' = Nothing
  /\ link' = [u \in Users |-> Nothing]
  /\ member' = WithoutLocalUser(m)
  /\ UNCHANGED <<driver, owner, completedBy, created, existing, tokens, relinked>>

Next ==
  \/ \E u \in People, q \in Requests : Submit(u, q)
  \/ \E q \in Requests :
       \/ Begin(q) \/ AlreadyComplete(q) \/ KnowUser(q) \/ Claim(q) \/ ClaimConflict(q)
       \/ Commit(q) \/ Fail(q)
  \/ \E u \in People :
       \/ ChangeRecords(u)
       \/ \E v \in People : CheckRemoval(u, v)
  \/ Remove \/ Rotate
  \/ \E u \in Users : CheckLink(u) \/ ClaimByLink(u)
  \/ \E m \in Modes : Restart(m)

Spec == Init /\ [][Next]_vars

-----------------------------------------------------------------------------
\* Every variable has its type.
TypeOK ==
  /\ driver \in {"sqlite", "postgres"}
  /\ mode \in Modes
  /\ {owner, completedBy, removal} \subseteq People \cup {Nothing}
  /\ member \in [People -> Memberships]
  /\ created \in [People -> Nat]
  /\ existing \in BOOLEAN
  /\ request \in [Requests -> [step : InTransaction \cup {"idle", "allowed"},
                               user : People \cup {Nothing}]]
  /\ tokens \in [file : {1, 2}, consumed : SUBSET {1, 2}]
  /\ link \in [Users -> {1, 2, Nothing}]
  /\ relinked \in BOOLEAN

\* The wizard creates its care parties and children once
\* (setup_already_complete).
SetUpOnce == \A u \in People : created[u] <= 1

\* The owner is an administrator: whoever is removed is not the owner.
OwnerStaysMember == owner # Nothing => member[owner] = "admin"

\* docs/data-model.md: a setup never replaces the owner, although submissions
\* of several people, and of one browser that gave up, overlap on separate
\* connections; who completed it is the owner, and nobody else's setup has
\* created anything. With one connection it happens once, and the owner stays a
\* member, whoever was about to remove that member. (A setup link may replace
\* an owner on PostgreSQL.)
OneSetup ==
  /\ ~relinked => /\ completedBy \in {owner, Nothing}
                  /\ \A u \in People : created[u] > 0 => u = owner
  /\ driver = "sqlite" => SetUpOnce /\ OwnerStaysMember

\* docs/self-hosted-onboarding.md: an installation with an owner cannot be
\* claimed through another setup link.
LinkKeepsOwner == ~relinked
=============================================================================
