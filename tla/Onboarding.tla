------------------------------- MODULE Onboarding -------------------------------
(***************************************************************************)
(* How a person gets into an installation with native OIDC: login states,  *)
(* the callback, the one-time owner setup token, invitations, memberships  *)
(* and application sessions (server/routes/nativeOidc.ts and the services  *)
(* it calls), on SQLite.                                                   *)
(*                                                                         *)
(* A callback answers one login state and then takes several database      *)
(* steps. Owner setup and invitation run theirs in one transaction, which  *)
(* also creates the session. A normal login checks the membership twice    *)
(* and then creates the session, each in a step of its own. SQLite has one *)
(* connection: a transaction holds it, and every other database step of    *)
(* the process waits for it.                                               *)
(***************************************************************************)

CONSTANTS
  Users,         \* identities of the provider; each has an app_users row
  Tokens,        \* values of OWNER_SETUP_TOKEN_FILE
  Invitations,   \* rows of app_invitations
  InvitedRole,   \* the role each invitation was created with
  Logins,        \* slots for rows of native_oidc_login_states
  Callbacks,     \* callback requests, each with the session it creates
  Nothing        \* absent value

Roles == {"member", "admin"}

ASSUME RoleAssumption == InvitedRole \in [Invitations -> Roles]
ASSUME NothingAssumption == Nothing \notin Users \cup Tokens \cup Logins

VARIABLES
  file,        \* the usable content of the mounted token file
  ownerToken,  \* rows of owner_setup_tokens
  owner,       \* settings: setup.ownerUserId
  membership,  \* latest row of app_memberships, "none" when missing or deleted
  invitation,  \* rows of app_invitations; an accepted one names its user
  login,       \* context of every open login state
  callback,    \* every callback and its session
  request      \* the administrator of a request past its permission check

vars == <<file, ownerToken, owner, membership, invitation, login, callback, request>>

-----------------------------------------------------------------------------
\* OidcLoginContext
Contexts == [type : {"normal"}]
            \cup [type : {"owner_setup"}, token : Tokens]
            \cup [type : {"invitation"}, invitation : Invitations]

Normal == [type |-> "normal"]

Blank == [phase |-> "idle", login |-> Nothing, context |-> Nothing, user |-> Nothing,
          stale |-> FALSE]

\* "signedIn" is a callback whose session is live, "stuck" one that waits for
\* the connection its own transaction holds. stale is a history variable: the
\* member was removed after the callback's last look at the membership.
Exchanging == [phase : {"exchange"}, login : Logins, context : Contexts, user : {Nothing},
               stale : {FALSE}]

Checking == [phase : {"checked", "admitted"}, login : Logins, context : {Normal},
             user : Users, stale : BOOLEAN]

Waiting == [phase : {"stuck"}, login : Logins, context : Contexts, user : Users,
            stale : {FALSE}]

Sessions == [phase : {"signedIn"}, login : {Nothing}, context : Contexts, user : Users,
             stale : BOOLEAN]

CallbackState == {Blank} \cup Exchanging \cup Checking \cup Waiting \cup Sessions

ConnectionFree == \A c \in Callbacks : callback[c].phase # "stuck"

InFlight(c) == callback[c].phase \in {"exchange", "checked", "admitted", "stuck"}

\* A new installation, or one that used another authentication mode before and
\* has memberships, with or without an owner.
Init ==
  /\ file \in Tokens \cup {Nothing}
  /\ ownerToken = [t \in Tokens |-> "absent"]
  /\ owner \in Users \cup {Nothing}
  /\ membership \in [Users -> Roles \cup {"none"}]
  /\ owner # Nothing => membership[owner] = "admin"
  /\ invitation = [i \in Invitations |-> "absent"]
  /\ login = [l \in Logins |-> Nothing]
  /\ callback = [c \in Callbacks |-> Blank]
  /\ request = Nothing

-----------------------------------------------------------------------------
(* GET /auth/login, /setup, /setup/continue and /invite/continue.          *)

\* A row is created under a fresh state, and the creation deletes consumed and
\* expired rows: a slot no callback works on is reused.
FreeSlot(l) == login[l] = Nothing /\ \A c \in Callbacks : callback[c].login # l

StartLogin(l) ==
  /\ ConnectionFree
  /\ FreeSlot(l)
  /\ login' = [login EXCEPT ![l] = Normal]
  /\ UNCHANGED <<file, ownerToken, owner, membership, invitation, callback, request>>

\* begin inserts the row of the mounted token before it looks at the owner.
Begun(t) == [ownerToken EXCEPT ![t] = IF @ = "absent" THEN "open" ELSE @]

\* The landing page, or a begin that goes on to refuse the link.
OpenSetupPage(t) ==
  /\ ConnectionFree
  /\ file = t
  /\ ownerToken' = Begun(t)
  /\ UNCHANGED <<file, owner, membership, invitation, login, callback, request>>

StartSetup(l, t) ==
  /\ ConnectionFree
  /\ FreeSlot(l)
  /\ file = t
  /\ ownerToken[t] # "spent"
  /\ owner = Nothing
  /\ ownerToken' = Begun(t)
  /\ login' = [login EXCEPT ![l] = [type |-> "owner_setup", token |-> t]]
  /\ UNCHANGED <<file, owner, membership, invitation, callback, request>>

StartInvitation(l, i) ==
  /\ ConnectionFree
  /\ FreeSlot(l)
  /\ invitation[i] = "open"
  /\ login' = [login EXCEPT ![l] = [type |-> "invitation", invitation |-> i]]
  /\ UNCHANGED <<file, ownerToken, owner, membership, invitation, callback, request>>

-----------------------------------------------------------------------------
(* GET /auth/callback                                                      *)

Consumed(l) == [login EXCEPT ![l] = Nothing]

Consume(c, l) ==
  /\ ConnectionFree
  /\ callback[c] = Blank
  /\ login[l] # Nothing
  /\ login' = Consumed(l)
  /\ callback' = [callback EXCEPT ![c] =
       [Blank EXCEPT !.phase = "exchange", !.login = l, !.context = login[l]]]
  /\ UNCHANGED <<file, ownerToken, owner, membership, invitation, request>>

Reject(c) == callback' = [callback EXCEPT ![c] = Blank]

\* The provider reports an error, or the exchange of the code fails.
ExchangeFails(c) ==
  /\ callback[c].phase = "exchange"
  /\ Reject(c)
  /\ UNCHANGED <<file, ownerToken, owner, membership, invitation, login, request>>

\* A 403 also revokes the session of the browser's cookie, if it has one: d is
\* the callback that created it, or c itself when there is none.
Deny(c, d) ==
  callback' = [x \in Callbacks |->
    IF x = c \/ (x = d /\ callback[d].phase = "signedIn") THEN Blank ELSE callback[x]]

SignedIn(c, u, stale) ==
  [phase |-> "signedIn", login |-> Nothing, context |-> callback[c].context, user |-> u,
   stale |-> stale]

FirstCheck(c, u) ==
  /\ ConnectionFree
  /\ callback[c].phase = "exchange" /\ callback[c].context.type = "normal"
  /\ \/ /\ membership[u] # "none"
        /\ callback' = [callback EXCEPT ![c] = [@ EXCEPT !.phase = "checked", !.user = u]]
     \/ /\ membership[u] = "none"
        /\ \E d \in Callbacks : Deny(c, d)
  /\ UNCHANGED <<file, ownerToken, owner, membership, invitation, login, request>>

SecondCheck(c) ==
  /\ ConnectionFree
  /\ callback[c].phase = "checked"
  /\ \/ /\ membership[callback[c].user] # "none"
        /\ callback' = [callback EXCEPT ![c] = [@ EXCEPT !.phase = "admitted"]]
     \/ /\ membership[callback[c].user] = "none"
        /\ \E d \in Callbacks : Deny(c, d)
  /\ UNCHANGED <<file, ownerToken, owner, membership, invitation, login, request>>

CreateSession(c) ==
  /\ ConnectionFree
  /\ callback[c].phase = "admitted"
  /\ callback' = [callback EXCEPT ![c] = SignedIn(c, callback[c].user, callback[c].stale)]
  /\ UNCHANGED <<file, ownerToken, owner, membership, invitation, login, request>>

\* The file is read outside the database. A context that does not match it is
\* rejected by rejectStaleContext, whose audit record asks for the connection
\* the transaction holds.
ClaimStale(c, u) ==
  /\ ConnectionFree
  /\ callback[c].phase = "exchange" /\ callback[c].context.type = "owner_setup"
  /\ file # callback[c].context.token
  /\ callback' = [callback EXCEPT ![c] = [@ EXCEPT !.phase = "stuck", !.user = u]]
  /\ UNCHANGED <<file, ownerToken, owner, membership, invitation, login, request>>

\* Seeded fault: the owner is looked at when the setup begins only.
ClaimableByToken(t) == ownerToken[t] = "open"

Claimable(t) == owner = Nothing /\ ownerToken[t] = "open"

ClaimRefused(c) ==
  /\ ConnectionFree
  /\ callback[c].phase = "exchange" /\ callback[c].context.type = "owner_setup"
  /\ file = callback[c].context.token
  /\ ~Claimable(callback[c].context.token)
  /\ Reject(c)
  /\ UNCHANGED <<file, ownerToken, owner, membership, invitation, login, request>>

Claim(c, u) ==
  /\ ConnectionFree
  /\ callback[c].phase = "exchange" /\ callback[c].context.type = "owner_setup"
  /\ file = callback[c].context.token
  /\ Claimable(callback[c].context.token)
  /\ ownerToken' = [ownerToken EXCEPT ![callback[c].context.token] = "spent"]
  /\ membership' = [membership EXCEPT ![u] = "admin"]
  /\ owner' = u
  /\ callback' = [callback EXCEPT ![c] = SignedIn(c, u, FALSE)]
  /\ UNCHANGED <<file, invitation, login, request>>

\* Seeded fault: the check for an earlier acceptance is missing.
UsableUnlessRevoked(i) == invitation[i] # "closed"

Usable(i) == invitation[i] = "open"

AcceptRefused(c) ==
  /\ ConnectionFree
  /\ callback[c].phase = "exchange" /\ callback[c].context.type = "invitation"
  /\ ~Usable(callback[c].context.invitation)
  /\ Reject(c)
  /\ UNCHANGED <<file, ownerToken, owner, membership, invitation, login, request>>

\* The membership takes the invitation's role whatever it was before.
Accept(c, u) ==
  /\ ConnectionFree
  /\ callback[c].phase = "exchange" /\ callback[c].context.type = "invitation"
  /\ Usable(callback[c].context.invitation)
  /\ membership' = [membership EXCEPT ![u] = InvitedRole[callback[c].context.invitation]]
  /\ invitation' = [invitation EXCEPT ![callback[c].context.invitation] = u]
  /\ callback' = [callback EXCEPT ![c] = SignedIn(c, u, FALSE)]
  /\ UNCHANGED <<file, ownerToken, owner, login, request>>

-----------------------------------------------------------------------------
(* Requests of a signed-in administrator                                   *)

\* canAdministerMembers for a user as the database has it now.
MayAdminister(u) == IF owner = Nothing THEN membership[u] = "admin"
                    ELSE u = owner /\ membership[u] # "none"

\* The permission check before the handler's write. The routes of invitations
\* write after it without looking again.
Authorize(c) ==
  /\ ConnectionFree
  /\ request = Nothing
  /\ callback[c].phase = "signedIn"
  /\ MayAdminister(callback[c].user)
  /\ request' = callback[c].user
  /\ UNCHANGED <<file, ownerToken, owner, membership, invitation, login, callback>>

CreateInvitation(i) ==
  /\ ConnectionFree
  /\ request # Nothing
  /\ invitation[i] = "absent"
  /\ invitation' = [invitation EXCEPT ![i] = "open"]
  /\ request' = Nothing
  /\ UNCHANGED <<file, ownerToken, owner, membership, login, callback>>

Revocable(i) == invitation[i] = "open"

RevokeInvitation(i) ==
  /\ ConnectionFree
  /\ request # Nothing
  /\ Revocable(i)
  /\ invitation' = [invitation EXCEPT ![i] = "closed"]
  /\ request' = Nothing
  /\ UNCHANGED <<file, ownerToken, owner, membership, login, callback>>

\* Seeded fault: the transaction trusts the check made before it.
AuthorizedOnce == TRUE

\* assertCanAdministerMembers inside the transaction: the owner is read again,
\* the role is the one the request was authorized with.
StillMayAdminister == owner = Nothing \/ request = owner

SetRole(u, role) ==
  /\ ConnectionFree
  /\ request # Nothing /\ request # u
  /\ StillMayAdminister
  /\ membership' = [membership EXCEPT ![u] = role]
  /\ request' = Nothing
  /\ UNCHANGED <<file, ownerToken, owner, invitation, login, callback>>

\* History: what u's callbacks saw of the membership is out of date.
MarkedStale(u) == [c \in Callbacks |->
  IF callback[c].user = u /\ callback[c].phase \in {"admitted", "signedIn"}
    THEN [callback[c] EXCEPT !.stale = TRUE] ELSE callback[c]]

\* Seeded fault: removing a member leaves the sessions alone.
SessionsKept(callbacks, u) == callbacks

SessionsRevoked(callbacks, u) == [c \in Callbacks |->
  IF callbacks[c].user = u /\ callbacks[c].phase = "signedIn" THEN Blank ELSE callbacks[c]]

RemoveMember(u) ==
  /\ ConnectionFree
  /\ request # Nothing /\ request # u
  /\ StillMayAdminister
  /\ membership' = [membership EXCEPT ![u] = "none"]
  /\ callback' = SessionsRevoked(MarkedStale(u), u)
  /\ request' = Nothing
  /\ UNCHANGED <<file, ownerToken, owner, invitation, login>>

\* The request ends in an error or changes nothing.
RequestRefused ==
  /\ request # Nothing
  /\ request' = Nothing
  /\ UNCHANGED <<file, ownerToken, owner, membership, invitation, login, callback>>

-----------------------------------------------------------------------------
(* Time, the operator and the process                                      *)

LoginExpires(l) ==
  /\ login[l] # Nothing
  /\ login' = [login EXCEPT ![l] = Nothing]
  /\ UNCHANGED <<file, ownerToken, owner, membership, invitation, callback, request>>

InvitationExpires(i) ==
  /\ invitation[i] = "open"
  /\ invitation' = [invitation EXCEPT ![i] = "closed"]
  /\ UNCHANGED <<file, ownerToken, owner, membership, login, callback, request>>

\* Logout or the end of the session's lifetime.
SessionEnds(c) ==
  /\ callback[c].phase = "signedIn"
  /\ Reject(c)
  /\ UNCHANGED <<file, ownerToken, owner, membership, invitation, login, request>>

\* The operator mounts a value, or replaces the one mounted.
MountToken(t) ==
  /\ file # t
  /\ file' = t
  /\ UNCHANGED <<ownerToken, owner, membership, invitation, login, callback, request>>

\* The file is removed, or its lifetime runs out and with it that of its row.
TokenLapses ==
  /\ file # Nothing
  /\ file' = Nothing
  /\ \/ ownerToken' = ownerToken
     \/ /\ ownerToken[file] = "open"
        /\ ownerToken' = [ownerToken EXCEPT ![file] = "spent"]
  /\ UNCHANGED <<owner, membership, invitation, login, callback, request>>

\* A restart loses the requests under way and rolls their transactions back.
Restart ==
  /\ \/ \E c \in Callbacks : InFlight(c)
     \/ request # Nothing
  /\ callback' = [c \in Callbacks |-> IF InFlight(c) THEN Blank ELSE callback[c]]
  /\ request' = Nothing
  /\ UNCHANGED <<file, ownerToken, owner, membership, invitation, login>>

-----------------------------------------------------------------------------
CallbackStep(c) ==
  \/ ExchangeFails(c) \/ SecondCheck(c) \/ CreateSession(c)
  \/ ClaimRefused(c) \/ AcceptRefused(c)
  \/ \E u \in Users : FirstCheck(c, u) \/ ClaimStale(c, u) \/ Claim(c, u) \/ Accept(c, u)

BrowserNext ==
  \/ \E l \in Logins :
       \/ StartLogin(l) \/ LoginExpires(l)
       \/ \E t \in Tokens : StartSetup(l, t)
       \/ \E i \in Invitations : StartInvitation(l, i)
       \/ \E c \in Callbacks : Consume(c, l)
  \/ \E c \in Callbacks : CallbackStep(c) \/ SessionEnds(c)

AdminNext ==
  \/ \E c \in Callbacks : Authorize(c)
  \/ \E i \in Invitations : CreateInvitation(i) \/ RevokeInvitation(i) \/ InvitationExpires(i)
  \/ \E u \in Users : RemoveMember(u) \/ \E role \in Roles : SetRole(u, role)
  \/ RequestRefused

OperatorNext ==
  \/ \E t \in Tokens : OpenSetupPage(t) \/ MountToken(t)
  \/ TokenLapses
  \/ Restart

Next == BrowserNext \/ AdminNext \/ OperatorNext

Spec == Init /\ [][Next]_vars

\* A request handler runs on until it answers, as the event loop and the time
\* limits of the provider's client have it. Nobody owes a click, a mount or a
\* restart.
FairSpec == Spec /\ \A c \in Callbacks : WF_vars(CallbackStep(c))

-----------------------------------------------------------------------------
\* Every variable has its type.
TypeOK ==
  /\ file \in Tokens \cup {Nothing}
  /\ ownerToken \in [Tokens -> {"absent", "open", "spent"}]
  /\ owner \in Users \cup {Nothing}
  /\ membership \in [Users -> Roles \cup {"none"}]
  /\ invitation \in [Invitations -> {"absent", "open", "closed"} \cup Users]
  /\ login \in [Logins -> Contexts \cup {Nothing}]
  /\ callback \in [Callbacks -> CallbackState]
  /\ request \in Users \cup {Nothing}

\* An installation has one owner for good: two people who both began the setup
\* while there was none, with the same or with different tokens, do not both
\* claim it (consumeAndClaim looks again inside its transaction).
OwnerIsForever == [][owner # Nothing => owner' = owner]_vars

\* The owner always keeps a membership: not even an administrator whose request
\* was authorized before the owner claimed the installation removes it
\* (removeMember reads the owner again inside its transaction).
OwnerKeepsAccess == owner # Nothing => membership[owner] # "none"

\* An invitation that was accepted, revoked or has expired stays so: of all the
\* logins started with one link at most one is admitted, and a revocation that
\* comes late does not rewrite an acceptance.
InvitationSettlesOnce ==
  [][\A i \in Invitations :
       invitation[i] \notin {"absent", "open"} => invitation'[i] = invitation[i]]_vars

\* No two callbacks work on one login state, however often it is replayed.
LoginAnsweredOnce ==
  \A c, d \in Callbacks :
    c # d /\ callback[c].login # Nothing => callback[d].login # callback[c].login

\* A session created by owner setup or by an invitation does not outlive the
\* membership it came with: the transaction that ends the one ends the other.
OnboardingSessionsAreCurrent ==
  \A c \in Callbacks :
    callback[c].phase = "signedIn" /\ callback[c].context.type # "normal" => ~callback[c].stale

\* docs/security.md: restoring access after a removal requires a new login. A
\* session that was not revoked by the removal must not open the workspace.
RestoredAccessNeedsLogin ==
  \A c \in Callbacks :
    callback[c].phase = "signedIn" /\ callback[c].stale => membership[callback[c].user] = "none"

\* docs/configuration.md: replacing or removing the mounted token invalidates
\* any unfinished setup flow. Its callback must be answered with an error.
UnfinishedSetupEnds ==
  \A c \in Callbacks :
    /\ callback[c].phase = "exchange"
    /\ callback[c].context.type = "owner_setup"
    /\ file # callback[c].context.token
    ~> ~InFlight(c)
=============================================================================
