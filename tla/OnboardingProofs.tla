---------------------------- MODULE OnboardingProofs ----------------------------
(***************************************************************************)
(* Proofs about Onboarding for any number of identities, tokens,           *)
(* invitations, login states and callbacks.                                *)
(***************************************************************************)
EXTENDS Onboarding, TLAPS

-----------------------------------------------------------------------------
(* The inductive invariant.                                                *)

\* A login state a callback works on has been consumed.
HeldIsConsumed ==
  \A c \in Callbacks : callback[c].login # Nothing => login[callback[c].login] = Nothing

IInv ==
  /\ TypeOK
  /\ HeldIsConsumed
  /\ LoginAnsweredOnce
  /\ OwnerKeepsAccess
  /\ OnboardingSessionsAreCurrent

-----------------------------------------------------------------------------
(* Lemmas about the states of a callback.                                  *)

\* A callback that is not under way has the type of one.
LEMMA BlankType == Blank \in CallbackState
  BY DEF CallbackState

\* A callback that has consumed a login has its type.
LEMMA ExchangeType ==
  ASSUME NEW l \in Logins, NEW x \in Contexts
  PROVE  [Blank EXCEPT !.phase = "exchange", !.login = l, !.context = x] \in CallbackState
  BY DEF CallbackState, Blank, Exchanging

\* A signed-in callback has its type.
LEMMA SignedInType ==
  ASSUME NEW c \in Callbacks, NEW u \in Users, callback[c].context \in Contexts,
         NEW stale \in BOOLEAN
  PROVE  SignedIn(c, u, stale) \in CallbackState
  BY DEF CallbackState, Sessions, SignedIn

\* The phase of a callback tells which fields it has.
LEMMA PhaseTypes ==
  ASSUME NEW r \in CallbackState
  PROVE  /\ r.phase = "exchange" => r \in Exchanging
         /\ r.phase \in {"checked", "admitted"} => r \in Checking
         /\ r.phase = "stuck" => r \in Waiting
         /\ r.phase = "signedIn" => r \in Sessions
  <1>1. r = Blank => r.phase = "idle"
    BY DEF Blank
  <1>2. /\ r \in Exchanging => r.phase = "exchange"
        /\ r \in Waiting => r.phase = "stuck"
        /\ r \in Sessions => r.phase = "signedIn"
    BY DEF Exchanging, Waiting, Sessions
  <1>3. r \in Checking => r.phase \in {"checked", "admitted"}
    BY DEF Checking
  <1>4. r = Blank \/ r \in Exchanging \/ r \in Checking \/ r \in Waiting \/ r \in Sessions
    BY DEF CallbackState
  <1>. QED  BY <1>1, <1>2, <1>3, <1>4

\* What a callback in the exchange is about: a normal login, a token or an invitation.
LEMMA ContextOfExchange ==
  ASSUME TypeOK, NEW c \in Callbacks, callback[c].phase = "exchange"
  PROVE  /\ callback[c] \in Exchanging
         /\ callback[c].context \in Contexts
         /\ callback[c].context.type = "normal" => callback[c].context = Normal
         /\ callback[c].context.type = "owner_setup" => callback[c].context.token \in Tokens
         /\ callback[c].context.type = "invitation" => callback[c].context.invitation \in Invitations
  <1>1. callback[c] \in Exchanging
    BY PhaseTypes DEF TypeOK
  <1>2. callback[c].context \in Contexts
    BY <1>1 DEF Exchanging
  <1>. QED  BY <1>1, <1>2 DEF Contexts, Normal

\* A denial keeps the types.
LEMMA DenyType ==
  ASSUME TypeOK, NEW c \in Callbacks, NEW d \in Callbacks, Deny(c, d)
  PROVE  callback' \in [Callbacks -> CallbackState]
  BY BlankType DEF TypeOK, Deny

\* A rejection keeps the types.
LEMMA RejectType ==
  ASSUME TypeOK, NEW c \in Callbacks, Reject(c)
  PROVE  callback' \in [Callbacks -> CallbackState]
  BY BlankType DEF TypeOK, Reject

-----------------------------------------------------------------------------
\* The invariant holds at first.
LEMMA InitInv == Init => IInv
  <1>. SUFFICES ASSUME Init PROVE IInv
    OBVIOUS
  <1>1. TypeOK
    BY BlankType DEF Init, TypeOK
  <1>2. HeldIsConsumed /\ LoginAnsweredOnce /\ OnboardingSessionsAreCurrent
    BY DEF Init, HeldIsConsumed, LoginAnsweredOnce, OnboardingSessionsAreCurrent, Blank
  <1>3. OwnerKeepsAccess
    BY DEF Init, OwnerKeepsAccess
  <1>. QED  BY <1>1, <1>2, <1>3 DEF IInv

\* Every step keeps the types.
LEMMA TypeStep == TypeOK /\ [Next]_vars => TypeOK'
  <1>. SUFFICES ASSUME TypeOK, [Next]_vars PROVE TypeOK'
    OBVIOUS
  <1>. USE DEF TypeOK
  <1>1. ASSUME NEW l \in Logins, StartLogin(l) PROVE TypeOK'
    BY <1>1 DEF StartLogin, Contexts, Normal
  <1>2. ASSUME NEW l \in Logins, LoginExpires(l) PROVE TypeOK'
    BY <1>2 DEF LoginExpires
  <1>3. ASSUME NEW l \in Logins, NEW t \in Tokens, StartSetup(l, t) PROVE TypeOK'
    BY <1>3 DEF StartSetup, Begun, Contexts
  <1>4. ASSUME NEW l \in Logins, NEW i \in Invitations, StartInvitation(l, i) PROVE TypeOK'
    BY <1>4 DEF StartInvitation, Contexts
  <1>5. ASSUME NEW l \in Logins, NEW c \in Callbacks, Consume(c, l) PROVE TypeOK'
    <2>1. login[l] \in Contexts
      BY <1>5 DEF Consume
    <2>2. callback' \in [Callbacks -> CallbackState]
      BY <1>5, <2>1, ExchangeType DEF Consume
    <2>. QED  BY <1>5, <2>2 DEF Consume, Consumed
  <1>6. ASSUME NEW c \in Callbacks, ExchangeFails(c) PROVE TypeOK'
    BY <1>6, RejectType DEF ExchangeFails
  <1>7. ASSUME NEW c \in Callbacks, NEW u \in Users, FirstCheck(c, u) PROVE TypeOK'
    <2>1. CASE \E d \in Callbacks : Deny(c, d)
      BY <1>7, <2>1, DenyType DEF FirstCheck
    <2>2. CASE callback' = [callback EXCEPT ![c] = [@ EXCEPT !.phase = "checked", !.user = u]]
      <3>1. callback[c] \in Exchanging /\ callback[c].context = Normal
        BY <1>7, ContextOfExchange DEF FirstCheck
      <3>2. [callback[c] EXCEPT !.phase = "checked", !.user = u] \in Checking
        BY <3>1 DEF Exchanging, Checking
      <3>. QED  BY <1>7, <2>2, <3>2 DEF FirstCheck, CallbackState
    <2>. QED  BY <1>7, <2>1, <2>2 DEF FirstCheck
  <1>8. ASSUME NEW c \in Callbacks, SecondCheck(c) PROVE TypeOK'
    <2>1. CASE \E d \in Callbacks : Deny(c, d)
      BY <1>8, <2>1, DenyType DEF SecondCheck
    <2>2. CASE callback' = [callback EXCEPT ![c] = [@ EXCEPT !.phase = "admitted"]]
      <3>1. callback[c] \in Checking
        BY <1>8, PhaseTypes DEF SecondCheck
      <3>2. [callback[c] EXCEPT !.phase = "admitted"] \in Checking
        BY <3>1 DEF Checking
      <3>. QED  BY <1>8, <2>2, <3>2 DEF SecondCheck, CallbackState
    <2>. QED  BY <1>8, <2>1, <2>2 DEF SecondCheck
  <1>9. ASSUME NEW c \in Callbacks, CreateSession(c) PROVE TypeOK'
    <2>1. callback[c] \in Checking
      BY <1>9, PhaseTypes DEF CreateSession
    <2>2. callback[c].context \in Contexts /\ callback[c].user \in Users
          /\ callback[c].stale \in BOOLEAN
      BY <2>1 DEF Checking, Contexts, Normal
    <2>3. SignedIn(c, callback[c].user, callback[c].stale) \in CallbackState
      BY <2>2, SignedInType
    <2>. QED  BY <1>9, <2>3 DEF CreateSession
  <1>10. ASSUME NEW c \in Callbacks, NEW u \in Users, ClaimStale(c, u) PROVE TypeOK'
    <2>1. callback[c] \in Exchanging
      BY <1>10, ContextOfExchange DEF ClaimStale
    <2>2. [callback[c] EXCEPT !.phase = "stuck", !.user = u] \in Waiting
      BY <2>1 DEF Exchanging, Waiting
    <2>. QED  BY <1>10, <2>2 DEF ClaimStale, CallbackState
  <1>11. ASSUME NEW c \in Callbacks, ClaimRefused(c) PROVE TypeOK'
    BY <1>11, RejectType DEF ClaimRefused
  <1>12. ASSUME NEW c \in Callbacks, NEW u \in Users, Claim(c, u) PROVE TypeOK'
    <2>1. SignedIn(c, u, FALSE) \in CallbackState
      BY <1>12, ContextOfExchange, SignedInType DEF Claim
    <2>. QED  BY <1>12, <2>1 DEF Claim, Roles
  <1>13. ASSUME NEW c \in Callbacks, AcceptRefused(c) PROVE TypeOK'
    BY <1>13, RejectType DEF AcceptRefused
  <1>14. ASSUME NEW c \in Callbacks, NEW u \in Users, Accept(c, u) PROVE TypeOK'
    <2>1. SignedIn(c, u, FALSE) \in CallbackState /\ callback[c].context.invitation \in Invitations
      BY <1>14, ContextOfExchange, SignedInType DEF Accept
    <2>. QED  BY <1>14, <2>1, RoleAssumption DEF Accept
  <1>15. ASSUME NEW c \in Callbacks, Authorize(c) PROVE TypeOK'
    <2>1. callback[c] \in Sessions
      BY <1>15, PhaseTypes DEF Authorize
    <2>. QED  BY <1>15, <2>1 DEF Authorize, Sessions
  <1>16. ASSUME NEW i \in Invitations,
                CreateInvitation(i) \/ RevokeInvitation(i) \/ InvitationExpires(i)
         PROVE  TypeOK'
    BY <1>16 DEF CreateInvitation, RevokeInvitation, InvitationExpires
  <1>17. ASSUME NEW u \in Users, NEW role \in Roles, SetRole(u, role) PROVE TypeOK'
    BY <1>17 DEF SetRole
  <1>18. ASSUME NEW u \in Users, RemoveMember(u) PROVE TypeOK'
    <2>1. \A c \in Callbacks : MarkedStale(u)[c] \in CallbackState
      <3>. SUFFICES ASSUME NEW c \in Callbacks, callback[c].phase \in {"admitted", "signedIn"}
                    PROVE  [callback[c] EXCEPT !.stale = TRUE] \in CallbackState
        BY DEF MarkedStale
      <3>1. callback[c] \in Checking \cup Sessions
        BY PhaseTypes
      <3>. QED  BY <3>1 DEF Checking, Sessions, CallbackState
    <2>2. callback' \in [Callbacks -> CallbackState]
      BY <1>18, <2>1, BlankType DEF RemoveMember, SessionsRevoked
    <2>. QED  BY <1>18, <2>2 DEF RemoveMember
  <1>19. ASSUME RequestRefused PROVE TypeOK'
    BY <1>19 DEF RequestRefused
  <1>20. ASSUME NEW c \in Callbacks, SessionEnds(c) PROVE TypeOK'
    BY <1>20, RejectType DEF SessionEnds
  <1>21. ASSUME NEW t \in Tokens, OpenSetupPage(t) PROVE TypeOK'
    BY <1>21 DEF OpenSetupPage, Begun
  <1>22. ASSUME NEW t \in Tokens, MountToken(t) PROVE TypeOK'
    BY <1>22 DEF MountToken
  <1>23. ASSUME TokenLapses PROVE TypeOK'
    BY <1>23 DEF TokenLapses
  <1>24. ASSUME Restart PROVE TypeOK'
    BY <1>24, BlankType DEF Restart
  <1>25. ASSUME UNCHANGED vars PROVE TypeOK'
    BY <1>25 DEF vars
  <1>. QED
    BY <1>1, <1>2, <1>3, <1>4, <1>5, <1>6, <1>7, <1>8, <1>9, <1>10, <1>11, <1>12, <1>13, <1>14,
       <1>15, <1>16, <1>17, <1>18, <1>19, <1>20, <1>21, <1>22, <1>23, <1>24, <1>25
    DEF Next, BrowserNext, AdminNext, OperatorNext, CallbackStep

-----------------------------------------------------------------------------
(* The login states callbacks work on.                                     *)

\* All steps but the consumption of a login state: callbacks keep the state
\* they work on or give it up, and only free slots are filled.
KeepsLogins ==
  /\ \A c \in Callbacks : callback'[c].login \in {callback[c].login, Nothing}
  /\ \A l \in Logins : login'[l] \in {login[l], Nothing} \/ FreeSlot(l)

\* A callback that is not under way has no login.
LEMMA BlankLogin == Blank.login = Nothing
  BY DEF Blank

\* The login of a callback has its type.
LEMMA LoginType == TypeOK => \A c \in Callbacks : callback[c].login \in Logins \cup {Nothing}
  <1>1. \A r \in Exchanging \cup Checking \cup Waiting \cup Sessions : r.login \in Logins \cup {Nothing}
    BY DEF Exchanging, Checking, Waiting, Sessions
  <1>. QED  BY <1>1, BlankLogin DEF TypeOK, CallbackState

\* A denial or rejection gives no callback another login.
LEMMA DenyKeeps ==
  ASSUME NEW c \in Callbacks, NEW d \in Callbacks, Deny(c, d) \/ Reject(c), TypeOK
  PROVE  \A x \in Callbacks : callback'[x].login \in {callback[x].login, Nothing}
  BY BlankLogin DEF Deny, Reject, TypeOK

\* Steps that consume no login keep each with one callback, and consumed.
LEMMA KeptLoginsStep ==
  ASSUME TypeOK, HeldIsConsumed, LoginAnsweredOnce, KeepsLogins
  PROVE  HeldIsConsumed' /\ LoginAnsweredOnce'
  <1>1. HeldIsConsumed'
    <2>. SUFFICES ASSUME NEW c \in Callbacks, callback'[c].login # Nothing
                  PROVE  login'[callback'[c].login] = Nothing
      BY DEF HeldIsConsumed
    <2>1. callback'[c].login = callback[c].login /\ callback[c].login \in Logins
      BY LoginType DEF KeepsLogins
    <2>2. login[callback[c].login] = Nothing
      BY <2>1 DEF HeldIsConsumed
    <2>3. ~FreeSlot(callback[c].login)
      BY DEF FreeSlot
    <2>. QED  BY <2>1, <2>2, <2>3 DEF KeepsLogins
  <1>2. LoginAnsweredOnce'
    BY DEF KeepsLogins, LoginAnsweredOnce
  <1>. QED  BY <1>1, <1>2

\* Consuming a login keeps each with one callback, and consumed.
LEMMA ConsumeStep ==
  ASSUME TypeOK, HeldIsConsumed, LoginAnsweredOnce,
         NEW l \in Logins, NEW c \in Callbacks, Consume(c, l)
  PROVE  HeldIsConsumed' /\ LoginAnsweredOnce'
  <1>1. \A d \in Callbacks : callback[d].login # l
    BY NothingAssumption DEF Consume, HeldIsConsumed
  <1>2. /\ callback'[c].login = l
        /\ \A d \in Callbacks \ {c} : callback'[d] = callback[d]
    BY DEF Consume, TypeOK, Blank
  <1>3. login' = [login EXCEPT ![l] = Nothing]
    BY DEF Consume, Consumed
  <1>4. HeldIsConsumed'
    <2>. SUFFICES ASSUME NEW d \in Callbacks, callback'[d].login # Nothing
                  PROVE  login'[callback'[d].login] = Nothing
      BY DEF HeldIsConsumed
    <2>1. CASE d = c
      BY <2>1, <1>2, <1>3 DEF TypeOK
    <2>2. CASE d # c
      BY <2>2, <1>2, <1>3, LoginType DEF TypeOK, HeldIsConsumed
    <2>. QED  BY <2>1, <2>2
  <1>5. LoginAnsweredOnce'
    BY <1>1, <1>2 DEF LoginAnsweredOnce
  <1>. QED  BY <1>4, <1>5

\* Every step keeps each login with one callback.
LEMMA LoginStep ==
  TypeOK /\ HeldIsConsumed /\ LoginAnsweredOnce /\ [Next]_vars
    => HeldIsConsumed' /\ LoginAnsweredOnce'
  <1>. SUFFICES ASSUME TypeOK, HeldIsConsumed, LoginAnsweredOnce, [Next]_vars
                PROVE  HeldIsConsumed' /\ LoginAnsweredOnce'
    OBVIOUS
  <1>1. ASSUME NEW l \in Logins,
               \/ StartLogin(l) \/ LoginExpires(l)
               \/ \E t \in Tokens : StartSetup(l, t)
               \/ \E i \in Invitations : StartInvitation(l, i)
        PROVE  KeepsLogins
    BY <1>1 DEF StartLogin, LoginExpires, StartSetup, StartInvitation, KeepsLogins, TypeOK
  <1>2. ASSUME NEW c \in Callbacks,
               ExchangeFails(c) \/ ClaimRefused(c) \/ AcceptRefused(c) \/ SessionEnds(c)
        PROVE  KeepsLogins
    BY <1>2, DenyKeeps DEF ExchangeFails, ClaimRefused, AcceptRefused, SessionEnds, KeepsLogins
  <1>3. ASSUME NEW c \in Callbacks, NEW u \in Users, FirstCheck(c, u) PROVE KeepsLogins
    <2>1. CASE \E d \in Callbacks : Deny(c, d)
      BY <1>3, <2>1, DenyKeeps DEF FirstCheck, KeepsLogins
    <2>2. CASE callback' = [callback EXCEPT ![c] = [@ EXCEPT !.phase = "checked", !.user = u]]
      <3>1. callback[c] \in Exchanging
        BY <1>3, ContextOfExchange DEF FirstCheck
      <3>2. [callback[c] EXCEPT !.phase = "checked", !.user = u].login = callback[c].login
        BY <3>1 DEF Exchanging
      <3>. QED  BY <1>3, <2>2, <3>2 DEF FirstCheck, KeepsLogins, TypeOK
    <2>. QED  BY <1>3, <2>1, <2>2 DEF FirstCheck
  <1>4. ASSUME NEW c \in Callbacks, SecondCheck(c) PROVE KeepsLogins
    <2>1. CASE \E d \in Callbacks : Deny(c, d)
      BY <1>4, <2>1, DenyKeeps DEF SecondCheck, KeepsLogins
    <2>2. CASE callback' = [callback EXCEPT ![c] = [@ EXCEPT !.phase = "admitted"]]
      <3>1. callback[c] \in Checking
        BY <1>4, PhaseTypes DEF SecondCheck, TypeOK
      <3>2. [callback[c] EXCEPT !.phase = "admitted"].login = callback[c].login
        BY <3>1 DEF Checking
      <3>. QED  BY <1>4, <2>2, <3>2 DEF SecondCheck, KeepsLogins, TypeOK
    <2>. QED  BY <1>4, <2>1, <2>2 DEF SecondCheck
  <1>5. ASSUME NEW c \in Callbacks, CreateSession(c) PROVE KeepsLogins
    BY <1>5 DEF CreateSession, SignedIn, KeepsLogins, TypeOK
  <1>6. ASSUME NEW c \in Callbacks, NEW u \in Users, ClaimStale(c, u) PROVE KeepsLogins
    <2>1. callback[c] \in Exchanging
      BY <1>6, ContextOfExchange DEF ClaimStale
    <2>2. [callback[c] EXCEPT !.phase = "stuck", !.user = u].login = callback[c].login
      BY <2>1 DEF Exchanging
    <2>. QED  BY <1>6, <2>2 DEF ClaimStale, KeepsLogins, TypeOK
  <1>7. ASSUME NEW c \in Callbacks, NEW u \in Users, Claim(c, u) \/ Accept(c, u) PROVE KeepsLogins
    <2>1. callback' = [callback EXCEPT ![c] = SignedIn(c, u, FALSE)] /\ login' = login
      BY <1>7 DEF Claim, Accept
    <2>2. SignedIn(c, u, FALSE).login = Nothing
      BY DEF SignedIn
    <2>. QED  BY <2>1, <2>2 DEF KeepsLogins, TypeOK
  <1>8. ASSUME \/ \E c \in Callbacks : Authorize(c)
               \/ \E i \in Invitations :
                    CreateInvitation(i) \/ RevokeInvitation(i) \/ InvitationExpires(i)
               \/ \E u \in Users, role \in Roles : SetRole(u, role)
               \/ \E t \in Tokens : OpenSetupPage(t) \/ MountToken(t)
               \/ RequestRefused \/ TokenLapses \/ UNCHANGED vars
        PROVE  KeepsLogins
    BY <1>8 DEF Authorize, CreateInvitation, RevokeInvitation, InvitationExpires, SetRole,
                OpenSetupPage, MountToken, RequestRefused, TokenLapses, vars, KeepsLogins
  <1>9. ASSUME NEW u \in Users, RemoveMember(u) PROVE KeepsLogins
    <2>1. \A c \in Callbacks : MarkedStale(u)[c].login = callback[c].login
      <3>. SUFFICES ASSUME NEW c \in Callbacks, callback[c].phase \in {"admitted", "signedIn"}
                    PROVE  [callback[c] EXCEPT !.stale = TRUE].login = callback[c].login
        BY DEF MarkedStale
      <3>1. callback[c] \in Checking \cup Sessions
        BY PhaseTypes DEF TypeOK
      <3>. QED  BY <3>1 DEF Checking, Sessions
    <2>. QED  BY <1>9, <2>1, BlankLogin DEF RemoveMember, SessionsRevoked, KeepsLogins
  <1>10. ASSUME Restart PROVE KeepsLogins
    BY <1>10, BlankLogin DEF Restart, KeepsLogins
  <1>. QED
    BY <1>1, <1>2, <1>3, <1>4, <1>5, <1>6, <1>7, <1>8, <1>9, <1>10, KeptLoginsStep, ConsumeStep
    DEF Next, BrowserNext, AdminNext, OperatorNext, CallbackStep

-----------------------------------------------------------------------------
(* The owner and the sessions.                                             *)

\* Every step keeps the owner a member.
LEMMA OwnerStep ==
  TypeOK /\ OwnerKeepsAccess /\ [Next]_vars => OwnerKeepsAccess'
  <1>. SUFFICES ASSUME TypeOK, OwnerKeepsAccess, [Next]_vars PROVE OwnerKeepsAccess'
    OBVIOUS
  <1>. USE DEF OwnerKeepsAccess
  <1>1. ASSUME UNCHANGED <<owner, membership>> PROVE OwnerKeepsAccess'
    BY <1>1
  <1>2. ASSUME NEW c \in Callbacks, NEW u \in Users, Claim(c, u) PROVE OwnerKeepsAccess'
    BY <1>2 DEF Claim, TypeOK
  <1>3. ASSUME NEW c \in Callbacks, NEW u \in Users, Accept(c, u) PROVE OwnerKeepsAccess'
    <2>1. InvitedRole[callback[c].context.invitation] \in Roles
      BY <1>3, ContextOfExchange, RoleAssumption DEF Accept
    <2>. QED  BY <1>3, <2>1 DEF Accept, TypeOK, Roles
  <1>4. ASSUME NEW u \in Users, NEW role \in Roles, SetRole(u, role) PROVE OwnerKeepsAccess'
    BY <1>4 DEF SetRole, TypeOK, Roles
  <1>5. ASSUME NEW u \in Users, RemoveMember(u) PROVE OwnerKeepsAccess'
    BY <1>5 DEF RemoveMember, StillMayAdminister, TypeOK
  <1>. QED
    BY <1>1, <1>2, <1>3, <1>4, <1>5
    DEF Next, BrowserNext, AdminNext, OperatorNext, CallbackStep, StartLogin, LoginExpires,
        StartSetup, StartInvitation, Consume, ExchangeFails, SecondCheck, CreateSession,
        ClaimRefused, AcceptRefused, FirstCheck, ClaimStale, SessionEnds, Authorize,
        CreateInvitation, RevokeInvitation, InvitationExpires, RequestRefused, OpenSetupPage,
        MountToken, TokenLapses, Restart, vars

\* Every step keeps sessions with their memberships.
LEMMA SessionStep ==
  TypeOK /\ OnboardingSessionsAreCurrent /\ [Next]_vars => OnboardingSessionsAreCurrent'
  <1>. DEFINE Current(r) == r.phase = "signedIn" /\ r.context.type # "normal" => ~r.stale
  <1>. SUFFICES ASSUME TypeOK, OnboardingSessionsAreCurrent, [Next]_vars, NEW x \in Callbacks
                PROVE  Current(callback'[x])
    BY DEF OnboardingSessionsAreCurrent
  <1>0. Current(callback[x]) /\ Current(Blank)
    BY DEF OnboardingSessionsAreCurrent, Blank
  <1>1. ASSUME UNCHANGED callback PROVE Current(callback'[x])
    BY <1>1, <1>0
  <1>2. ASSUME NEW c \in Callbacks, NEW d \in Callbacks, Deny(c, d) \/ Reject(c)
        PROVE  Current(callback'[x])
    BY <1>2, <1>0 DEF Deny, Reject, TypeOK
  <1>3. ASSUME NEW c \in Callbacks, NEW r, callback' = [callback EXCEPT ![c] = r],
               r.phase = "signedIn" => r.context = Normal \/ ~r.stale
        PROVE  Current(callback'[x])
    BY <1>3, <1>0 DEF TypeOK, Normal
  <1>4. ASSUME NEW l \in Logins, NEW c \in Callbacks, Consume(c, l) PROVE Current(callback'[x])
    BY <1>4, <1>3 DEF Consume, Blank
  <1>5. ASSUME NEW c \in Callbacks, NEW u \in Users, FirstCheck(c, u) PROVE Current(callback'[x])
    <2>1. callback[c] \in Exchanging
      BY <1>5, ContextOfExchange DEF FirstCheck
    <2>2. [callback[c] EXCEPT !.phase = "checked", !.user = u].phase = "checked"
      BY <2>1 DEF Exchanging
    <2>. QED  BY <1>5, <1>2, <1>3, <2>2 DEF FirstCheck
  <1>6. ASSUME NEW c \in Callbacks, SecondCheck(c) PROVE Current(callback'[x])
    <2>1. callback[c] \in Checking
      BY <1>6, PhaseTypes DEF SecondCheck, TypeOK
    <2>2. [callback[c] EXCEPT !.phase = "admitted"].phase = "admitted"
      BY <2>1 DEF Checking
    <2>. QED  BY <1>6, <1>2, <1>3, <2>2 DEF SecondCheck
  <1>7. ASSUME NEW c \in Callbacks, CreateSession(c) PROVE Current(callback'[x])
    <2>1. callback[c].context = Normal
      BY <1>7, PhaseTypes DEF CreateSession, TypeOK, Checking
    <2>. QED  BY <1>7, <1>3, <2>1 DEF CreateSession, SignedIn
  <1>8. ASSUME NEW c \in Callbacks, NEW u \in Users, ClaimStale(c, u) PROVE Current(callback'[x])
    <2>1. callback[c] \in Exchanging
      BY <1>8, ContextOfExchange DEF ClaimStale
    <2>2. [callback[c] EXCEPT !.phase = "stuck", !.user = u].phase = "stuck"
      BY <2>1 DEF Exchanging
    <2>. QED  BY <1>8, <1>3, <2>2 DEF ClaimStale
  <1>9. ASSUME NEW c \in Callbacks, NEW u \in Users, Claim(c, u) \/ Accept(c, u)
        PROVE  Current(callback'[x])
    BY <1>9, <1>3 DEF Claim, Accept, SignedIn
  <1>10. ASSUME NEW u \in Users, RemoveMember(u) PROVE Current(callback'[x])
    <2>1. CASE callback[x].user = u /\ callback[x].phase = "signedIn"
      <3>1. callback[x] \in Sessions
        BY <2>1, PhaseTypes DEF TypeOK
      <3>2. MarkedStale(u)[x].user = u /\ MarkedStale(u)[x].phase = "signedIn"
        BY <2>1, <3>1 DEF MarkedStale, Sessions
      <3>. QED  BY <1>10, <1>0, <3>2 DEF RemoveMember, SessionsRevoked
    <2>2. CASE callback[x].user = u /\ callback[x].phase = "admitted"
      <3>1. callback[x] \in Checking
        BY <2>2, PhaseTypes DEF TypeOK
      <3>2. MarkedStale(u)[x].phase = "admitted"
        BY <2>2, <3>1 DEF MarkedStale, Checking
      <3>. QED  BY <1>10, <3>2 DEF RemoveMember, SessionsRevoked
    <2>3. CASE ~(callback[x].user = u /\ callback[x].phase \in {"admitted", "signedIn"})
      BY <1>10, <1>0, <2>3 DEF RemoveMember, SessionsRevoked, MarkedStale
    <2>. QED  BY <2>1, <2>2, <2>3
  <1>11. ASSUME Restart PROVE Current(callback'[x])
    BY <1>11, <1>0 DEF Restart
  <1>. HIDE DEF Current
  <1>. QED
    BY <1>1, <1>2, <1>4, <1>5, <1>6, <1>7, <1>8, <1>9, <1>10, <1>11
    DEF Next, BrowserNext, AdminNext, OperatorNext, CallbackStep, StartLogin, LoginExpires,
        StartSetup, StartInvitation, ExchangeFails, ClaimRefused, AcceptRefused, SessionEnds,
        Authorize, CreateInvitation, RevokeInvitation, InvitationExpires, RequestRefused,
        SetRole, OpenSetupPage, MountToken, TokenLapses, vars

-----------------------------------------------------------------------------
(* The theorems.                                                           *)

\* The invariant holds throughout.
LEMMA Invariance == Spec => []IInv
  <1>1. IInv /\ [Next]_vars => IInv'
    BY TypeStep, LoginStep, OwnerStep, SessionStep DEF IInv
  <1>. QED  BY InitInv, <1>1, PTL DEF Spec

\* Every reachable state of onboarding is type correct.
THEOREM TypeCorrect == Spec => []TypeOK
  <1>1. IInv => TypeOK
    BY DEF IInv
  <1>. QED  BY Invariance, <1>1, PTL

\* However many administrators, requests and setups overlap, the owner of the
\* installation keeps a membership.
THEOREM OwnersStay == Spec => []OwnerKeepsAccess
  <1>1. IInv => OwnerKeepsAccess
    BY DEF IInv
  <1>. QED  BY Invariance, <1>1, PTL

\* A login state is worked on by one callback, however often it is replayed.
THEOREM LoginsAnsweredOnce == Spec => []LoginAnsweredOnce
  <1>1. IInv => LoginAnsweredOnce
    BY DEF IInv
  <1>. QED  BY Invariance, <1>1, PTL

\* A session created in the transaction of an onboarding ends with the
\* membership.
THEOREM OnboardedSessionsEnd == Spec => []OnboardingSessionsAreCurrent
  <1>1. IInv => OnboardingSessionsAreCurrent
    BY DEF IInv
  <1>. QED  BY Invariance, <1>1, PTL

\* No step replaces the owner.
THEOREM OneOwner == Spec => OwnerIsForever
  <1>1. [Next]_vars => (owner # Nothing => owner' = owner)
    BY DEF Next, BrowserNext, AdminNext, OperatorNext, CallbackStep, StartLogin, LoginExpires,
        StartSetup, StartInvitation, Consume, ExchangeFails, SecondCheck, CreateSession,
        ClaimRefused, AcceptRefused, FirstCheck, ClaimStale, SessionEnds, Authorize,
        CreateInvitation, RevokeInvitation, InvitationExpires, RequestRefused, OpenSetupPage,
        MountToken, TokenLapses, Restart, Claim, Claimable, Accept, SetRole, RemoveMember, vars
  <1>. QED  BY <1>1, PTL DEF Spec, OwnerIsForever

\* No step changes an invitation that was accepted, revoked or has expired.
THEOREM InvitationsSettle == Spec => InvitationSettlesOnce
  <1>. DEFINE Settled == \A i \in Invitations :
                           invitation[i] \notin {"absent", "open"} => invitation'[i] = invitation[i]
  <1>1. TypeOK /\ [Next]_vars => Settled
    <2>. SUFFICES ASSUME TypeOK, [Next]_vars PROVE Settled
      OBVIOUS
    <2>1. ASSUME UNCHANGED invitation PROVE Settled
      BY <2>1
    <2>2. ASSUME NEW i \in Invitations,
                 CreateInvitation(i) \/ RevokeInvitation(i) \/ InvitationExpires(i)
          PROVE  Settled
      BY <2>2 DEF CreateInvitation, RevokeInvitation, Revocable, InvitationExpires, TypeOK
    <2>3. ASSUME NEW c \in Callbacks, NEW u \in Users, Accept(c, u) PROVE Settled
      BY <2>3 DEF Accept, Usable, TypeOK
    <2>. QED
      BY <2>1, <2>2, <2>3
      DEF Next, BrowserNext, AdminNext, OperatorNext, CallbackStep, StartLogin, LoginExpires,
          StartSetup, StartInvitation, Consume, ExchangeFails, SecondCheck, CreateSession,
          ClaimRefused, AcceptRefused, FirstCheck, ClaimStale, Claim, SessionEnds, Authorize,
          SetRole, RemoveMember, RequestRefused, OpenSetupPage, MountToken, TokenLapses, Restart,
          vars
  <1>. QED  BY <1>1, TypeCorrect, PTL DEF Spec, InvitationSettlesOnce
=============================================================================
