------------------------------ MODULE RequestAccess ------------------------------
(***************************************************************************)
(* Who a request belongs to and what it may do: the hook before every      *)
(* protected route (server/authHook.ts), the claims, sessions and          *)
(* memberships it decides from (auth.ts, services/memberships.ts,          *)
(* services/users.ts), and the three other places that tell somebody what  *)
(* access there is: GET /api/session for the app (index.ts), the list of   *)
(* members, and the permission check of feeds and background jobs.         *)
(***************************************************************************)

CONSTANTS
  Users,         \* people the proxy or the provider knows
  LocalUser,     \* the user of local mode
  RecoveryUser,  \* the break-glass administrator
  Roles,         \* roles of memberships in use
  Nothing        \* absent value

RoleAssumption == "admin" \in Roles /\ Roles \subseteq {"admin", "editor", "scheduler", "viewer"}
PeopleAssumption ==
  /\ LocalUser \notin Users /\ RecoveryUser \notin Users \cup {LocalUser}
  /\ Nothing \notin Users \cup {LocalUser, RecoveryUser}

VARIABLES
  mode,        \* AUTH_MODE
  strict,      \* REQUIRE_AUTH in local mode, OIDC_REQUIRE_ROLE_CLAIM in the others
  enabled,     \* RECOVERY_ADMIN_ENABLED
  owner,       \* setting setup.ownerUserId
  membership,  \* each person's latest row of app_memberships
  session,     \* whose sessions of native OIDC are live
  recovery,    \* a session of the recovery administrator is live
  removed      \* history: removed by an owner and not admitted since

vars == <<mode, strict, enabled, owner, membership, session, recovery, removed>>

-----------------------------------------------------------------------------
People == Users \cup {LocalUser}

Modes == {"local", "proxy", "native"}

\* What the permissions of a role tell apart: looking at appointments, writing
\* them, planning and feeds, settings and logs, members, all the data.
Permissions == {"view", "write", "plan", "administer", "members", "destructive"}

RolePermissions ==
  [viewer |-> {"view"}, scheduler |-> {"view", "write"}, editor |-> {"view", "write", "plan"},
   admin |-> Permissions \ {"members", "destructive"}]

\* workspacePermissionsForRole
PermissionsForRole(role, isOwner) == IF isOwner THEN Permissions ELSE RolePermissions[role]

\* The groups of the proxy's header; "none" matches no configured one.
Groups == {"admin", "parent", "readonly", "none"}

\* workspaceRoleForLegacyRole
WorkspaceRole == [admin |-> "admin", parent |-> "editor", readonly |-> "viewer"]

\* roleFromGroups
RoleFromGroups(group) ==
  IF group # "none" THEN group ELSE IF strict THEN Nothing ELSE "parent"

\* A request: the person's headers, whether it comes from a trusted address,
\* and the cookies it carries.
Requests == [user : Users, group : Groups, trusted : BOOLEAN, cookies : SUBSET {"session", "recovery"}]

Init ==
  /\ mode \in Modes /\ strict \in BOOLEAN /\ enabled \in BOOLEAN
  /\ owner = Nothing
  /\ membership = [u \in People |-> "none"]
  /\ session = {} /\ recovery = FALSE /\ removed = {}

-----------------------------------------------------------------------------
(* Deciding on a request                                                   *)

NoOne == [user |-> Nothing, permissions |-> {}, isOwner |-> FALSE, admin |-> FALSE]

\* applyMembershipRole: the latest membership; without one the role of the
\* claims, unless there is an owner or the mode has no such fallback.
Resolved(u, legacyRole, fallback) ==
  LET role == IF membership[u] \in Roles THEN membership[u] ELSE WorkspaceRole[legacyRole] IN
  IF membership[u] = "revoked" \/ (membership[u] = "none" /\ (owner # Nothing \/ ~fallback))
    THEN [NoOne EXCEPT !.user = u]
    ELSE [user |-> u, isOwner |-> owner = u, admin |-> role = "admin",
          permissions |-> PermissionsForRole(role, owner = u \/ (owner = Nothing /\ role = "admin"))]

\* findUserByToken of the recovery administrator; what it grants is fixed.
Recovering(r) == enabled /\ recovery /\ "recovery" \in r.cookies

Breakglass == [user |-> RecoveryUser, permissions |-> Permissions, isOwner |-> TRUE, admin |-> TRUE]

\* Without a matching group only a membership helps.
RoleKnown(r) == RoleFromGroups(r.group) # Nothing \/ membership[r.user] \in Roles

ProxyRole(r) ==
  IF RoleFromGroups(r.group) = Nothing THEN "readonly" ELSE RoleFromGroups(r.group)

\* findAuthenticatedUserBySubject of the session's subject.
SessionUser(r) ==
  IF "session" \in r.cookies /\ r.user \in session
    THEN Resolved(r.user, "readonly", FALSE) ELSE NoOne

\* createApiAuthHook
Actor(r) ==
  CASE Recovering(r) -> Breakglass
    [] ~Recovering(r) /\ mode = "native" -> SessionUser(r)
    [] ~Recovering(r) /\ mode = "proxy" /\ r.trusted /\ RoleKnown(r) ->
         Resolved(r.user, ProxyRole(r), TRUE)
    [] ~Recovering(r) /\ mode = "local" /\ ~strict -> Resolved(LocalUser, "admin", TRUE)
    [] OTHER -> NoOne

\* canAdministerMembers
MayAdminister(actor) == IF owner # Nothing THEN actor.user = owner ELSE actor.admin

\* assertRequestPermission: replacing or deleting everything is for the owner.
Granted(r) ==
  {p \in Actor(r).permissions :
     p = "destructive" => Actor(r).isOwner \/ MayAdminister(Actor(r))}

-----------------------------------------------------------------------------
(* Telling about access                                                    *)

\* GET /api/session and what the app makes of it (AppStore, canAccessPage):
\* without a session it asks for a login, without permissions in the answer,
\* which only local mode gives, it takes everything for allowed.
Shown(r) ==
  IF Recovering(r) THEN Permissions
  ELSE CASE mode = "native" -> SessionUser(r).permissions
         [] mode = "proxy" ->
              IF ~r.trusted THEN {}
              ELSE IF RoleFromGroups(r.group) = Nothing /\ membership[r.user] \notin Roles THEN {}
              ELSE Resolved(r.user, ProxyRole(r), TRUE).permissions
         [] mode = "local" -> IF strict THEN {} ELSE Permissions

\* workspacePermissionsForUser, as feeds and confirmation tasks ask it.
PermissionsForUser(u) ==
  IF membership[u] \in Roles THEN PermissionsForRole(membership[u], owner = u) ELSE {}

\* listMembers: before there is an owner everybody is listed as having access.
Listed == {u \in People : owner = Nothing \/ membership[u] \in Roles}

-----------------------------------------------------------------------------
(* What changes access                                                     *)

\* Somebody else who may administer members.
Administrates(u) ==
  \E r \in Requests :
    LET actor == Actor(r) IN
    actor.user # u /\ "members" \in actor.permissions /\ MayAdminister(actor)

\* updateMemberAccess, and the acceptance of an invitation in native mode.
SetAccess(u, role) ==
  /\ \/ Administrates(u)
     \/ mode = "native" /\ owner \notin {u, Nothing}
  /\ membership' = [membership EXCEPT ![u] = role]
  /\ removed' = removed \ {u}
  /\ UNCHANGED <<mode, strict, enabled, owner, session, recovery>>

\* Seeded fault: the row is deleted instead of marked.
Deleted(u) == "none"

\* clearMembershipRole: without a membership there is nothing to revoke.
Cleared(u) == IF membership[u] \in Roles THEN "revoked" ELSE membership[u]

RemoveMember(u) ==
  /\ Administrates(u)
  /\ membership' = [membership EXCEPT ![u] = Cleared(u)]
  /\ session' = session \ {u}
  /\ removed' = IF membership[u] \in Roles THEN removed \cup {u} ELSE removed
  /\ UNCHANGED <<mode, strict, enabled, owner, recovery>>

\* The setup: of an administrator of the proxy, by an owner setup link, or of
\* the local user.
ClaimOwnership(u) ==
  /\ owner = Nothing
  /\ IF mode = "local" THEN u = LocalUser ELSE u \in Users
  /\ owner' = u
  /\ membership' = [membership EXCEPT ![u] = "admin"]
  /\ removed' = removed \ {u}
  /\ UNCHANGED <<mode, strict, enabled, session, recovery>>

\* A callback looks at the membership before it creates the session.
Login(u) ==
  /\ mode = "native" /\ u \notin session
  /\ Resolved(u, "readonly", FALSE).permissions # {}
  /\ session' = session \cup {u}
  /\ UNCHANGED <<mode, strict, enabled, owner, membership, recovery, removed>>

SessionEnds(u) ==
  /\ u \in session
  /\ session' = session \ {u}
  /\ UNCHANGED <<mode, strict, enabled, owner, membership, recovery, removed>>

RecoverySession ==
  /\ recovery \/ enabled
  /\ recovery' = ~recovery
  /\ UNCHANGED <<mode, strict, enabled, owner, membership, session, removed>>

\* disableLocalDevelopmentIdentityAccess, whenever another mode is started.
WithoutLocalUser(m) ==
  IF m # "local" /\ owner # LocalUser
    THEN [membership EXCEPT ![LocalUser] = Cleared(LocalUser)] ELSE membership

\* The operator starts the server with another configuration.
Restart(m, s, e) ==
  /\ mode' = m /\ strict' = s /\ enabled' = e
  /\ membership' = WithoutLocalUser(m)
  /\ UNCHANGED <<owner, session, recovery, removed>>

Next ==
  \/ \E u \in People : \/ RemoveMember(u) \/ ClaimOwnership(u)
                       \/ \E role \in Roles : SetAccess(u, role)
  \/ \E u \in Users : Login(u) \/ SessionEnds(u)
  \/ RecoverySession
  \/ \E m \in Modes, s \in BOOLEAN, e \in BOOLEAN : Restart(m, s, e)

Spec == Init /\ [][Next]_vars

-----------------------------------------------------------------------------
\* Every variable has its type.
TypeOK ==
  /\ mode \in Modes /\ strict \in BOOLEAN /\ enabled \in BOOLEAN /\ recovery \in BOOLEAN
  /\ owner \in People \cup {Nothing}
  /\ membership \in [People -> Roles \cup {"none", "revoked"}]
  /\ session \subseteq Users /\ removed \subseteq People

\* ADR 0005: every place has the same idea of a person's access. The app is
\* shown what its next request may do, in local mode at least that; once there
\* is an owner, the list of members, the feeds and the background jobs agree
\* with the requests.
AccessIsShown ==
  /\ \A r \in Requests : IF mode = "local" THEN Granted(r) \subseteq Shown(r)
                                          ELSE Granted(r) = Shown(r)
  /\ owner # Nothing =>
       \A u \in Users :
         LET asked == {r \in Requests : Actor(r).user = u /\ ~Recovering(r)} IN
         /\ \A r \in asked : Granted(r) = PermissionsForUser(u)
         /\ u \in Listed <=> PermissionsForUser(u) # {}

\* docs/release-notes/v1.19.0.md: whoever was removed stays out, with every
\* header, cookie and configuration, until somebody admits that person again.
RemovedStaysOut ==
  \A r \in Requests : Granted(r) # {} /\ ~Recovering(r) => Actor(r).user \notin removed

\* listMembers: whoever is listed as having access is not refused for the lack
\* of a membership.
ListedHasAccess == \A u \in Users \cap Listed : membership[u] # "revoked"
=============================================================================
