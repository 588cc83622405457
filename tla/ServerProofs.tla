------------------------------ MODULE ServerProofs ------------------------------
(***************************************************************************)
(* Proofs about the parts of Server, for any number of people, sessions,   *)
(* requests, servers, releases, records and children. Who may do what and  *)
(* what runs: the break-glass administrator (RecoveryAdmin), the decision  *)
(* on every request (RequestAccess), the first use of an installation      *)
(* (FirstUse), the migrations of overlapping starts (Startup), the update  *)
(* of an installation (ReleaseUpdate). What is stored while requests       *)
(* overlap: the browsers of members (PushDevices), imported calendars      *)
(* (ExternalCalendars), moving and replacing all data (DataTransfer), what *)
(* handlers leave of deleted children (CareRecords), what the privacy      *)
(* actions delete (PrivacyActions), and whose the imported records are     *)
(* (LegacyMigration).                                                      *)
(***************************************************************************)
EXTENDS Server, FiniteSetTheorems, TLAPS

-----------------------------------------------------------------------------
(* Access and operation: recovery, requests, first use, starts, updates.   *)

\* A behaviour of all parts is, seen from this one, a behaviour of it.
LEMMA RecoveryIsPart == Spec => Recovery!Spec
  <1>1. Init => Recovery!Init
    BY DEF Init
  <1>2. [Next]_vars => [Recovery!Next]_(Recovery!vars)
    BY DEF Next, vars, recoveryVars, Recovery!vars
  <1>. QED  BY <1>1, <1>2, PTL DEF Spec, Recovery!Spec

\* A behaviour of all parts is, seen from this one, a behaviour of it.
LEMMA RequestingIsPart == Spec => Requesting!Spec
  <1>1. Init => Requesting!Init
    BY DEF Init
  <1>2. [Next]_vars => [Requesting!Next]_(Requesting!vars)
    BY DEF Next, vars, requestsVars, Requesting!vars
  <1>. QED  BY <1>1, <1>2, PTL DEF Spec, Requesting!Spec

\* A behaviour of all parts is, seen from this one, a behaviour of it.
LEMMA FirstUseIsPart == Spec => FirstUses!Spec
  <1>1. Init => FirstUses!Init
    BY DEF Init
  <1>2. [Next]_vars => [FirstUses!Next]_(FirstUses!vars)
    BY DEF Next, vars, setupVars, FirstUses!vars
  <1>. QED  BY <1>1, <1>2, PTL DEF Spec, FirstUses!Spec

-----------------------------------------------------------------------------
(* The break-glass administrator.                                          *)

\* What the assumption on the constants says of this part.
LEMMA RecoveryConstants == Recovery!InitialAssumption /\ Recovery!NothingAssumption
  BY ServerAssumption DEF ServerAssumption

\* Whatever session changes the password, the rows keep their type, and only
\* its own row is left live.
LEMMA ChangedSessions ==
  ASSUME Recovery!TypeOK, NEW s \in RecoverySessions, NEW w \in Passwords,
         session' = [Recovery!EndOthers(s) EXCEPT
           ![s].restricted = FALSE, ![s].knows = w, ![s].late = FALSE]
  PROVE  /\ session' \in [RecoverySessions -> Recovery!SessionRow]
         /\ session'[s].knows = w
         /\ \A t \in RecoverySessions : t # s => session'[t].phase # "live"
  <1>. DEFINE kept == Recovery!EndOthers(s)
              row1 == [session[s] EXCEPT !.restricted = FALSE, !.knows = w, !.late = FALSE]
  <1>1. ASSUME NEW t \in RecoverySessions
        PROVE  /\ [session[t] EXCEPT !.phase = "ended"] \in Recovery!SessionRow
               /\ [session[t] EXCEPT !.phase = "ended"].phase = "ended"
    BY DEF Recovery!TypeOK, Recovery!SessionRow
  <1>2. kept \in [RecoverySessions -> Recovery!SessionRow]
    BY <1>1 DEF Recovery!EndOthers, Recovery!TypeOK
  <1>3. \A t \in RecoverySessions : t # s => kept[t].phase # "live"
    BY <1>1 DEF Recovery!EndOthers, Recovery!Live
  <1>4. kept[s] = session[s]
    BY DEF Recovery!EndOthers
  <1>5. row1 \in Recovery!SessionRow /\ row1.knows = w
    BY DEF Recovery!TypeOK, Recovery!SessionRow, Recovery!Known
  <1>. HIDE DEF kept
  <1>6. session' = [kept EXCEPT ![s] = [kept[s] EXCEPT !.restricted = FALSE, !.knows = w, !.late = FALSE]]
    BY <1>2 DEF kept
  <1>7. session' = [kept EXCEPT ![s] = row1]
    BY <1>4, <1>6
  <1>8. session'[s] = row1 /\ \A t \in RecoverySessions : t # s => session'[t] = kept[t]
    BY <1>2, <1>7
  <1>. HIDE DEF row1
  <1>9. session' \in [RecoverySessions -> Recovery!SessionRow]
    BY <1>2, <1>5, <1>7
  <1>. QED  BY <1>3, <1>5, <1>8, <1>9

\* Every step keeps the types of the recovery administration.
LEMMA RecoveryTypeStep ==
  Recovery!TypeOK /\ [Recovery!Next]_(Recovery!vars) => Recovery!TypeOK'
  <1>. SUFFICES ASSUME Recovery!TypeOK, [Recovery!Next]_(Recovery!vars)
                PROVE  Recovery!TypeOK'
    OBVIOUS
  <1>. USE DEF Recovery!TypeOK
  <1>1. ASSUME NEW s \in RecoverySessions, NEW w \in Recovery!Known, Recovery!CheckPassword(s, w)
        PROVE  Recovery!TypeOK'
    <2>1. [phase |-> "checked", restricted |-> password = Nothing, knows |-> w, late |-> FALSE]
            \in Recovery!SessionRow
      BY DEF Recovery!SessionRow
    <2>. QED  BY <1>1, <2>1 DEF Recovery!CheckPassword
  <1>2. ASSUME NEW s \in RecoverySessions, Recovery!CreateSession(s)
        PROVE  Recovery!TypeOK'
    <2>1. Recovery!Outdated(s) \in BOOLEAN
      BY DEF Recovery!Outdated
    <2>2. [session[s] EXCEPT !.phase = "live", !.late = Recovery!Outdated(s)] \in Recovery!SessionRow
      BY <2>1 DEF Recovery!SessionRow
    <2>3. session' = [session EXCEPT ![s] =
            [session[s] EXCEPT !.phase = "live", !.late = Recovery!Outdated(s)]]
      BY <1>2 DEF Recovery!CreateSession
    <2>. QED  BY <1>2, <2>2, <2>3 DEF Recovery!CreateSession
  <1>3. ASSUME NEW s \in RecoverySessions, Recovery!Expire(s)
        PROVE  Recovery!TypeOK'
    BY <1>3 DEF Recovery!Expire, Recovery!SessionRow
  <1>4. ASSUME NEW q \in RecoveryRequests, NEW s \in RecoverySessions,
               NEW op \in {"change", "logout"}, Recovery!FindSession(q, s, op)
        PROVE  Recovery!TypeOK'
    BY <1>4 DEF Recovery!FindSession
  <1>5. ASSUME NEW q \in RecoveryRequests, NEW w \in Passwords, Recovery!ChangePassword(q, w)
        PROVE  Recovery!TypeOK'
    <2>1. recoveryRequest[q].session \in RecoverySessions
      BY <1>5 DEF Recovery!ChangePassword
    <2>2. session' \in [RecoverySessions -> Recovery!SessionRow]
      BY <1>5, <2>1, ChangedSessions DEF Recovery!ChangePassword
    <2>. QED  BY <1>5, <2>2 DEF Recovery!ChangePassword
  <1>6. ASSUME NEW q \in RecoveryRequests, Recovery!Logout(q)
        PROVE  Recovery!TypeOK'
    <2>1. recoveryRequest[q].session \in RecoverySessions
      BY <1>6 DEF Recovery!Logout
    <2>. QED  BY <1>6, <2>1 DEF Recovery!Logout, Recovery!SessionRow
  <1>7. CASE Recovery!Mount
    BY <1>7 DEF Recovery!Mount
  <1>8. CASE UNCHANGED Recovery!vars
    BY <1>8 DEF Recovery!vars
  <1>. QED
    BY <1>1, <1>2, <1>3, <1>4, <1>5, <1>6, <1>7, <1>8 DEF Recovery!Next

\* Its variables have their types at first.
LEMMA RecoveryTypeInit == Recovery!Init => Recovery!TypeOK
  BY DEF Recovery!Init, Recovery!TypeOK, Recovery!Absent, Recovery!SessionRow

\* Every step keeps what sessions know of the password.
LEMMA RecoveryStep ==
  Recovery!TypeOK /\ Recovery!AdministratorKnowsPassword /\ [Recovery!Next]_(Recovery!vars)
    => Recovery!AdministratorKnowsPassword'
  <1>. SUFFICES ASSUME Recovery!TypeOK, Recovery!AdministratorKnowsPassword,
                       [Recovery!Next]_(Recovery!vars),
                       NEW t \in RecoverySessions, Recovery!Acts(t)'
                PROVE  session'[t].knows = password' \/ session'[t].late
    BY DEF Recovery!AdministratorKnowsPassword
  <1>0. session'[t].phase = "live" /\ ~session'[t].restricted
    BY DEF Recovery!Acts, Recovery!Live
  <1>a. ASSUME session'[t] = session[t], password' = password
        PROVE  session'[t].knows = password' \/ session'[t].late
    BY <1>0, <1>a DEF Recovery!AdministratorKnowsPassword, Recovery!Acts, Recovery!Live
  <1>1. ASSUME NEW s \in RecoverySessions, NEW w \in Recovery!Known, Recovery!CheckPassword(s, w)
        PROVE  session'[t].knows = password' \/ session'[t].late
    BY <1>0, <1>1, <1>a DEF Recovery!CheckPassword, Recovery!TypeOK
  <1>2. ASSUME NEW s \in RecoverySessions, Recovery!CreateSession(s)
        PROVE  session'[t].knows = password' \/ session'[t].late
    <2>1. CASE t = s
      <3>1. session'[t] = [session[s] EXCEPT !.phase = "live", !.late = Recovery!Outdated(s)]
        BY <1>2, <2>1 DEF Recovery!CreateSession, Recovery!TypeOK
      <3>2. /\ session'[t].late = Recovery!Outdated(s)
            /\ session'[t].restricted = session[s].restricted
            /\ session'[t].knows = session[s].knows
        BY <3>1 DEF Recovery!TypeOK, Recovery!SessionRow
      <3>. QED  BY <1>0, <1>2, <3>2 DEF Recovery!CreateSession, Recovery!Outdated
    <2>2. CASE t # s
      BY <1>2, <1>a, <2>2 DEF Recovery!CreateSession, Recovery!TypeOK
    <2>. QED  BY <2>1, <2>2
  <1>3. ASSUME NEW s \in RecoverySessions, Recovery!Expire(s)
        PROVE  session'[t].knows = password' \/ session'[t].late
    BY <1>0, <1>3, <1>a DEF Recovery!Expire, Recovery!TypeOK, Recovery!SessionRow
  <1>4. ASSUME NEW q \in RecoveryRequests, NEW s \in RecoverySessions,
               NEW op \in {"change", "logout"}, Recovery!FindSession(q, s, op)
        PROVE  session'[t].knows = password' \/ session'[t].late
    BY <1>4, <1>a DEF Recovery!FindSession
  <1>5. ASSUME NEW q \in RecoveryRequests, NEW w \in Passwords, Recovery!ChangePassword(q, w)
        PROVE  session'[t].knows = password' \/ session'[t].late
    <2>1. recoveryRequest[q].session \in RecoverySessions
      BY <1>5 DEF Recovery!ChangePassword, Recovery!TypeOK
    <2>. QED  BY <1>0, <1>5, <2>1, ChangedSessions DEF Recovery!ChangePassword
  <1>6. ASSUME NEW q \in RecoveryRequests, Recovery!Logout(q)
        PROVE  session'[t].knows = password' \/ session'[t].late
    <2>1. recoveryRequest[q].session \in RecoverySessions
      BY <1>6 DEF Recovery!Logout, Recovery!TypeOK
    <2>. QED  BY <1>0, <1>6, <1>a, <2>1 DEF Recovery!Logout, Recovery!TypeOK, Recovery!SessionRow
  <1>7. CASE Recovery!Mount \/ UNCHANGED Recovery!vars
    BY <1>7, <1>a DEF Recovery!Mount, Recovery!vars
  <1>. QED
    BY <1>1, <1>2, <1>3, <1>4, <1>5, <1>6, <1>7 DEF Recovery!Next

\* Whoever acts as the recovery administrator knows the stored password, or
\* logged in while it was changed (changePassword, createSession).
THEOREM RecoveryKnows == Spec => []AdministratorKnowsPassword
  <1>1. Recovery!Init => Recovery!AdministratorKnowsPassword
    BY DEF Recovery!Init, Recovery!AdministratorKnowsPassword, Recovery!Acts, Recovery!Live,
       Recovery!Absent
  <1>2. Recovery!Spec => []Recovery!AdministratorKnowsPassword
    BY <1>1, RecoveryTypeInit, RecoveryTypeStep, RecoveryStep, PTL DEF Recovery!Spec
  <1>3. Recovery!AdministratorKnowsPassword => AdministratorKnowsPassword
    BY DEF AdministratorKnowsPassword
  <1>. QED  BY <1>2, <1>3, RecoveryIsPart, PTL

-----------------------------------------------------------------------------
(* The decision on every request.                                          *)

\* What the assumption on the constants says of this part.
LEMMA RequestConstants ==
  /\ "admin" \in RolesInUse /\ RolesInUse \subseteq {"admin", "editor", "scheduler", "viewer"}
  /\ LocalUser \notin Persons /\ BreakGlass \notin Persons \cup {LocalUser}
  /\ Nothing \notin Persons \cup {LocalUser, BreakGlass}
  BY ServerAssumption
  DEF ServerAssumption, Requesting!RoleAssumption, Requesting!PeopleAssumption

\* Whoever was removed has a revoked membership and no other.
RemovedAreRevoked == \A u \in removed : standing[u] = "revoked"

RequestInv == Requesting!TypeOK /\ RemovedAreRevoked

\* Nobody has been removed at first.
LEMMA RequestInvInit == Requesting!Init => RequestInv
  BY DEF Requesting!Init, RequestInv, Requesting!TypeOK, RemovedAreRevoked

\* Clearing a membership leaves no role: who had one, or was removed, is revoked.
LEMMA ClearedType ==
  ASSUME Requesting!TypeOK, NEW u \in Requesting!People
  PROVE  /\ Requesting!Cleared(u) \in RolesInUse \cup {"none", "revoked"}
         /\ standing[u] \in RolesInUse \cup {"revoked"} => Requesting!Cleared(u) = "revoked"
  BY DEF Requesting!Cleared, Requesting!TypeOK

\* Every step keeps the removed marked as such.
LEMMA RequestInvStep == RequestInv /\ [Requesting!Next]_(Requesting!vars) => RequestInv'
  <1>. SUFFICES ASSUME RequestInv, [Requesting!Next]_(Requesting!vars)
                PROVE  RequestInv'
    OBVIOUS
  <1>. USE DEF RequestInv, Requesting!TypeOK, RemovedAreRevoked
  <1>1. ASSUME NEW u \in Requesting!People, Requesting!RemoveMember(u)
        PROVE  RequestInv'
    <2>1. standing' = [standing EXCEPT ![u] = Requesting!Cleared(u)]
      BY <1>1 DEF Requesting!RemoveMember
    <2>2. standing' \in [Requesting!People -> RolesInUse \cup {"none", "revoked"}]
      BY <2>1, ClearedType
    <2>3. removed' \subseteq Requesting!People /\ loggedIn' \subseteq Persons
      BY <1>1 DEF Requesting!RemoveMember
    <2>4. ASSUME NEW v \in removed' PROVE standing'[v] = "revoked"
      BY <1>1, <2>1, <2>3, <2>4, ClearedType DEF Requesting!RemoveMember
    <2>. QED  BY <1>1, <2>2, <2>3, <2>4 DEF Requesting!RemoveMember
  <1>2. ASSUME NEW u \in Requesting!People, Requesting!ClaimOwnership(u)
        PROVE  RequestInv'
    BY <1>2, RequestConstants DEF Requesting!ClaimOwnership
  <1>3. ASSUME NEW u \in Requesting!People, NEW role \in RolesInUse, Requesting!SetAccess(u, role)
        PROVE  RequestInv'
    BY <1>3 DEF Requesting!SetAccess
  <1>4. ASSUME NEW u \in Persons, Requesting!Login(u) \/ Requesting!SessionEnds(u)
        PROVE  RequestInv'
    BY <1>4 DEF Requesting!Login, Requesting!SessionEnds
  <1>5. CASE Requesting!RecoverySession
    BY <1>5 DEF Requesting!RecoverySession
  <1>6. ASSUME NEW m \in Requesting!Modes, NEW s \in BOOLEAN, NEW e \in BOOLEAN,
               Requesting!Restart(m, s, e)
        PROVE  RequestInv'
    <2>1. LocalUser \in Requesting!People
      BY DEF Requesting!People
    <2>2. standing' \in [Requesting!People -> RolesInUse \cup {"none", "revoked"}]
      BY <1>6, <2>1, ClearedType DEF Requesting!Restart, Requesting!WithoutLocalUser
    <2>3. ASSUME NEW v \in removed PROVE standing'[v] = "revoked"
      BY <1>6, <2>1, <2>3, ClearedType DEF Requesting!Restart, Requesting!WithoutLocalUser
    <2>. QED  BY <1>6, <2>2, <2>3 DEF Requesting!Restart
  <1>7. CASE UNCHANGED Requesting!vars
    BY <1>7 DEF Requesting!vars
  <1>. QED
    BY <1>1, <1>2, <1>3, <1>4, <1>5, <1>6, <1>7 DEF Requesting!Next

WorkspaceRoles == {"admin", "editor", "scheduler", "viewer"}

\* Every role may do something, and none of them replace or delete everything.
LEMMA RolePermissionsKeep ==
  ASSUME NEW role \in WorkspaceRoles
  PROVE  /\ Requesting!RolePermissions[role] \subseteq Requesting!Permissions
         /\ Requesting!RolePermissions[role] # {}
         /\ "destructive" \notin Requesting!RolePermissions[role]
  <1>1. CASE role = "admin"
    BY <1>1 DEF Requesting!RolePermissions, Requesting!Permissions
  <1>2. CASE role = "editor"
    BY <1>2 DEF Requesting!RolePermissions, Requesting!Permissions
  <1>3. CASE role = "scheduler"
    BY <1>3 DEF Requesting!RolePermissions, Requesting!Permissions
  <1>4. CASE role = "viewer"
    BY <1>4 DEF Requesting!RolePermissions, Requesting!Permissions
  <1>. QED  BY <1>1, <1>2, <1>3, <1>4 DEF WorkspaceRoles

\* The role Resolved finds.
RoleOf(u, legacy) ==
  IF standing[u] \in RolesInUse THEN standing[u] ELSE Requesting!WorkspaceRole[legacy]

\* The role that is worked out is one of the workspace, in every mode.
LEMMA RoleOfType ==
  ASSUME NEW u, NEW legacy \in {"admin", "parent", "readonly"}
  PROVE  RoleOf(u, legacy) \in WorkspaceRoles
  <1>1. CASE standing[u] \in RolesInUse
    BY <1>1, RequestConstants DEF RoleOf, WorkspaceRoles
  <1>2. CASE standing[u] \notin RolesInUse
    <2>1. CASE legacy = "admin"
      BY <1>2, <2>1 DEF RoleOf, WorkspaceRoles, Requesting!WorkspaceRole
    <2>2. CASE legacy = "parent"
      BY <1>2, <2>2 DEF RoleOf, WorkspaceRoles, Requesting!WorkspaceRole
    <2>3. CASE legacy = "readonly"
      BY <1>2, <2>3 DEF RoleOf, WorkspaceRoles, Requesting!WorkspaceRole
    <2>. QED  BY <2>1, <2>2, <2>3
  <1>. QED  BY <1>1, <1>2

\* Who decides about everything: the owner, before there is one an
\* administrator, and the break-glass administrator.
Decides(asker) == asker.isOwner \/ Requesting!MayAdminister(asker)

\* Somebody without a membership, or with a revoked one, is nobody; whoever is
\* granted everything by the role decides about everything.
LEMMA ResolvedGrants ==
  ASSUME NEW u \in Requesting!People, NEW legacy \in {"admin", "parent", "readonly"},
         NEW fallback \in BOOLEAN
  PROVE  LET asker == Requesting!Resolved(u, legacy, fallback)
             out == standing[u] = "revoked" \/ (standing[u] = "none" /\ (holder # Nothing \/ ~fallback))
         IN  /\ asker.user = u
             /\ asker.permissions \subseteq Requesting!Permissions
             /\ "destructive" \in asker.permissions => Decides(asker)
             /\ out => asker.permissions = {}
             /\ ~out /\ holder # Nothing
                  => asker.permissions = Requesting!PermissionsForRole(RoleOf(u, legacy), holder = u)
  <1>. DEFINE asker == Requesting!Resolved(u, legacy, fallback)
              out == standing[u] = "revoked" \/ (standing[u] = "none" /\ (holder # Nothing \/ ~fallback))
              role == RoleOf(u, legacy)
              all == holder = u \/ (holder = Nothing /\ role = "admin")
  <1>1. CASE out
    <2>1. asker = [Requesting!NoOne EXCEPT !.user = u]
      BY <1>1 DEF Requesting!Resolved
    <2>2. asker.user = u /\ asker.permissions = {}
      BY <2>1 DEF Requesting!NoOne
    <2>. QED  BY <1>1, <2>2
  <1>2. CASE ~out
    <2>1. asker = [user |-> u, isOwner |-> holder = u, admin |-> role = "admin",
                   permissions |-> Requesting!PermissionsForRole(role, all)]
      BY <1>2 DEF Requesting!Resolved, RoleOf
    <2>2. /\ asker.user = u /\ (asker.isOwner <=> holder = u) /\ (asker.admin <=> role = "admin")
          /\ asker.permissions = Requesting!PermissionsForRole(role, all)
      <3>. HIDE DEF asker, role, all
      <3>. QED  BY <2>1
    <2>3. all \/ "destructive" \notin asker.permissions
      BY <2>2, RoleOfType, RolePermissionsKeep DEF Requesting!PermissionsForRole
    <2>4. all => Decides(asker)
      BY <2>2 DEF Decides, Requesting!MayAdminister
    <2>5. holder # Nothing => (all <=> holder = u)
      OBVIOUS
    <2>6. asker.permissions \subseteq Requesting!Permissions
      BY <2>2, RoleOfType, RolePermissionsKeep DEF Requesting!PermissionsForRole
    <2>. QED  BY <1>2, <2>2, <2>3, <2>4, <2>5, <2>6 DEF Requesting!PermissionsForRole
  <1>. QED  BY <1>1, <1>2

LegacyRoles == {"admin", "parent", "readonly"}

\* The role a proxy states is one of the three it may state.
LEMMA ProxyRoleType ==
  ASSUME NEW r \in Requesting!Requests
  PROVE  Requesting!ProxyRole(r) \in LegacyRoles
  <1>1. r.group \in {"admin", "parent", "readonly", "none"}
    BY DEF Requesting!Requests, Requesting!Groups
  <1>. QED
    BY <1>1 DEF Requesting!ProxyRole, Requesting!RoleFromGroups, LegacyRoles

\* A request is nobody's, the break-glass administrator's, or somebody's whose
\* membership and claims decide.
LEMMA ActorKinds ==
  ASSUME NEW r \in Requesting!Requests
  PROVE  \/ Requesting!Recovering(r) /\ Requesting!Actor(r) = Requesting!Breakglass
         \/ /\ ~Requesting!Recovering(r)
            /\ \/ Requesting!Actor(r) = Requesting!NoOne
               \/ \E u \in Requesting!People, legacy \in LegacyRoles, fallback \in BOOLEAN :
                    Requesting!Actor(r) = Requesting!Resolved(u, legacy, fallback)
  <1>0. r.user \in Requesting!People /\ LocalUser \in Requesting!People
    BY DEF Requesting!Requests, Requesting!People
  <1>1. CASE Requesting!Recovering(r)
    BY <1>1 DEF Requesting!Actor
  <1>2. CASE ~Requesting!Recovering(r) /\ authMode = "native"
    <2>1. Requesting!Actor(r) = Requesting!SessionUser(r)
      BY <1>2 DEF Requesting!Actor
    <2>2. \/ Requesting!SessionUser(r) = Requesting!NoOne
          \/ Requesting!SessionUser(r) = Requesting!Resolved(r.user, "readonly", FALSE)
      BY DEF Requesting!SessionUser
    <2>3. "readonly" \in LegacyRoles /\ FALSE \in BOOLEAN
      BY DEF LegacyRoles
    <2>. QED  BY <1>0, <1>2, <2>1, <2>2, <2>3
  <1>3. CASE ~Requesting!Recovering(r) /\ authMode = "proxy" /\ r.trusted /\ Requesting!RoleKnown(r)
    <2>1. Requesting!Actor(r) = Requesting!Resolved(r.user, Requesting!ProxyRole(r), TRUE)
      BY <1>3 DEF Requesting!Actor
    <2>. QED  BY <1>0, <1>3, <2>1, ProxyRoleType
  <1>4. CASE ~Requesting!Recovering(r) /\ authMode = "local" /\ ~strict
    <2>1. Requesting!Actor(r) = Requesting!Resolved(LocalUser, "admin", TRUE)
      BY <1>4 DEF Requesting!Actor
    <2>2. "admin" \in LegacyRoles
      BY DEF LegacyRoles
    <2>. QED  BY <1>0, <1>4, <2>1, <2>2
  <1>5. CASE /\ ~Requesting!Recovering(r) /\ authMode # "native"
             /\ ~(authMode = "proxy" /\ r.trusted /\ Requesting!RoleKnown(r))
             /\ ~(authMode = "local" /\ ~strict)
    BY <1>5 DEF Requesting!Actor
  <1>. QED  BY <1>1, <1>2, <1>3, <1>4, <1>5

\* The check of a request takes nothing from what its actor has.
LEMMA GrantedIsAll ==
  ASSUME NEW r \in Requesting!Requests
  PROVE  /\ Requesting!Granted(r) = Requesting!Actor(r).permissions
         /\ Requesting!Granted(r) \subseteq Requesting!Permissions
  <1>1. CASE Requesting!Actor(r) = Requesting!Breakglass
    BY <1>1 DEF Requesting!Granted, Requesting!Breakglass
  <1>2. CASE Requesting!Actor(r) = Requesting!NoOne
    BY <1>2 DEF Requesting!Granted, Requesting!NoOne
  <1>3. ASSUME NEW u \in Requesting!People, NEW legacy \in LegacyRoles, NEW fallback \in BOOLEAN,
               Requesting!Actor(r) = Requesting!Resolved(u, legacy, fallback)
        PROVE  /\ Requesting!Granted(r) = Requesting!Actor(r).permissions
               /\ Requesting!Granted(r) \subseteq Requesting!Permissions
    BY <1>3, ResolvedGrants DEF Requesting!Granted, Decides, LegacyRoles
  <1>. QED  BY <1>1, <1>2, <1>3, ActorKinds

\* What the app is told about its access is what requests may do, in every mode.
LEMMA AppIsToldItsAccess ==
  ASSUME NEW r \in Requesting!Requests, authMode \in Requesting!Modes
  PROVE  IF authMode = "local" THEN Requesting!Granted(r) \subseteq Requesting!Shown(r)
                               ELSE Requesting!Granted(r) = Requesting!Shown(r)
  <1>1. CASE Requesting!Recovering(r)
    BY <1>1, ActorKinds, GrantedIsAll DEF Requesting!Shown, Requesting!Breakglass
  <1>2. CASE ~Requesting!Recovering(r) /\ authMode = "native"
    BY <1>2, GrantedIsAll DEF Requesting!Shown, Requesting!Actor
  <1>3. CASE ~Requesting!Recovering(r) /\ authMode = "proxy"
    <2>1. CASE r.trusted /\ Requesting!RoleKnown(r)
      BY <1>3, <2>1, GrantedIsAll DEF Requesting!Shown, Requesting!Actor, Requesting!RoleKnown
    <2>2. CASE ~(r.trusted /\ Requesting!RoleKnown(r))
      <3>1. Requesting!Actor(r) = Requesting!NoOne
        BY <1>3, <2>2 DEF Requesting!Actor
      <3>2. Requesting!Shown(r) = {}
        BY <1>3, <2>2 DEF Requesting!Shown, Requesting!RoleKnown
      <3>. QED  BY <1>3, <3>1, <3>2, GrantedIsAll DEF Requesting!NoOne
    <2>. QED  BY <2>1, <2>2
  <1>4. CASE ~Requesting!Recovering(r) /\ authMode = "local"
    <2>1. CASE strict
      <3>1. Requesting!Actor(r) = Requesting!NoOne
        BY <1>4, <2>1 DEF Requesting!Actor
      <3>. QED  BY <1>4, <3>1, GrantedIsAll DEF Requesting!NoOne
    <2>2. CASE ~strict
      BY <1>4, <2>2, GrantedIsAll DEF Requesting!Shown
    <2>. QED  BY <2>1, <2>2
  <1>. QED  BY <1>1, <1>2, <1>3, <1>4 DEF Requesting!Modes

\* With an owner, the membership alone decides.
LEMMA MembershipAlone ==
  ASSUME Requesting!TypeOK, holder # Nothing, NEW u \in Requesting!People,
         NEW legacy \in LegacyRoles, NEW fallback \in BOOLEAN
  PROVE  Requesting!Resolved(u, legacy, fallback).permissions = Requesting!PermissionsForUser(u)
  <1>1. standing[u] \in RolesInUse \cup {"none", "revoked"}
    BY DEF Requesting!TypeOK
  <1>2. CASE standing[u] \in RolesInUse
    <2>1. standing[u] \notin {"none", "revoked"}
      BY <1>2, RequestConstants
    <2>. QED  BY <1>2, <2>1, ResolvedGrants DEF Requesting!PermissionsForUser, RoleOf, LegacyRoles
  <1>3. CASE standing[u] \notin RolesInUse
    BY <1>1, <1>3, ResolvedGrants DEF Requesting!PermissionsForUser, LegacyRoles
  <1>. QED  BY <1>2, <1>3

\* Requests, the list of members and background jobs decide alike.
LEMMA EverybodyAgrees == Requesting!TypeOK => Requesting!AccessIsShown
  <1>. SUFFICES ASSUME Requesting!TypeOK PROVE Requesting!AccessIsShown
    OBVIOUS
  <1>1. ASSUME NEW r \in Requesting!Requests
        PROVE  IF authMode = "local" THEN Requesting!Granted(r) \subseteq Requesting!Shown(r)
                                     ELSE Requesting!Granted(r) = Requesting!Shown(r)
    BY AppIsToldItsAccess DEF Requesting!TypeOK
  <1>2. ASSUME holder # Nothing, NEW u \in Persons, NEW r \in Requesting!Requests,
               Requesting!Actor(r).user = u, ~Requesting!Recovering(r)
        PROVE  Requesting!Granted(r) = Requesting!PermissionsForUser(u)
    <2>1. Requesting!Actor(r) # Requesting!NoOne
      BY <1>2, RequestConstants DEF Requesting!NoOne
    <2>2. PICK v \in Requesting!People, legacy \in LegacyRoles, fallback \in BOOLEAN :
            Requesting!Actor(r) = Requesting!Resolved(v, legacy, fallback)
      BY <1>2, <2>1, ActorKinds
    <2>3. v = u
      BY <1>2, <2>2, ResolvedGrants DEF LegacyRoles
    <2>. QED  BY <1>2, <2>2, <2>3, MembershipAlone, GrantedIsAll
  <1>3. ASSUME holder # Nothing, NEW u \in Persons
        PROVE  u \in Requesting!Listed <=> Requesting!PermissionsForUser(u) # {}
    <2>1. u \in Requesting!Listed <=> standing[u] \in RolesInUse
      BY <1>3 DEF Requesting!Listed, Requesting!People
    <2>2. CASE standing[u] \in RolesInUse
      <3>1. standing[u] \in WorkspaceRoles
        BY <2>2, RequestConstants DEF WorkspaceRoles
      <3>2. Requesting!PermissionsForRole(standing[u], holder = u) # {}
        BY <3>1, RolePermissionsKeep DEF Requesting!PermissionsForRole, Requesting!Permissions
      <3>. QED  BY <2>1, <2>2, <3>2 DEF Requesting!PermissionsForUser
    <2>3. CASE standing[u] \notin RolesInUse
      BY <2>1, <2>3 DEF Requesting!PermissionsForUser
    <2>. QED  BY <2>2, <2>3
  <1>. QED  BY <1>1, <1>2, <1>3 DEF Requesting!AccessIsShown

\* A removed member gets no access back by logging in.
LEMMA RemovedIsNobody == RequestInv => Requesting!RemovedStaysOut
  <1>. SUFFICES ASSUME RequestInv, NEW r \in Requesting!Requests, Requesting!Granted(r) # {},
                       ~Requesting!Recovering(r), Requesting!Actor(r).user \in removed
                PROVE  FALSE
    BY DEF Requesting!RemovedStaysOut
  <1>1. Requesting!Actor(r) # Requesting!NoOne
    BY GrantedIsAll DEF Requesting!NoOne
  <1>2. PICK u \in Requesting!People, legacy \in LegacyRoles, fallback \in BOOLEAN :
          Requesting!Actor(r) = Requesting!Resolved(u, legacy, fallback)
    BY <1>1, ActorKinds
  <1>3. Requesting!Actor(r).user = u
    BY <1>2, ResolvedGrants DEF LegacyRoles
  <1>4. standing[u] = "revoked"
    BY <1>3 DEF RequestInv, RemovedAreRevoked
  <1>. QED  BY <1>2, <1>4, GrantedIsAll, ResolvedGrants DEF LegacyRoles

\* Requests, the app, the list of members, feeds and background jobs agree on a
\* person's access, and whoever was removed stays out (createApiAuthHook, GET
\* /api/session, workspacePermissionsForUser, listMembers, clearMembershipRole).
THEOREM MembershipAlwaysDecides == Spec => []MembershipDecides
  <1>1. Requesting!Spec => []RequestInv
    BY RequestInvInit, RequestInvStep, PTL DEF Requesting!Spec
  <1>2. RequestInv => MembershipDecides
    BY EverybodyAgrees, RemovedIsNobody DEF MembershipDecides, RequestInv
  <1>. QED  BY <1>1, <1>2, RequestingIsPart, PTL

-----------------------------------------------------------------------------
(* The first use of an installation.                                       *)

\* What the assumption on the constants says of this part.
LEMMA SetupConstants ==
  /\ LocalUser \notin Administrators
  /\ Nothing \notin FirstUses!People
  BY ServerAssumption DEF ServerAssumption, FirstUses!UserAssumption, FirstUses!People

Claimed == {q \in Submissions : submitted[q].step = "claimed"}

\* The submissions that have claimed the ownership are its owner's, or the only
\* one.
OneOwner ==
  ~relinked =>
    /\ completedBy \in {owner, Nothing}
    /\ \A u \in FirstUses!People : created[u] > 0 => u = owner
    /\ \A q \in Claimed : owner \in {submitted[q].user, Nothing}

ClaimsAlone == \A q, r \in Claimed : owner = Nothing => q = r

SubmittersAreKnown ==
  \A q \in Submissions : submitted[q].step # "idle" => submitted[q].user \in FirstUses!People

NoLinkOpen == \A u \in Administrators : link[u] = Nothing

\* With the only connection of SQLite, one transaction is open at a time.
OneConnection ==
  driver = "sqlite" =>
    /\ \A q, r \in FirstUses!Open : q = r
    /\ FirstUses!Open # {} => removal = Nothing /\ NoLinkOpen /\ completedBy = Nothing
    /\ removal # Nothing => NoLinkOpen /\ owner # removal
    /\ completedBy = Nothing => \A u \in FirstUses!People : created[u] = 0
    /\ FirstUses!SetUpOnce
    /\ FirstUses!OwnerStaysMember

SetupInv ==
  FirstUses!TypeOK /\ OneOwner /\ ClaimsAlone /\ SubmittersAreKnown /\ OneConnection

\* An installation starts with nobody set up.
LEMMA SetupInvInit == FirstUses!Init => SetupInv
  <1>. SUFFICES ASSUME FirstUses!Init PROVE SetupInv
    OBVIOUS
  <1>1. FirstUses!TypeOK
    BY DEF FirstUses!Init, FirstUses!TypeOK, FirstUses!NoRequest, FirstUses!Memberships
  <1>2. Claimed = {} /\ FirstUses!Open = {}
    BY DEF FirstUses!Init, Claimed, FirstUses!Open, FirstUses!NoRequest, FirstUses!InTransaction
  <1>3. OneOwner /\ ClaimsAlone
    BY <1>2 DEF FirstUses!Init, OneOwner, ClaimsAlone
  <1>4. SubmittersAreKnown
    BY DEF FirstUses!Init, SubmittersAreKnown, FirstUses!NoRequest
  <1>5. OneConnection
    BY <1>2 DEF FirstUses!Init, OneConnection, FirstUses!SetUpOnce, FirstUses!OwnerStaysMember
  <1>. QED  BY <1>1, <1>3, <1>4, <1>5 DEF SetupInv

\* A submission that gets no further than the claim, and one that ends, leaves
\* the rest as it is.
LEMMA AdvanceKeeps ==
  ASSUME SetupInv, NEW q \in Submissions, NEW from, NEW to,
         from \in FirstUses!InTransaction \cup {"allowed"},
         to \in FirstUses!InTransaction,
         FirstUses!Advance(q, from, to),
         from = "allowed" => FirstUses!ConnectionFree /\ ~FirstUses!Complete,
         to = "claimed" => /\ owner \in {submitted[q].user, Nothing}
                           /\ owner # Nothing \/ \A r \in Claimed : r = q
  PROVE  SetupInv'
  <1>1. /\ submitted' = [submitted EXCEPT ![q].step = to]
        /\ submitted[q].step = from
        /\ UNCHANGED <<driver, mode, owner, completedBy, admitted, created, existing, removal,
                        tokens, link, relinked>>
    BY DEF FirstUses!Advance
  <1>2. /\ submitted'[q].step = to /\ submitted'[q].user = submitted[q].user
        /\ \A r \in Submissions : r # q => submitted'[r] = submitted[r]
    BY <1>1 DEF SetupInv, FirstUses!TypeOK
  <1>3. FirstUses!TypeOK'
    BY <1>1 DEF SetupInv, FirstUses!TypeOK, FirstUses!InTransaction
  <1>4. to # "claimed" => Claimed' \subseteq Claimed
    BY <1>2 DEF Claimed
  <1>5. Claimed' \subseteq Claimed \cup {q}
    BY <1>2 DEF Claimed
  <1>6. OneOwner' /\ ClaimsAlone'
    BY <1>1, <1>2, <1>4, <1>5 DEF SetupInv, OneOwner, ClaimsAlone
  <1>7. SubmittersAreKnown'
    BY <1>1, <1>2 DEF SetupInv, SubmittersAreKnown, FirstUses!InTransaction
  <1>8. OneConnection'
    BY <1>1, <1>2 DEF SetupInv, OneConnection, FirstUses!ConnectionFree, FirstUses!Complete,
       FirstUses!Open, FirstUses!SetUpOnce, FirstUses!OwnerStaysMember, NoLinkOpen,
       FirstUses!InTransaction
  <1>. QED  BY <1>3, <1>6, <1>7, <1>8 DEF SetupInv

\* Submissions are dropped.
LEMMA DropKeeps ==
  ASSUME SetupInv,
         \A q \in Submissions : submitted'[q] \in {submitted[q], FirstUses!NoRequest},
         submitted' = [q \in Submissions |-> submitted'[q]],
         UNCHANGED <<driver, owner, completedBy, admitted, created, existing, removal,
                     tokens, link, relinked>>,
         mode' \in FirstUses!Modes
  PROVE  SetupInv'
  <1>1. FirstUses!NoRequest.step = "idle"
    BY DEF FirstUses!NoRequest
  <1>2. FirstUses!TypeOK'
    BY DEF SetupInv, FirstUses!TypeOK, FirstUses!NoRequest
  <1>3. ASSUME NEW q \in Submissions, submitted'[q].step # "idle" PROVE submitted'[q] = submitted[q]
    BY <1>1, <1>3
  <1>4. /\ \A q \in Claimed' : q \in Claimed /\ submitted'[q] = submitted[q]
        /\ FirstUses!Open' \subseteq FirstUses!Open
    BY <1>3 DEF Claimed, FirstUses!Open, FirstUses!InTransaction
  <1>5. OneOwner' /\ ClaimsAlone'
    BY <1>4 DEF SetupInv, OneOwner, ClaimsAlone
  <1>6. SubmittersAreKnown'
    BY <1>3 DEF SetupInv, SubmittersAreKnown
  <1>7. OneConnection'
    BY <1>4 DEF SetupInv, OneConnection, FirstUses!SetUpOnce, FirstUses!OwnerStaysMember, NoLinkOpen
  <1>. QED  BY <1>2, <1>5, <1>6, <1>7 DEF SetupInv

\* A statement of a submission, under the lock of its connection, keeps one owner.
LEMMA CommitKeeps ==
  ASSUME SetupInv, NEW q \in Submissions, FirstUses!Commit(q)
  PROVE  SetupInv'
  <1>. DEFINE u == submitted[q].user
  <1>1. /\ submitted[q].step = "claimed"
        /\ created' = [created EXCEPT ![u] = @ + 1]
        /\ owner' = u /\ completedBy' = u
        /\ admitted' = [admitted EXCEPT ![u] = "admin"]
        /\ submitted' = [submitted EXCEPT ![q] = FirstUses!NoRequest]
        /\ UNCHANGED <<driver, mode, existing, removal, tokens, link, relinked>>
    BY DEF FirstUses!Commit, FirstUses!Creates
  <1>2. u \in FirstUses!People /\ q \in Claimed /\ q \in FirstUses!Open /\ u # Nothing
    BY <1>1, SetupConstants DEF SetupInv, SubmittersAreKnown, Claimed, FirstUses!Open,
       FirstUses!InTransaction
  <1>. HIDE DEF u
  <1>3. FirstUses!TypeOK'
    BY <1>1, <1>2 DEF SetupInv, FirstUses!TypeOK, FirstUses!NoRequest, FirstUses!Memberships
  <1>4. \A r \in Submissions : submitted'[r].step # "idle" => r # q /\ submitted'[r] = submitted[r]
    BY <1>1 DEF SetupInv, FirstUses!TypeOK, FirstUses!NoRequest
  <1>5. /\ \A r \in Claimed' : r \in Claimed /\ r # q /\ submitted'[r] = submitted[r]
        /\ \A r \in FirstUses!Open' : r \in FirstUses!Open /\ r # q
    BY <1>4 DEF Claimed, FirstUses!Open, FirstUses!InTransaction
  <1>6. OneOwner'
    <2>. SUFFICES ASSUME ~relinked
                  PROVE  /\ \A v \in FirstUses!People : created'[v] > 0 => v = u
                         /\ \A r \in Claimed' : u \in {submitted'[r].user, Nothing}
      BY <1>1 DEF OneOwner
    <2>1. owner \in {u, Nothing}
      BY <1>2 DEF SetupInv, OneOwner, u
    <2>2. \A v \in FirstUses!People : v # u => created'[v] = created[v]
      BY <1>1, <1>2 DEF SetupInv, FirstUses!TypeOK
    <2>3. \A v \in FirstUses!People : created'[v] > 0 => v = u
      BY <2>1, <2>2, SetupConstants DEF SetupInv, OneOwner
    <2>4. \A r \in Claimed' : u \in {submitted'[r].user, Nothing}
      BY <1>2, <1>5, <2>1 DEF SetupInv, OneOwner, ClaimsAlone
    <2>. QED  BY <2>3, <2>4
  <1>7. ClaimsAlone' /\ SubmittersAreKnown'
    BY <1>1, <1>2, <1>4 DEF SetupInv, ClaimsAlone, SubmittersAreKnown
  <1>8. OneConnection'
    <2>. SUFFICES ASSUME driver = "sqlite"
                  PROVE  /\ FirstUses!Open' = {} /\ removal' = Nothing /\ completedBy' # Nothing
                         /\ FirstUses!SetUpOnce' /\ FirstUses!OwnerStaysMember'
      BY <1>1 DEF OneConnection
    <2>1. /\ \A r \in FirstUses!Open : r = q
          /\ removal = Nothing
          /\ \A v \in FirstUses!People : created[v] = 0
      BY <1>2 DEF SetupInv, OneConnection
    <2>2. FirstUses!SetUpOnce'
      BY <1>1, <1>2, <2>1 DEF FirstUses!SetUpOnce, SetupInv, FirstUses!TypeOK
    <2>3. FirstUses!OwnerStaysMember'
      BY <1>1, <1>2 DEF FirstUses!OwnerStaysMember, SetupInv, FirstUses!TypeOK
    <2>. QED  BY <1>1, <1>2, <1>5, <2>1, <2>2, <2>3
  <1>. QED  BY <1>3, <1>6, <1>7, <1>8 DEF SetupInv

\* The rest of the administration, while no submission moves.
LEMMA ChangeRecordsKeeps ==
  ASSUME SetupInv, NEW u \in FirstUses!People, FirstUses!ChangeRecords(u)
  PROVE  SetupInv'
  BY DEF FirstUses!ChangeRecords, SetupInv, FirstUses!TypeOK, OneOwner, Claimed, ClaimsAlone,
     SubmittersAreKnown, OneConnection, FirstUses!Open, NoLinkOpen, FirstUses!SetUpOnce,
     FirstUses!OwnerStaysMember

\* Nothing but the removal, the links and the memberships changes.
SameSetup == UNCHANGED <<driver, completedBy, created, existing, submitted, relinked>>

\* The removal of a member keeps one owner.
LEMMA RemovalKeeps ==
  ASSUME SetupInv,
         (\E u, v \in FirstUses!People : FirstUses!CheckRemoval(u, v)) \/ FirstUses!Remove
  PROVE  SetupInv'
  <1>1. SameSetup /\ UNCHANGED <<mode, owner, tokens, link>>
    BY DEF SameSetup, FirstUses!CheckRemoval, FirstUses!Remove
  <1>2. OneOwner' /\ ClaimsAlone' /\ SubmittersAreKnown'
    BY <1>1 DEF SameSetup, SetupInv, OneOwner, ClaimsAlone, SubmittersAreKnown, Claimed
  <1>3. CASE FirstUses!Remove
    <2>0. removal \in FirstUses!People /\ removal # Nothing
      BY <1>3 DEF FirstUses!Remove, SetupInv, FirstUses!TypeOK
    <2>1. FirstUses!TypeOK'
      BY <1>1, <1>3, <2>0 DEF FirstUses!Remove, SameSetup, SetupInv, FirstUses!TypeOK, FirstUses!Memberships
    <2>2. OneConnection'
      BY <1>1, <1>3, <2>0 DEF FirstUses!Remove, SameSetup, SetupInv, FirstUses!TypeOK, OneConnection,
         FirstUses!Open, NoLinkOpen, FirstUses!SetUpOnce, FirstUses!OwnerStaysMember
    <2>. QED  BY <1>2, <2>1, <2>2 DEF SetupInv
  <1>4. ASSUME NEW u \in FirstUses!People, NEW v \in FirstUses!People, FirstUses!CheckRemoval(u, v)
        PROVE  SetupInv'
    <2>1. FirstUses!TypeOK'
      BY <1>1, <1>4 DEF FirstUses!CheckRemoval, SameSetup, SetupInv, FirstUses!TypeOK
    <2>2. OneConnection'
      BY <1>1, <1>4, SetupConstants DEF FirstUses!CheckRemoval, FirstUses!MayAdminister, SameSetup, SetupInv,
         OneConnection, FirstUses!ConnectionFree, FirstUses!Open, NoLinkOpen,
         FirstUses!SetUpOnce, FirstUses!OwnerStaysMember
    <2>. QED  BY <1>2, <2>1, <2>2 DEF SetupInv
  <1>. QED  BY <1>3, <1>4

\* A claim by a link keeps one owner.
LEMMA LinkKeeps ==
  ASSUME SetupInv, NEW u \in Administrators, FirstUses!CheckLink(u) \/ FirstUses!ClaimByLink(u)
  PROVE  SetupInv'
  <1>0. u \in FirstUses!People /\ u # Nothing
    BY SetupConstants DEF FirstUses!People
  <1>1. CASE FirstUses!CheckLink(u)
    <2>1. SameSetup /\ UNCHANGED <<mode, owner, admitted, removal, tokens>>
      BY <1>1 DEF FirstUses!CheckLink, SameSetup
    <2>2. OneOwner' /\ ClaimsAlone' /\ SubmittersAreKnown'
      BY <2>1 DEF SameSetup, SetupInv, OneOwner, ClaimsAlone, SubmittersAreKnown, Claimed
    <2>3. FirstUses!TypeOK'
      BY <1>1, <2>1 DEF FirstUses!CheckLink, SameSetup, SetupInv, FirstUses!TypeOK
    <2>4. OneConnection'
      BY <1>1, <2>1 DEF FirstUses!CheckLink, SameSetup, SetupInv, OneConnection,
         FirstUses!ConnectionFree, FirstUses!Open, NoLinkOpen, FirstUses!SetUpOnce,
         FirstUses!OwnerStaysMember
    <2>. QED  BY <2>2, <2>3, <2>4 DEF SetupInv
  <1>2. CASE FirstUses!ClaimByLink(u)
    <2>1. /\ owner' = u /\ admitted' = [admitted EXCEPT ![u] = "admin"]
          /\ link[u] # Nothing /\ link' = [link EXCEPT ![u] = Nothing]
          /\ tokens' = [tokens EXCEPT !.consumed = @ \cup {link[u]}]
          /\ relinked' = (relinked \/ owner \notin {u, Nothing})
          /\ FirstUses!KeyFree(FirstUses!Open)
          /\ UNCHANGED <<driver, mode, completedBy, created, existing, submitted, removal>>
      BY <1>2 DEF FirstUses!ClaimByLink
    <2>2. FirstUses!TypeOK'
      BY <1>0, <2>1 DEF SetupInv, FirstUses!TypeOK, FirstUses!Memberships
    <2>3. OneOwner'
      <3>. SUFFICES ASSUME ~relinked'
                    PROVE  /\ completedBy \in {u, Nothing}
                           /\ \A v \in FirstUses!People : created[v] > 0 => v = u
                           /\ \A q \in Claimed' : u \in {submitted[q].user, Nothing}
        BY <2>1 DEF OneOwner
      <3>1. ~relinked /\ owner \in {u, Nothing}
        BY <2>1
      <3>2. Claimed' = Claimed /\ Claimed \subseteq FirstUses!Open
        BY <2>1 DEF Claimed, FirstUses!Open, FirstUses!InTransaction
      <3>3. owner = Nothing => Claimed = {}
        BY <2>1, <3>2 DEF FirstUses!KeyFree, Claimed
      <3>. QED  BY <1>0, <3>1, <3>2, <3>3, SetupConstants DEF SetupInv, OneOwner
    <2>4. ClaimsAlone' /\ SubmittersAreKnown'
      BY <1>0, <2>1 DEF SetupInv, ClaimsAlone, SubmittersAreKnown
    <2>5. OneConnection'
      <3>. SUFFICES ASSUME driver = "sqlite" PROVE OneConnection'
        BY <2>1 DEF OneConnection
      <3>1. FirstUses!Open = {} /\ removal = Nothing
        BY <2>1 DEF SetupInv, OneConnection, NoLinkOpen
      <3>2. FirstUses!Open' = {}
        BY <2>1, <3>1 DEF FirstUses!Open
      <3>. QED
        BY <1>0, <2>1, <3>1, <3>2 DEF SetupInv, FirstUses!TypeOK, OneConnection, FirstUses!SetUpOnce,
           FirstUses!OwnerStaysMember
    <2>. QED  BY <2>2, <2>3, <2>4, <2>5 DEF SetupInv
  <1>. QED  BY <1>1, <1>2

\* A restart, in whatever mode, keeps one owner.
LEMMA RestartKeeps ==
  ASSUME SetupInv, NEW m \in FirstUses!Modes, FirstUses!Restart(m)
  PROVE  SetupInv'
  <1>1. FirstUses!Open' = {} /\ Claimed' = {}
    BY DEF FirstUses!Restart, FirstUses!Open, Claimed, FirstUses!NoRequest, FirstUses!InTransaction
  <1>2. admitted' \in [FirstUses!People -> FirstUses!Memberships]
    BY DEF FirstUses!Restart, FirstUses!WithoutLocalUser, SetupInv, FirstUses!TypeOK, FirstUses!Memberships
  <1>3. owner # Nothing => admitted'[owner] = admitted[owner]
    BY DEF FirstUses!Restart, FirstUses!WithoutLocalUser, SetupInv, FirstUses!TypeOK
  <1>4. FirstUses!TypeOK'
    BY <1>2 DEF FirstUses!Restart, SetupInv, FirstUses!TypeOK, FirstUses!NoRequest
  <1>5. OneOwner' /\ ClaimsAlone' /\ SubmittersAreKnown'
    BY <1>1 DEF FirstUses!Restart, SetupInv, OneOwner, ClaimsAlone, SubmittersAreKnown,
       FirstUses!NoRequest
  <1>6. OneConnection'
    BY <1>1, <1>3 DEF FirstUses!Restart, SetupInv, OneConnection, FirstUses!SetUpOnce,
       FirstUses!OwnerStaysMember
  <1>. QED  BY <1>4, <1>5, <1>6 DEF SetupInv

\* A rejected submission keeps one owner.
LEMMA RejectedKeeps ==
  ASSUME SetupInv, NEW q \in Submissions, FirstUses!Rejected(q)
  PROVE  SetupInv'
  <1>1. /\ submitted' = [submitted EXCEPT ![q] = FirstUses!NoRequest]
        /\ UNCHANGED <<driver, mode, owner, completedBy, admitted, created, existing, removal,
                        tokens, link, relinked>>
    BY DEF FirstUses!Rejected
  <1>2. /\ \A r \in Submissions : submitted'[r] \in {submitted[r], FirstUses!NoRequest}
        /\ submitted' = [r \in Submissions |-> submitted'[r]]
    BY <1>1 DEF SetupInv, FirstUses!TypeOK
  <1>. QED  BY <1>1, <1>2, DropKeeps DEF SetupInv, FirstUses!TypeOK

\* Every step keeps one owner.
LEMMA SetupInvStep == SetupInv /\ [FirstUses!Next]_(FirstUses!vars) => SetupInv'
  <1>. SUFFICES ASSUME SetupInv, [FirstUses!Next]_(FirstUses!vars) PROVE SetupInv'
    OBVIOUS
  <1>1. ASSUME NEW u \in FirstUses!People, NEW q \in Submissions, FirstUses!Submit(u, q)
        PROVE  SetupInv'
    <2>1. /\ submitted' = [submitted EXCEPT ![q] = [step |-> "allowed", user |-> u]]
          /\ submitted[q] = FirstUses!NoRequest
          /\ UNCHANGED <<driver, mode, owner, completedBy, admitted, created, existing, removal,
                          tokens, link, relinked>>
      BY <1>1 DEF FirstUses!Submit
    <2>2. /\ FirstUses!TypeOK' /\ submitted'[q] = [step |-> "allowed", user |-> u]
          /\ \A r \in Submissions : r # q => submitted'[r] = submitted[r]
      BY <2>1 DEF SetupInv, FirstUses!TypeOK
    <2>3. /\ Claimed' = Claimed /\ FirstUses!Open' = FirstUses!Open
          /\ \A r \in Claimed : submitted'[r] = submitted[r]
      BY <2>1, <2>2 DEF Claimed, FirstUses!Open, FirstUses!NoRequest, FirstUses!InTransaction
    <2>4. OneOwner' /\ ClaimsAlone'
      BY <2>1, <2>3 DEF SetupInv, OneOwner, ClaimsAlone
    <2>5. SubmittersAreKnown'
      BY <2>2 DEF SetupInv, SubmittersAreKnown
    <2>6. OneConnection'
      BY <2>1, <2>3 DEF SetupInv, OneConnection, NoLinkOpen, FirstUses!SetUpOnce,
         FirstUses!OwnerStaysMember
    <2>. QED  BY <2>2, <2>4, <2>5, <2>6 DEF SetupInv
  <1>2. ASSUME NEW q \in Submissions, FirstUses!Begin(q)
        PROVE  SetupInv'
    BY <1>2, AdvanceKeeps DEF FirstUses!Begin, FirstUses!InTransaction
  <1>3. ASSUME NEW q \in Submissions, FirstUses!KnowUser(q)
        PROVE  SetupInv'
    BY <1>3, AdvanceKeeps DEF FirstUses!KnowUser, FirstUses!InTransaction
  <1>4. ASSUME NEW q \in Submissions, FirstUses!Claim(q)
        PROVE  SetupInv'
    <2>1. owner # Nothing \/ \A r \in Claimed : r = q
      BY <1>4 DEF FirstUses!Claim, FirstUses!KeyFree, FirstUses!Open, Claimed,
         FirstUses!InTransaction
    <2>. QED
      BY <1>4, <2>1, AdvanceKeeps DEF FirstUses!Claim, FirstUses!Claimable,
         FirstUses!InTransaction
  <1>5. ASSUME NEW q \in Submissions,
               FirstUses!AlreadyComplete(q) \/ FirstUses!ClaimConflict(q) \/ FirstUses!Fail(q)
        PROVE  SetupInv'
    BY <1>5, RejectedKeeps
    DEF FirstUses!AlreadyComplete, FirstUses!ClaimConflict, FirstUses!Fail
  <1>6. CASE FirstUses!Rotate
    BY <1>6 DEF FirstUses!Rotate, SetupInv, FirstUses!TypeOK, OneOwner, Claimed, ClaimsAlone,
       SubmittersAreKnown, OneConnection, FirstUses!Open, NoLinkOpen, FirstUses!SetUpOnce,
       FirstUses!OwnerStaysMember
  <1>7. CASE UNCHANGED FirstUses!vars
    BY <1>7 DEF FirstUses!vars, SetupInv, FirstUses!TypeOK, OneOwner, Claimed, ClaimsAlone,
       SubmittersAreKnown, OneConnection, FirstUses!Open, NoLinkOpen, FirstUses!SetUpOnce,
       FirstUses!OwnerStaysMember
  <1>. QED
    BY <1>1, <1>2, <1>3, <1>4, <1>5, <1>6, <1>7, CommitKeeps, ChangeRecordsKeeps, RemovalKeeps,
       LinkKeeps, RestartKeeps DEF FirstUses!Next

\* Overlapping submissions set an installation up for one owner; with SQLite
\* once, and the owner stays a member (completeFirstUseSetup,
\* claimOrAssertOwner, removeMember).
THEOREM SetUpForOne == Spec => []OneSetup
  <1>1. FirstUses!Spec => []SetupInv
    BY SetupInvInit, SetupInvStep, PTL DEF FirstUses!Spec
  <1>2. SetupInv => OneSetup
    BY DEF SetupInv, OneOwner, OneConnection, OneSetup, FirstUses!OneSetup
  <1>. QED  BY <1>1, <1>2, FirstUseIsPart, PTL

\* Every variable of these parts has its type.
THEOREM IdentityTypes ==
  Spec => [](/\ part = "recovery" => Recovery!TypeOK
             /\ part = "setup" => FirstUses!TypeOK
             /\ part = "requests" => Requesting!TypeOK)
  <1>1. Recovery!Spec => []Recovery!TypeOK
    BY RecoveryTypeInit, RecoveryTypeStep, PTL DEF Recovery!Spec
  <1>2. SetupInv => FirstUses!TypeOK
    BY DEF SetupInv
  <1>3. FirstUses!Spec => []FirstUses!TypeOK
    BY <1>2, SetupInvInit, SetupInvStep, PTL DEF FirstUses!Spec
  <1>4. RequestInv => Requesting!TypeOK
    BY DEF RequestInv
  <1>5. Requesting!Spec => []Requesting!TypeOK
    BY <1>4, RequestInvInit, RequestInvStep, PTL DEF Requesting!Spec
  <1>. QED  BY <1>1, <1>3, <1>5, RecoveryIsPart, FirstUseIsPart, RequestingIsPart, PTL

-----------------------------------------------------------------------------
(* The schema and the release that uses it. As above, a behaviour of all   *)
(* parts is, seen from one of them, a behaviour of it.                     *)

\* What the server does about its migrations is what Startup allows.
LEMMA StartingIsPart == Spec => Starting!Spec
  <1>1. Init => Starting!Init
    BY DEF Init
  <1>2. [Next]_vars => [Starting!Next]_(Starting!vars)
    BY DEF Next, vars, startupVars, Starting!vars
  <1>. QED  BY <1>1, <1>2, PTL DEF Spec, Starting!Spec

\* What happens to a release is what ReleaseUpdate allows.
LEMMA UpdateIsPart == Spec => Update!Spec
  <1>1. Init => Update!Init
    BY DEF Init
  <1>2. [Next]_vars => [Update!Next]_(Update!vars)
    BY DEF Next, vars, updateVars, Update!vars
  <1>. QED  BY <1>1, <1>2, PTL DEF Spec, Update!Spec

-----------------------------------------------------------------------------
(* Migrations.                                                             *)

\* There are finitely many migrations and every release has some.
LEMMA StartupConstants ==
  /\ LastMigration \in Nat /\ MaxStarts \in Nat
  /\ Has \in [Servers -> 1..LastMigration]
  /\ Nothing \notin Servers
  BY ServerAssumption DEF ServerAssumption, Starting!HasAssumption

\* What a start read is still in the table, and a start that is through with
\* the migrations has those of its release.
MigrationsStay ==
  \A s \in Servers :
    /\ process[s].seen \subseteq table
    /\ process[s].step \in {"migrated", "serving"} => Starting!Versions(s) \subseteq table

\* The recorded migrations took effect once, and there is no gap.
OnceWithoutGaps ==
  /\ \A v \in 1..LastMigration : applied[v] = IF v \in table THEN 1 ELSE 0
  /\ \A v \in table : 1..v \subseteq table

StartInv == Starting!TypeOK /\ MigrationsStay /\ OnceWithoutGaps

\* The inductive invariant holds of a new database and of one of an earlier
\* release.
LEMMA StartInvInit == Starting!Init => StartInv
  <1>. SUFFICES ASSUME Starting!Init PROVE StartInv
    OBVIOUS
  <1>1. PICK n \in 0..LastMigration :
          table = 1..n /\ applied = [v \in 1..LastMigration |-> IF v <= n THEN 1 ELSE 0]
    BY DEF Starting!Init
  <1>2. Starting!TypeOK
    BY <1>1, StartupConstants DEF Starting!Init, Starting!TypeOK, Starting!Stopped
  <1>3. MigrationsStay
    BY DEF Starting!Init, Starting!Stopped, MigrationsStay
  <1>4. OnceWithoutGaps
    BY <1>1, StartupConstants DEF OnceWithoutGaps
  <1>. QED  BY <1>2, <1>3, <1>4 DEF StartInv

\* Versions that are recorded for the first time, with everything below them
\* that is not recorded yet, keep the table whole.
LEMMA TookKeeps ==
  ASSUME StartInv, NEW vs \in SUBSET (1..LastMigration), Starting!Took(vs),
         \A v \in vs : 1..v \subseteq table \cup vs
  PROVE  /\ OnceWithoutGaps'
         /\ table \subseteq table' /\ vs \subseteq table' /\ table' \subseteq 1..LastMigration
         /\ applied' \in [1..LastMigration -> Nat]
  BY StartupConstants
  DEF StartInv, Starting!TypeOK, OnceWithoutGaps, Starting!Took, Starting!Recordable

\* A start that changes only its own row leaves the table to the others.
LEMMA StaysForOthers ==
  ASSUME StartInv, NEW s \in Servers, table \subseteq table',
         process' \in [Servers -> [step : {"stopped", "starting", "migrating", "migrated", "serving"},
                                   seen : SUBSET (1..LastMigration), closed : BOOLEAN]],
         \A t \in Servers \ {s} : process'[t] = process[t],
         process'[s].seen \subseteq table',
         process'[s].step \in {"migrated", "serving"} => Starting!Versions(s) \subseteq table'
  PROVE  MigrationsStay'
  BY DEF MigrationsStay, StartInv, Starting!Versions

\* No step of a start or of a stop disturbs it.
LEMMA StartInvStep == StartInv /\ [Starting!Next]_(Starting!vars) => StartInv'
  <1>. SUFFICES ASSUME StartInv, [Starting!Next]_(Starting!vars)
                PROVE  StartInv'
    OBVIOUS
  <1>. DEFINE Row == [step : {"stopped", "starting", "migrating", "migrated", "serving"},
                      seen : SUBSET (1..LastMigration), closed : BOOLEAN]
  <1>. USE StartupConstants DEF Starting!TypeOK
  <1>0. /\ Starting!TypeOK /\ MigrationsStay /\ OnceWithoutGaps
        /\ process \in [Servers -> Row]
    BY DEF StartInv
  <1>1. ASSUME NEW s \in Servers, Starting!Start(s)
        PROVE  StartInv'
    <2>1. process' = [process EXCEPT ![s] = [step |-> "starting", seen |-> {}, closed |-> FALSE]]
      BY <1>1 DEF Starting!Start
    <2>2. process' \in [Servers -> Row]
      BY <1>0, <2>1
    <2>3. MigrationsStay'
      BY <1>0, <1>1, <2>1, <2>2, StaysForOthers DEF Starting!Start
    <2>. QED  BY <1>0, <1>1, <2>2, <2>3 DEF Starting!Start, StartInv, OnceWithoutGaps
  <1>2. ASSUME NEW s \in Servers, Starting!ReadApplied(s)
        PROVE  StartInv'
    <2>1. process' = [process EXCEPT ![s] = [process[s] EXCEPT !.step = "migrating", !.seen = table]]
      BY <1>0, <1>2 DEF Starting!ReadApplied
    <2>2. process' \in [Servers -> Row]
      BY <1>0, <2>1
    <2>3. process'[s].seen = table /\ process'[s].step = "migrating"
      BY <1>0, <2>1
    <2>4. MigrationsStay'
      BY <1>0, <1>2, <2>1, <2>2, <2>3, StaysForOthers DEF Starting!ReadApplied
    <2>. QED  BY <1>0, <1>2, <2>2, <2>4 DEF Starting!ReadApplied, StartInv, OnceWithoutGaps
  <1>3. ASSUME NEW s \in Servers, Starting!ApplyOne(s)
        PROVE  StartInv'
    <2>1. PICK v \in Starting!Missing(s) :
            /\ \A w \in Starting!Missing(s) : v <= w
            /\ Starting!Took({v})
            /\ process' = [process EXCEPT ![s].seen = @ \cup {v}]
      BY <1>3 DEF Starting!ApplyOne
    <2>2. v \in 1..LastMigration /\ v \in Starting!Versions(s)
      BY <1>0 DEF Starting!Missing, Starting!Versions
    <2>3. 1..v \subseteq table \cup {v}
      <3>1. ASSUME NEW w \in 1..v, w # v
            PROVE  w \in process[s].seen
        <4>1. w \in Starting!Versions(s) /\ ~(v <= w)
          BY <2>2, <3>1 DEF Starting!Versions
        <4>. QED  BY <2>1, <4>1 DEF Starting!Missing
      <3>. QED  BY <1>0, <3>1 DEF MigrationsStay
    <2>4. /\ OnceWithoutGaps' /\ table \subseteq table' /\ v \in table'
          /\ table' \subseteq 1..LastMigration /\ applied' \in [1..LastMigration -> Nat]
      BY <2>1, <2>2, <2>3, TookKeeps
    <2>5. process' = [process EXCEPT ![s] = [process[s] EXCEPT !.seen = process[s].seen \cup {v}]]
      BY <1>0, <2>1
    <2>6. process' \in [Servers -> Row]
      BY <1>0, <2>2, <2>5
    <2>7. process'[s].seen = process[s].seen \cup {v} /\ process'[s].step = "migrating"
      BY <1>0, <1>3, <2>5 DEF Starting!ApplyOne
    <2>8. MigrationsStay'
      <3>1. process'[s].seen \subseteq table'
        BY <1>0, <2>4, <2>7 DEF MigrationsStay
      <3>2. \A t \in Servers \ {s} : process'[t] = process[t]
        BY <1>0, <2>5
      <3>. QED  BY <2>4, <2>6, <2>7, <3>1, <3>2, StaysForOthers
    <2>. QED  BY <1>0, <1>3, <2>4, <2>6, <2>8 DEF Starting!ApplyOne, StartInv
  <1>4. ASSUME NEW s \in Servers, Starting!ApplyAll(s)
        PROVE  StartInv'
    <2>. DEFINE vs == Starting!Missing(s)
    <2>1. vs \subseteq 1..LastMigration
      BY <1>0 DEF Starting!Missing, Starting!Versions
    <2>2. \A v \in vs : 1..v \subseteq table \cup vs
      BY <1>0 DEF Starting!Missing, Starting!Versions, MigrationsStay
    <2>3. Starting!Took(vs)
      BY <1>4 DEF Starting!ApplyAll
    <2>4. /\ OnceWithoutGaps' /\ table \subseteq table' /\ vs \subseteq table'
          /\ table' \subseteq 1..LastMigration /\ applied' \in [1..LastMigration -> Nat]
      BY <2>1, <2>2, <2>3, TookKeeps
    <2>5. process' = [process EXCEPT ![s] =
                       [process[s] EXCEPT !.step = "migrated", !.seen = process[s].seen \cup vs]]
      BY <1>0, <1>4 DEF Starting!ApplyAll
    <2>6. process' \in [Servers -> Row]
      BY <1>0, <2>1, <2>5
    <2>7. process'[s].seen = process[s].seen \cup vs
      BY <1>0, <2>5
    <2>8. MigrationsStay'
      <3>1. process'[s].seen \subseteq table'
        BY <1>0, <2>4, <2>7 DEF MigrationsStay
      <3>2. \A t \in Servers \ {s} : process'[t] = process[t]
        BY <1>0, <2>5
      <3>3. Starting!Versions(s) \subseteq table'
        BY <1>0, <2>4 DEF MigrationsStay, Starting!Missing
      <3>. QED  BY <2>4, <2>6, <3>1, <3>2, <3>3, StaysForOthers
    <2>. QED  BY <1>0, <1>4, <2>4, <2>6, <2>8 DEF Starting!ApplyAll, StartInv
  <1>5. ASSUME NEW s \in Servers, Starting!NothingMissing(s)
        PROVE  StartInv'
    <2>1. process' = [process EXCEPT ![s] = [process[s] EXCEPT !.step = "migrated"]]
      BY <1>0, <1>5 DEF Starting!NothingMissing
    <2>2. process' \in [Servers -> Row]
      BY <1>0, <2>1
    <2>3. process'[s].seen = process[s].seen /\ Starting!Versions(s) \subseteq table
      BY <1>0, <1>5, <2>1 DEF Starting!NothingMissing, Starting!Missing, MigrationsStay
    <2>4. MigrationsStay'
      BY <1>0, <1>5, <2>1, <2>2, <2>3, StaysForOthers DEF Starting!NothingMissing, MigrationsStay
    <2>. QED  BY <1>0, <1>5, <2>2, <2>4 DEF Starting!NothingMissing, StartInv, OnceWithoutGaps
  <1>6. ASSUME NEW s \in Servers, Starting!Listen(s)
        PROVE  StartInv'
    <2>1. process' = [process EXCEPT ![s] = [process[s] EXCEPT !.step = "serving"]]
      BY <1>0, <1>6 DEF Starting!Listen
    <2>2. process' \in [Servers -> Row]
      BY <1>0, <2>1
    <2>3. process'[s].seen = process[s].seen /\ Starting!Versions(s) \subseteq table
      BY <1>0, <1>6, <2>1 DEF Starting!Listen, MigrationsStay
    <2>4. MigrationsStay'
      BY <1>0, <1>6, <2>1, <2>2, <2>3, StaysForOthers DEF Starting!Listen, MigrationsStay
    <2>. QED  BY <1>0, <1>6, <2>2, <2>4 DEF Starting!Listen, StartInv, OnceWithoutGaps
  <1>7. ASSUME NEW s \in Servers, Starting!Exit(s)
        PROVE  StartInv'
    <2>1. process' = [process EXCEPT ![s] = Starting!Stopped] /\ table' = table
      BY <1>7 DEF Starting!Exit
    <2>2. process' \in [Servers -> Row]
      BY <1>0, <2>1 DEF Starting!Stopped
    <2>3. MigrationsStay'
      BY <1>0, <2>1, <2>2, StaysForOthers DEF Starting!Stopped
    <2>. QED  BY <1>0, <1>7, <2>2, <2>3 DEF Starting!Exit, StartInv, OnceWithoutGaps
  <1>8. ASSUME NEW s \in Servers, Starting!Shutdown(s)
        PROVE  StartInv'
    <2>1. process' = [process EXCEPT ![s] = [process[s] EXCEPT !.closed = TRUE]] /\ table' = table
      BY <1>0, <1>8 DEF Starting!Shutdown
    <2>2. process' \in [Servers -> Row]
      BY <1>0, <2>1
    <2>3. process'[s].seen = process[s].seen /\ process'[s].step = process[s].step
      BY <1>0, <2>1
    <2>4. MigrationsStay'
      BY <1>0, <2>1, <2>2, <2>3, StaysForOthers DEF MigrationsStay
    <2>. QED  BY <1>0, <1>8, <2>2, <2>4 DEF Starting!Shutdown, StartInv, OnceWithoutGaps
  <1>9. CASE UNCHANGED Starting!vars
    BY <1>0, <1>9 DEF Starting!vars, StartInv, MigrationsStay, OnceWithoutGaps, Starting!Versions
  <1>. QED
    BY <1>1, <1>2, <1>3, <1>4, <1>5, <1>6, <1>7, <1>8, <1>9 DEF Starting!Next

\* Whatever starts overlap or are cut short, the invariant holds.
LEMMA StartInvHolds == Spec => []StartInv
  BY StartInvInit, StartInvStep, StartingIsPart, PTL DEF Starting!Spec

\* The schema is whole.
LEMMA StartInvWhole == StartInv => Starting!SchemaIsWhole
  BY DEF StartInv, OnceWithoutGaps, MigrationsStay, Starting!SchemaIsWhole, Starting!Ready
-----------------------------------------------------------------------------
(* The update of an installation.                                          *)

\* There are releases.
LEMMA UpdateConstants == LastRelease \in Nat \ {0} /\ UpdateWrites \in Nat
  BY ServerAssumption DEF ServerAssumption, Update!BoundAssumption

\* One run of the tool at a time, and only forward: what the operator does who
\* follows docs/update.md. (The tool itself keeps neither: runUpdate reads the
\* active release before it takes the lock, and accepts an older one.)
ForwardByOne == ~OlderTargets /\ \A t, u \in Tools : t = u

\* A run of the tool knows an earlier and a later release, its backup is of the
\* earlier one, and .env names one of them: before the switch and after the
\* restoration the earlier one.
RunKnows(t) ==
  /\ tool[t].previous < tool[t].target
  /\ tool[t].backup.schema <= tool[t].previous
  /\ running # 0 => tool[t].backup.schema <= running
  /\ env \in {tool[t].previous, tool[t].target}
  /\ tool[t].step \in {"read", "locked", "backedUp", "extracted", "envRestored", "restarted"}
       => env = tool[t].previous
  /\ tool[t].step = "restored" => db.schema <= tool[t].previous

\* No release meets a newer schema, neither the one that runs nor the one that
\* would be started.
SchemaInv ==
  /\ Update!TypeOK
  /\ db.schema <= env
  /\ Update!OldCodeNeverOnNewerSchema
  /\ \A t \in Tools : tool[t] # Update!Idle => RunKnows(t)

\* The steps of a run that are left, without the one that is none.
Going == [step : Update!Steps, target : Update!Versions, previous : Update!Versions,
          backup : Update!Database]

\* It holds of an installation that was never updated.
LEMMA SchemaInvInit == Update!Init => SchemaInv
  <1>. SUFFICES ASSUME Update!Init PROVE SchemaInv
    OBVIOUS
  <1>1. 1 \in Update!Versions /\ [schema |-> 1, data |-> 0] \in Update!Database
    BY UpdateConstants DEF Update!Versions, Update!Database
  <1>2. tool \in [Tools -> {Update!Idle}] /\ \A t \in Tools : tool[t] = Update!Idle
    BY DEF Update!Init
  <1>3. env = 1 /\ releases = {1} /\ running = 1 /\ db = [schema |-> 1, data |-> 0] /\ lock = FALSE
    BY DEF Update!Init
  <1>4. 1 \in 0..LastRelease
    BY UpdateConstants
  <1>5. Update!TypeOK
    BY <1>1, <1>2, <1>3, <1>4 DEF Update!TypeOK
  <1>. QED  BY <1>2, <1>3, <1>5 DEF SchemaInv, Update!OldCodeNeverOnNewerSchema

\* A run that is under way has a row with all its fields; one that is not has
\* none of them.
LEMMA RowsOfTools ==
  ASSUME SchemaInv, NEW t \in Tools
  PROVE  /\ tool[t] = Update!Idle \/ tool[t] \in Going
         /\ tool[t].step # "idle" => tool[t] \in Going /\ tool[t] # Update!Idle /\ RunKnows(t)
         /\ tool[t] # Update!Idle => tool[t] \in Going /\ RunKnows(t)
  BY DEF SchemaInv, Update!TypeOK, Going, Update!Idle

\* With one run at a time, its row is all that has to be looked at.
LEMMA OneRow ==
  ASSUME SchemaInv, ForwardByOne, NEW t \in Tools,
         NEW now, tool' = [tool EXCEPT ![t] = now]
  PROVE  /\ tool'[t] = now
         /\ \A u \in Tools : u = t
         /\ now = Update!Idle \/ now \in Going
              => tool' \in [Tools -> {Update!Idle} \cup Going]
  BY DEF SchemaInv, Update!TypeOK, ForwardByOne, Going

\* Starting what .env names leaves no release on a newer schema.
LEMMA StartedRelease ==
  ASSUME SchemaInv, Update!Starts(env)
  PROVE  /\ running' = env /\ db' \in Update!Database /\ db'.schema = env /\ running' \in 1..LastRelease
  <1>1. db' = [db EXCEPT !.schema = IF env > db.schema THEN env ELSE db.schema]
    BY DEF Update!Starts, Update!Migrated
  <1>2. env \in Update!Versions /\ db \in Update!Database /\ db.schema <= env
    BY DEF SchemaInv, Update!TypeOK
  <1>3. (IF env > db.schema THEN env ELSE db.schema) = env
    BY <1>2 DEF Update!Versions, Update!Database
  <1>. QED  BY <1>1, <1>2, <1>3, UpdateConstants DEF Update!Starts, Update!Versions, Update!Database


\* A run goes to its next step, and keeps what it knows.
RowGoes(t, step) ==
  /\ tool[t] \in Going /\ RunKnows(t)
  /\ tool'[t] \in Going /\ tool'[t] # Update!Idle
  /\ tool'[t].step = step /\ tool'[t].target = tool[t].target
  /\ tool'[t].previous = tool[t].previous /\ tool'[t].backup = tool[t].backup
  /\ tool' \in [Tools -> {Update!Idle} \cup Going]
  /\ \A u \in Tools : u = t

\* Go does no more than that.
LEMMA NextRow ==
  ASSUME SchemaInv, ForwardByOne, NEW t \in Tools, tool[t].step # "idle",
         NEW step \in Update!Steps, tool' = [tool EXCEPT ![t].step = step]
  PROVE  RowGoes(t, step)
  <1>1. tool[t] \in Going /\ RunKnows(t)
    BY RowsOfTools
  <1>. DEFINE now == [tool[t] EXCEPT !.step = step]
  <1>2. tool' = [tool EXCEPT ![t] = now]
    BY DEF SchemaInv, Update!TypeOK
  <1>3. now \in Going /\ now.step = step /\ now.target = tool[t].target
        /\ now.previous = tool[t].previous /\ now.backup = tool[t].backup
    BY <1>1 DEF Going
  <1>4. now.step # "idle"
    BY <1>3 DEF Update!Steps
  <1>. HIDE DEF now
  <1>5. tool'[t] = now /\ (\A u \in Tools : u = t) /\ tool' \in [Tools -> {Update!Idle} \cup Going]
    BY <1>2, <1>3, OneRow
  <1>. QED  BY <1>1, <1>3, <1>4, <1>5 DEF Update!Idle, RowGoes

\* A run that ends or is killed leaves no row.
LEMMA NoRow ==
  ASSUME SchemaInv, ForwardByOne, NEW t \in Tools, tool' = [tool EXCEPT ![t] = Update!Idle]
  PROVE  tool' \in [Tools -> {Update!Idle} \cup Going] /\ \A u \in Tools : tool'[u] = Update!Idle
  BY OneRow

\* No step of the tool, of a member or of the operator disturbs the invariant.
LEMMA SchemaInvStep ==
  ASSUME ForwardByOne, SchemaInv, [Update!Next]_(Update!vars)
  PROVE  SchemaInv'
  <1>. USE UpdateConstants
  <1>0. /\ env \in Update!Versions /\ releases \subseteq Update!Versions
        /\ running \in 0..LastRelease /\ db \in Update!Database /\ lock \in BOOLEAN
        /\ tool \in [Tools -> {Update!Idle} \cup Going]
        /\ db.schema <= env
        /\ running # 0 => db.schema <= running
    BY DEF SchemaInv, Update!TypeOK, Update!OldCodeNeverOnNewerSchema, Going
  <1>1. CASE Update!MemberWrites
    <2>1. db' = [db EXCEPT !.data = db.data + 1] /\ db.data < UpdateWrites
      BY <1>1 DEF Update!MemberWrites
    <2>2. db' \in Update!Database /\ db'.schema = db.schema
      BY <1>0, <2>1 DEF Update!Database
    <2>3. ASSUME NEW t \in Tools, tool[t] # Update!Idle
          PROVE  RunKnows(t)'
      BY <1>1, <2>2, <2>3, RowsOfTools DEF Update!MemberWrites, RunKnows
    <2>. QED
      BY <1>0, <1>1, <2>2, <2>3
      DEF Update!MemberWrites, SchemaInv, Update!TypeOK, Update!OldCodeNeverOnNewerSchema, Going
  <1>2. ASSUME NEW t \in Tools, Update!ReadActiveRelease(t)
        PROVE  SchemaInv'
    <2>1. PICK target \in Update!Versions :
            /\ target > env
            /\ tool' = [tool EXCEPT ![t] = [step |-> "read", target |-> target,
                                           previous |-> env, backup |-> db]]
      BY <1>2 DEF Update!ReadActiveRelease, ForwardByOne
    <2>. DEFINE now == [step |-> "read", target |-> target, previous |-> env, backup |-> db]
    <2>2. now \in Going
      BY <1>0 DEF Going, Update!Steps
    <2>3. tool'[t] = now /\ (\A u \in Tools : u = t) /\ tool' \in [Tools -> {Update!Idle} \cup Going]
      BY <2>1, <2>2, OneRow
    <2>4. RunKnows(t)'
      BY <1>0, <1>2, <2>1, <2>3 DEF Update!ReadActiveRelease, RunKnows, Update!Versions, Update!Database
    <2>. QED
      BY <1>0, <1>2, <2>3, <2>4
      DEF Update!ReadActiveRelease, SchemaInv, Update!TypeOK, Update!OldCodeNeverOnNewerSchema, Going
  <1>3. ASSUME NEW t \in Tools, Update!AcquireLock(t)
        PROVE  SchemaInv'
    <2>1. tool[t].step = "read" /\ tool' = [tool EXCEPT ![t].step = "locked"]
      BY <1>3 DEF Update!AcquireLock, Update!Go
    <2>r. RowGoes(t, "locked")
      BY <2>1, NextRow DEF Update!Steps
    <2>2. RunKnows(t)'
      BY <1>3, <2>1, <2>r DEF RowGoes, Update!AcquireLock, RunKnows
    <2>. QED
      BY <1>0, <1>3, <2>1, <2>2, <2>r
      DEF RowGoes, Update!AcquireLock, SchemaInv, Update!TypeOK, Update!OldCodeNeverOnNewerSchema, Going
  <1>4. ASSUME NEW t \in Tools, Update!CreateBackup(t)
        PROVE  SchemaInv'
    <2>1. tool[t].step = "locked"
      BY <1>4 DEF Update!CreateBackup
    <2>2. tool[t] \in Going /\ RunKnows(t)
      BY <2>1, RowsOfTools
    <2>. DEFINE now == [tool[t] EXCEPT !.step = "backedUp", !.backup = db]
    <2>3. tool' = [tool EXCEPT ![t] = now]
      BY <1>0, <1>4 DEF Update!CreateBackup
    <2>4. /\ now \in Going /\ now.step = "backedUp" /\ now.backup = db
          /\ now.target = tool[t].target /\ now.previous = tool[t].previous
      BY <1>0, <2>2 DEF Going, Update!Steps
    <2>. HIDE DEF now
    <2>5. tool'[t] = now /\ (\A u \in Tools : u = t) /\ tool' \in [Tools -> {Update!Idle} \cup Going]
      BY <2>3, <2>4, OneRow
    <2>6. RunKnows(t)'
      BY <1>0, <1>4, <2>1, <2>2, <2>4, <2>5 DEF Update!CreateBackup, RunKnows
    <2>. QED
      BY <1>0, <1>4, <2>5, <2>6
      DEF Update!CreateBackup, SchemaInv, Update!TypeOK, Update!OldCodeNeverOnNewerSchema, Going
  <1>5. ASSUME NEW t \in Tools, Update!ExtractRelease(t)
        PROVE  SchemaInv'
    <2>1. tool[t].step = "backedUp" /\ tool' = [tool EXCEPT ![t].step = "extracted"]
      BY <1>5 DEF Update!ExtractRelease, Update!Go
    <2>r. RowGoes(t, "extracted")
      BY <2>1, NextRow DEF Update!Steps
    <2>2. tool[t].target \in Update!Versions
      BY <2>1, <2>r DEF RowGoes, Going
    <2>3. RunKnows(t)'
      BY <1>5, <2>1, <2>r DEF RowGoes, Update!ExtractRelease, RunKnows
    <2>. QED
      BY <1>0, <1>5, <2>1, <2>2, <2>3, <2>r
      DEF RowGoes, Update!ExtractRelease, SchemaInv, Update!TypeOK, Update!OldCodeNeverOnNewerSchema, Going
  <1>6. ASSUME NEW t \in Tools, Update!SwitchEnv(t)
        PROVE  SchemaInv'
    <2>1. tool[t].step = "extracted" /\ tool' = [tool EXCEPT ![t].step = "switched"]
      BY <1>6 DEF Update!SwitchEnv, Update!Go
    <2>r. RowGoes(t, "switched")
      BY <2>1, NextRow DEF Update!Steps
    <2>2. /\ tool[t].target \in Update!Versions /\ tool[t].previous \in Update!Versions
          /\ RunKnows(t)
      BY <2>1, <2>r DEF RowGoes, Going
    <2>3. env' = tool[t].target /\ db'.schema <= env'
      BY <1>0, <1>6, <2>1, <2>2 DEF Update!SwitchEnv, RunKnows, Update!Versions, Update!Database
    <2>4. RunKnows(t)'
      BY <1>6, <2>1, <2>3, <2>r DEF RowGoes, Update!SwitchEnv, RunKnows
    <2>. QED
      BY <1>0, <1>6, <2>1, <2>2, <2>3, <2>4, <2>r
      DEF RowGoes, Update!SwitchEnv, SchemaInv, Update!TypeOK, Update!OldCodeNeverOnNewerSchema, Going
  <1>7. ASSUME NEW t \in Tools, NEW from \in Update!Steps, NEW to \in Update!Steps,
               to \in {"started", "restarted"}, from = "switched" \/ from = "envRestored",
               to = "restarted" => from = "envRestored",
               Update!Up(t, from, to)
        PROVE  SchemaInv'
    <2>1. tool[t].step = from /\ from # "idle" /\ tool' = [tool EXCEPT ![t].step = to]
      BY <1>7 DEF Update!Up, Update!Go
    <2>r. RowGoes(t, to)
      BY <1>7, <2>1, NextRow
    <2>2. /\ running' = env /\ db' \in Update!Database /\ db'.schema = env
          /\ running' \in 1..LastRelease /\ env' = env
      BY <1>7, StartedRelease DEF Update!Up
    <2>3. /\ tool[t].target \in Update!Versions /\ tool[t].previous \in Update!Versions
          /\ tool[t].backup.schema \in Update!Versions /\ RunKnows(t)
      BY <2>1, <2>r DEF RowGoes, Going, Update!Database
    <2>4. tool[t].backup.schema <= env
      BY <1>0, <2>3 DEF RunKnows, Update!Versions
    <2>5. RunKnows(t)'
      BY <1>7, <2>1, <2>2, <2>3, <2>4, <2>r DEF RowGoes, RunKnows
    <2>. QED
      BY <1>0, <1>7, <2>1, <2>2, <2>5, <2>r
      DEF RowGoes, Update!Up, SchemaInv, Update!TypeOK, Update!OldCodeNeverOnNewerSchema, Going,
          Update!Versions
  <1>8. ASSUME NEW t \in Tools, Update!End(t)
        PROVE  SchemaInv'
    <2>1. (lock /\ tool[t].step = "read") \in BOOLEAN
      OBVIOUS
    <2>. QED
      BY <1>0, <1>8, <2>1, NoRow
      DEF Update!End, SchemaInv, Update!TypeOK, Update!OldCodeNeverOnNewerSchema, Going
  <1>9. ASSUME NEW t \in Tools, Update!Fail(t)
        PROVE  SchemaInv'
    <2>1. /\ tool[t].step \in {"extracted", "switched", "started"}
          /\ tool' = [tool EXCEPT ![t].step = "failed"]
      BY <1>9 DEF Update!Fail, Update!Go
    <2>r. RowGoes(t, "failed")
      BY <2>1, NextRow DEF Update!Steps
    <2>2. RunKnows(t)'
      BY <1>9, <2>1, <2>r DEF RowGoes, Update!Fail, RunKnows
    <2>. QED
      BY <1>0, <1>9, <2>1, <2>2, <2>r
      DEF RowGoes, Update!Fail, SchemaInv, Update!TypeOK, Update!OldCodeNeverOnNewerSchema, Going
  <1>10. ASSUME NEW t \in Tools, Update!Down(t)
         PROVE  SchemaInv'
    <2>1. tool[t].step = "failed" /\ tool' = [tool EXCEPT ![t].step = "stopped"]
      BY <1>10 DEF Update!Down, Update!Go
    <2>r. RowGoes(t, "stopped")
      BY <2>1, NextRow DEF Update!Steps
    <2>2. RunKnows(t)'
      BY <1>10, <2>1, <2>r DEF RowGoes, Update!Down, RunKnows
    <2>. QED
      BY <1>0, <1>10, <2>1, <2>2, <2>r
      DEF RowGoes, Update!Down, SchemaInv, Update!TypeOK, Update!OldCodeNeverOnNewerSchema, Going
  <1>11. ASSUME NEW t \in Tools, Update!RestoreDatabase(t)
         PROVE  SchemaInv'
    <2>1. tool[t].step = "stopped" /\ tool' = [tool EXCEPT ![t].step = "restored"]
      BY <1>11 DEF Update!RestoreDatabase, Update!Go
    <2>r. RowGoes(t, "restored")
      BY <2>1, NextRow DEF Update!Steps
    <2>2. /\ tool[t].target \in Update!Versions /\ tool[t].previous \in Update!Versions
          /\ tool[t].backup \in Update!Database /\ RunKnows(t)
      BY <2>1, <2>r DEF RowGoes, Going
    <2>3. db' = tool[t].backup
      BY <1>11 DEF Update!RestoreDatabase, Update!DatabaseRestored
    <2>4. db'.schema <= env /\ db'.schema <= tool[t].previous /\ (running # 0 => db'.schema <= running)
      BY <1>0, <2>2, <2>3 DEF RunKnows, Update!Versions, Update!Database
    <2>5. RunKnows(t)'
      BY <1>11, <2>1, <2>4, <2>r DEF RowGoes, Update!RestoreDatabase, RunKnows
    <2>. QED
      BY <1>0, <1>11, <2>1, <2>2, <2>3, <2>4, <2>5, <2>r
      DEF RowGoes, Update!RestoreDatabase, SchemaInv, Update!TypeOK, Update!OldCodeNeverOnNewerSchema, Going
  <1>12. ASSUME NEW t \in Tools, Update!RestoreEnv(t)
         PROVE  SchemaInv'
    <2>1. tool[t].step = "restored" /\ tool' = [tool EXCEPT ![t].step = "envRestored"]
      BY <1>12 DEF Update!RestoreEnv, Update!Go
    <2>r. RowGoes(t, "envRestored")
      BY <2>1, NextRow DEF Update!Steps
    <2>2. tool[t].previous \in Update!Versions /\ RunKnows(t)
      BY <2>1, <2>r DEF RowGoes, Going
    <2>3. env' = tool[t].previous /\ db'.schema <= env'
      BY <1>12, <2>1, <2>2 DEF Update!RestoreEnv, RunKnows
    <2>4. RunKnows(t)'
      BY <1>12, <2>1, <2>3, <2>r DEF RowGoes, Update!RestoreEnv, RunKnows
    <2>. QED
      BY <1>0, <1>12, <2>1, <2>2, <2>3, <2>4, <2>r
      DEF RowGoes, Update!RestoreEnv, SchemaInv, Update!TypeOK, Update!OldCodeNeverOnNewerSchema, Going
  <1>13. ASSUME NEW t \in Tools, Update!Kill(t)
         PROVE  SchemaInv'
    BY <1>0, <1>13, NoRow
    DEF Update!Kill, SchemaInv, Update!TypeOK, Update!OldCodeNeverOnNewerSchema, Going
  <1>14. CASE Update!StartAgain
    <2>1. /\ running' = env /\ db' \in Update!Database /\ db'.schema = env
          /\ running' \in 1..LastRelease
      BY <1>14, StartedRelease DEF Update!StartAgain
    <2>. QED
      BY <1>0, <1>14, <2>1
      DEF Update!StartAgain, SchemaInv, Update!TypeOK, Update!OldCodeNeverOnNewerSchema, Going,
          Update!Versions
  <1>15. CASE UNCHANGED Update!vars
    BY <1>15
    DEF Update!vars, SchemaInv, Update!TypeOK, Update!OldCodeNeverOnNewerSchema, RunKnows
  <1>16. ASSUME NEW t \in Tools,
                Update!Up(t, "switched", "started") \/ Update!Up(t, "envRestored", "restarted")
         PROVE  SchemaInv'
    BY <1>7, <1>16 DEF Update!Steps
  <1>17. ASSUME NEW t \in Tools, Update!Complete(t) \/ Update!Refuse(t) \/ Update!RolledBack(t)
         PROVE  SchemaInv'
    BY <1>8, <1>17 DEF Update!Complete, Update!Refuse, Update!RolledBack
  <1>. QED
    BY <1>1, <1>2, <1>3, <1>4, <1>5, <1>6, <1>9, <1>10, <1>11, <1>12, <1>13, <1>14, <1>15, <1>16,
       <1>17 DEF Update!Next

\* Under an operator who runs one update at a time, and only forward, the
\* invariant holds whatever step fails or the tool is killed at.
LEMMA SchemaInvHolds ==
  ASSUME ForwardByOne
  PROVE  Spec => []SchemaInv
  <1>1. SchemaInv /\ [Update!Next]_(Update!vars) => SchemaInv'
    BY ForwardByOne, SchemaInvStep
  <1>. QED  BY <1>1, SchemaInvInit, UpdateIsPart, PTL DEF Update!Spec

-----------------------------------------------------------------------------
\* No release runs on a schema newer than its own, at whatever step an update
\* or its rollback fails or is killed, if the operator runs one update at a time
\* and none to an older release (runUpdate, rollback); every migration that is
\* recorded took effect once, whatever starts overlap, and a server that says it
\* is ready has those of its release (migrateDatabase, migratePostgresDatabase).
THEOREM SchemaFits ==
  ASSUME ForwardByOne
  PROVE  Spec => []SchemaFitsRelease
  <1>1. SchemaInv => Update!OldCodeNeverOnNewerSchema
    BY DEF SchemaInv
  <1>2. StartInv /\ SchemaInv => SchemaFitsRelease
    BY <1>1, StartInvWhole DEF SchemaFitsRelease
  <1>3. Spec => []SchemaInv
    BY SchemaInvHolds
  <1>. QED  BY <1>2, <1>3, StartInvHolds, PTL

\* Whatever the operator does, overlapping and aborted starts leave every
\* migration applied once or not at all (the primary key of schema_migrations,
\* the transactions of migrateDatabase and migratePostgresDatabase).
THEOREM SchemaWhole == Spec => [](part = "startup" => Starting!SchemaIsWhole)
  BY StartInvHolds, StartInvWhole, PTL

\* A run under way goes to another step.
LEMMA GoType ==
  ASSUME Update!TypeOK, NEW t \in Tools, tool[t].step # "idle", NEW step \in Update!Steps,
         Update!Go(t, step)
  PROVE  tool' \in [Tools -> {Update!Idle} \cup Going]
  <1>1. tool[t] \in Going
    BY DEF Update!TypeOK, Going, Update!Idle
  <1>2. [tool[t] EXCEPT !.step = step] \in Going
    BY <1>1 DEF Going
  <1>3. tool' = [tool EXCEPT ![t] = [tool[t] EXCEPT !.step = step]]
    BY DEF Update!Go, Update!TypeOK
  <1>. QED  BY <1>2, <1>3 DEF Update!TypeOK, Going

\* What a started release leaves is a database.
LEMMA StartsType ==
  ASSUME Update!TypeOK, Update!Starts(env)
  PROVE  db' \in Update!Database /\ running' \in 0..LastRelease
  <1>1. db' = [db EXCEPT !.schema = IF env > db.schema THEN env ELSE db.schema]
    BY DEF Update!Starts, Update!Migrated
  <1>2. env \in Update!Versions /\ db \in Update!Database
    BY DEF Update!TypeOK
  <1>3. (IF env > db.schema THEN env ELSE db.schema) \in Update!Versions
    BY <1>2 DEF Update!Versions, Update!Database
  <1>4. env \in 0..LastRelease
    BY <1>2, UpdateConstants DEF Update!Versions
  <1>. QED  BY <1>1, <1>2, <1>3, <1>4 DEF Update!Starts, Update!Database

\* Every step keeps the types, of several runs and of older targets too.
LEMMA UpdateTypeStep == Update!TypeOK /\ [Update!Next]_(Update!vars) => Update!TypeOK'
  <1>. SUFFICES ASSUME Update!TypeOK, [Update!Next]_(Update!vars)
                PROVE  Update!TypeOK'
    OBVIOUS
  <1>0. /\ env \in Update!Versions /\ releases \subseteq Update!Versions
        /\ running \in 0..LastRelease /\ db \in Update!Database /\ lock \in BOOLEAN
        /\ tool \in [Tools -> {Update!Idle} \cup Going]
        /\ 0 \in 0..LastRelease
    BY UpdateConstants DEF Update!TypeOK, Going
  <1>i. \A t \in Tools : tool[t].step # "idle" => tool[t] \in Going
    BY <1>0 DEF Update!Idle
  <1>t. ASSUME /\ env' \in Update!Versions /\ releases' \subseteq Update!Versions
               /\ running' \in 0..LastRelease /\ db' \in Update!Database /\ lock' \in BOOLEAN
               /\ tool' \in [Tools -> {Update!Idle} \cup Going]
        PROVE  Update!TypeOK'
    BY <1>t DEF Update!TypeOK, Going
  <1>1. CASE Update!MemberWrites
    <2>1. db' = [db EXCEPT !.data = db.data + 1] /\ db.data < UpdateWrites
      BY <1>1 DEF Update!MemberWrites
    <2>2. db' \in Update!Database
      BY <1>0, <2>1, UpdateConstants DEF Update!Database
    <2>. QED  BY <1>0, <1>1, <1>t, <2>2 DEF Update!MemberWrites
  <1>2. ASSUME NEW t \in Tools, Update!ReadActiveRelease(t)
        PROVE  Update!TypeOK'
    <2>1. PICK target \in Update!Versions :
            tool' = [tool EXCEPT ![t] = [step |-> "read", target |-> target,
                                        previous |-> env, backup |-> db]]
      BY <1>2 DEF Update!ReadActiveRelease
    <2>2. [step |-> "read", target |-> target, previous |-> env, backup |-> db] \in Going
      BY <1>0 DEF Going, Update!Steps
    <2>3. tool' \in [Tools -> {Update!Idle} \cup Going]
      BY <1>0, <2>1, <2>2
    <2>. QED  BY <1>0, <1>2, <1>t, <2>3 DEF Update!ReadActiveRelease
  <1>3. ASSUME NEW t \in Tools, Update!CreateBackup(t)
        PROVE  Update!TypeOK'
    <2>1. tool[t] \in Going
      BY <1>3, <1>i DEF Update!CreateBackup
    <2>2. tool' = [tool EXCEPT ![t] = [tool[t] EXCEPT !.step = "backedUp", !.backup = db]]
      BY <1>0, <1>3 DEF Update!CreateBackup
    <2>3. [tool[t] EXCEPT !.step = "backedUp", !.backup = db] \in Going
      BY <1>0, <2>1 DEF Going, Update!Steps
    <2>4. tool' \in [Tools -> {Update!Idle} \cup Going]
      BY <1>0, <2>2, <2>3
    <2>. QED  BY <1>0, <1>3, <1>t, <2>4 DEF Update!CreateBackup
  <1>4. ASSUME NEW t \in Tools, Update!AcquireLock(t)
        PROVE  Update!TypeOK'
    <2>1. tool' \in [Tools -> {Update!Idle} \cup Going]
      BY <1>4, GoType DEF Update!AcquireLock, Update!Steps
    <2>. QED  BY <1>0, <1>4, <1>t, <2>1 DEF Update!AcquireLock
  <1>5. ASSUME NEW t \in Tools, Update!ExtractRelease(t)
        PROVE  Update!TypeOK'
    <2>1. tool' \in [Tools -> {Update!Idle} \cup Going] /\ tool[t].target \in Update!Versions
      BY <1>5, <1>i, GoType DEF Update!ExtractRelease, Update!Steps, Going
    <2>. QED  BY <1>0, <1>5, <1>t, <2>1 DEF Update!ExtractRelease
  <1>6. ASSUME NEW t \in Tools, Update!SwitchEnv(t)
        PROVE  Update!TypeOK'
    <2>1. tool' \in [Tools -> {Update!Idle} \cup Going] /\ tool[t].target \in Update!Versions
      BY <1>6, <1>i, GoType DEF Update!SwitchEnv, Update!Steps, Going
    <2>. QED  BY <1>0, <1>6, <1>t, <2>1 DEF Update!SwitchEnv
  <1>7. ASSUME NEW t \in Tools, NEW from \in Update!Steps, NEW to \in Update!Steps,
               Update!Up(t, from, to)
        PROVE  Update!TypeOK'
    <2>1. tool' \in [Tools -> {Update!Idle} \cup Going]
      BY <1>7, GoType DEF Update!Up, Update!Steps
    <2>2. db' \in Update!Database /\ running' \in 0..LastRelease
      BY <1>7, StartsType DEF Update!Up
    <2>. QED  BY <1>0, <1>7, <1>t, <2>1, <2>2 DEF Update!Up
  <1>8. ASSUME NEW t \in Tools, Update!End(t)
        PROVE  Update!TypeOK'
    <2>1. tool' \in [Tools -> {Update!Idle} \cup Going]
      BY <1>0, <1>8 DEF Update!End
    <2>2. lock' \in BOOLEAN
      <3>1. lock' = (lock /\ tool[t].step = "read")
        BY <1>8 DEF Update!End
      <3>. QED  BY <3>1
    <2>. QED  BY <1>0, <1>8, <1>t, <2>1, <2>2 DEF Update!End
  <1>9. ASSUME NEW t \in Tools, Update!Fail(t) \/ Update!Down(t)
        PROVE  Update!TypeOK'
    <2>1. tool[t].step # "idle" /\ (Update!Go(t, "failed") \/ Update!Go(t, "stopped"))
      BY <1>9 DEF Update!Fail, Update!Down
    <2>2. tool' \in [Tools -> {Update!Idle} \cup Going]
      BY <2>1, GoType DEF Update!Steps
    <2>3. running' \in 0..LastRelease
      BY <1>0, <1>9 DEF Update!Fail, Update!Down
    <2>. QED  BY <1>0, <1>9, <1>t, <2>2, <2>3 DEF Update!Fail, Update!Down
  <1>10. ASSUME NEW t \in Tools, Update!RestoreDatabase(t)
         PROVE  Update!TypeOK'
    <2>1. tool' \in [Tools -> {Update!Idle} \cup Going]
      BY <1>10, GoType DEF Update!RestoreDatabase, Update!Steps
    <2>2. tool[t].backup \in Update!Database
      BY <1>10, <1>i DEF Update!RestoreDatabase, Going
    <2>. QED  BY <1>0, <1>10, <1>t, <2>1, <2>2 DEF Update!RestoreDatabase, Update!DatabaseRestored
  <1>11. ASSUME NEW t \in Tools, Update!RestoreEnv(t)
         PROVE  Update!TypeOK'
    <2>1. tool' \in [Tools -> {Update!Idle} \cup Going] /\ tool[t].previous \in Update!Versions
      BY <1>11, <1>i, GoType DEF Update!RestoreEnv, Update!Steps, Going
    <2>. QED  BY <1>0, <1>11, <1>t, <2>1 DEF Update!RestoreEnv
  <1>12. ASSUME NEW t \in Tools, Update!Kill(t)
         PROVE  Update!TypeOK'
    BY <1>0, <1>12, <1>t DEF Update!Kill
  <1>13. CASE Update!StartAgain
    <2>1. db' \in Update!Database /\ running' \in 0..LastRelease
      BY <1>13, StartsType DEF Update!StartAgain
    <2>. QED  BY <1>0, <1>13, <1>t, <2>1 DEF Update!StartAgain
  <1>14. CASE UNCHANGED Update!vars
    BY <1>0, <1>14, <1>t DEF Update!vars
  <1>15. ASSUME NEW t \in Tools,
                Update!Up(t, "switched", "started") \/ Update!Up(t, "envRestored", "restarted")
         PROVE  Update!TypeOK'
    BY <1>7, <1>15 DEF Update!Steps
  <1>16. ASSUME NEW t \in Tools, Update!Complete(t) \/ Update!Refuse(t) \/ Update!RolledBack(t)
         PROVE  Update!TypeOK'
    BY <1>8, <1>16 DEF Update!Complete, Update!Refuse, Update!RolledBack
  <1>. QED
    BY <1>1, <1>2, <1>3, <1>4, <1>5, <1>6, <1>9, <1>10, <1>11, <1>12, <1>13, <1>14, <1>15, <1>16
    DEF Update!Next

\* Whatever the operator does, the variables of both parts have their types.
THEOREM SchemaTypes == Spec => [](Starting!TypeOK /\ Update!TypeOK)
  <1>1. Update!Init => Update!TypeOK
    BY SchemaInvInit DEF SchemaInv
  <1>2. Update!Spec => []Update!TypeOK
    BY <1>1, UpdateTypeStep, PTL DEF Update!Spec
  <1>3. StartInv => Starting!TypeOK
    BY DEF StartInv
  <1>. QED  BY <1>2, <1>3, StartInvHolds, UpdateIsPart, PTL

-----------------------------------------------------------------------------
(* Devices, calendars and the transfer of data.                            *)

\* What happens to devices is what PushDevices allows.
LEMMA DevicesArePart == Spec => Devices!Spec
  <1>1. Init => Devices!Init
    BY DEF Init
  <1>2. [Next]_vars => [Devices!Next]_(Devices!vars)
    BY DEF Next, vars, devicesVars, Devices!vars
  <1>. QED  BY <1>1, <1>2, PTL DEF Spec, Devices!Spec

\* What happens to imported calendars is what ExternalCalendars allows.
LEMMA CalendarsArePart == Spec => Calendars!Spec
  <1>1. Init => Calendars!Init
    BY DEF Init
  <1>2. [Next]_vars => [Calendars!Next]_(Calendars!vars)
    BY DEF Next, vars, calendarsVars, Calendars!vars
  <1>. QED  BY <1>1, <1>2, PTL DEF Spec, Calendars!Spec

\* What happens to the data of an installation is what DataTransfer allows.
LEMMA TransferIsPart == Spec => Transfer!Spec
  <1>1. Init => Transfer!Init
    BY DEF Init
  <1>2. [Next]_vars => [Transfer!Next]_(Transfer!vars)
    BY DEF Next, vars, transferVars, Transfer!vars
  <1>. QED  BY <1>1, <1>2, PTL DEF Spec, Transfer!Spec

-----------------------------------------------------------------------------
(* The browsers of members.                                                *)

\* At least one browser is allowed, and nobody is the absent value.
LEMMA DeviceConstants == MaxDevices \in Nat \ {0} /\ Nothing \notin DeviceUsers
  BY ServerAssumption DEF ServerAssumption, Devices!DeviceAssumption

\* The module's own cardinality is the one the theorems are about.
LEMMA SameCardinality == \A S : Devices!Cardinality(S) = Cardinality(S)
  BY DEF Devices!Cardinality, Cardinality

\* A registration that is under way, and whose it is.
Registration(q) == registering[q] # Nothing

Registers(q, u, e) ==
  Registration(q) /\ registering[q].user = u /\ registering[q].endpoint = e

\* One registration at a time of each member.
OneAtATime ==
  \A q, r \in Registrations :
    Registration(q) /\ Registration(r) /\ registering[q].user = registering[r].user => q = r

\* Everybody is within the limit, and still is when the registrations that
\* were let through have been stored.
WithinLimit ==
  /\ \A u \in DeviceUsers : IsFiniteSet(Devices!Devices(u))
                            /\ Cardinality(Devices!Devices(u)) <= MaxDevices
  /\ \A q \in Registrations, u \in DeviceUsers, e \in Endpoints : Registers(q, u, e) =>
       Cardinality(Devices!Devices(u) \cup {e}) <= MaxDevices

DevicesInv ==
  /\ Devices!TypeOK
  /\ overlapped = {} => OneAtATime /\ WithinLimit /\ sweep.step # "failed"

\* It holds before anybody has registered a browser.
LEMMA DevicesInvInit == Devices!Init => DevicesInv
  <1>. SUFFICES ASSUME Devices!Init PROVE DevicesInv
    OBVIOUS
  <1>1. \A u \in DeviceUsers : Devices!Devices(u) = {}
    BY DeviceConstants DEF Devices!Init, Devices!Devices
  <1>2. OneAtATime /\ WithinLimit
    BY <1>1, FS_EmptySet, DeviceConstants DEF Devices!Init, OneAtATime, WithinLimit, Registration, Registers
  <1>. QED  BY <1>2 DEF Devices!Init, DevicesInv, Devices!TypeOK, Devices!Idle

\* Fewer rows and fewer registrations keep the limit.
LEMMA FewerKeepLimit ==
  ASSUME OneAtATime, WithinLimit, Devices!TypeOK,
         \A u \in DeviceUsers : Devices!Devices(u)' \subseteq Devices!Devices(u),
         \A q \in Registrations : registering'[q] \in {registering[q], Nothing}
  PROVE  OneAtATime' /\ WithinLimit'
  <1>1. OneAtATime'
    BY DEF OneAtATime, Registration
  <1>2. ASSUME NEW u \in DeviceUsers
        PROVE  IsFiniteSet(Devices!Devices(u)') /\ Cardinality(Devices!Devices(u)') <= MaxDevices
    <2>1. IsFiniteSet(Devices!Devices(u)) /\ Cardinality(Devices!Devices(u)) <= MaxDevices
      BY DEF WithinLimit
    <2>. DEFINE S == Devices!Devices(u)
                T == Devices!Devices(u)'
    <2>2. T \in SUBSET S
      OBVIOUS
    <2>. HIDE DEF S, T
    <2>3. IsFiniteSet(T) /\ Cardinality(T) <= Cardinality(S)
      BY <2>1, <2>2, FS_Subset DEF S
    <2>4. Cardinality(S) \in Nat /\ Cardinality(T) \in Nat
      BY <2>1, <2>3, FS_CardinalityType DEF S
    <2>. QED  BY <2>1, <2>3, <2>4, DeviceConstants DEF S, T
  <1>3. ASSUME NEW q \in Registrations, NEW u \in DeviceUsers, NEW e \in Endpoints,
               Registers(q, u, e)'
        PROVE  Cardinality(Devices!Devices(u)' \cup {e}) <= MaxDevices
    <2>1. Registers(q, u, e)
      BY <1>3 DEF Registers, Registration
    <2>. DEFINE S == Devices!Devices(u) \cup {e}
                T == Devices!Devices(u)' \cup {e}
    <2>3. IsFiniteSet(S)
      BY FS_AddElement DEF WithinLimit
    <2>4. T \in SUBSET S
      OBVIOUS
    <2>5. Cardinality(S) <= MaxDevices
      BY <2>1 DEF WithinLimit
    <2>. HIDE DEF S, T
    <2>6. IsFiniteSet(T) /\ Cardinality(T) <= Cardinality(S)
      BY <2>3, <2>4, FS_Subset
    <2>7. Cardinality(S) \in Nat /\ Cardinality(T) \in Nat
      BY <2>3, <2>6, FS_CardinalityType
    <2>8. Cardinality(T) <= MaxDevices
      BY <2>5, <2>6, <2>7, DeviceConstants
    <2>. QED  BY <2>8 DEF T
  <1>. QED  BY <1>1, <1>2, <1>3 DEF WithinLimit

\* No registration, deletion, removal or sweep disturbs the invariant.
LEMMA DevicesInvStep == DevicesInv /\ [Devices!Next]_(Devices!vars) => DevicesInv'
  <1>. SUFFICES ASSUME DevicesInv, [Devices!Next]_(Devices!vars)
                PROVE  DevicesInv'
    OBVIOUS
  <1>. USE DEF Devices!TypeOK
  <1>0. Devices!TypeOK
    BY DEF DevicesInv
  <1>1. ASSUME NEW u \in DeviceUsers, NEW e \in Endpoints, NEW q \in Registrations,
               Devices!CheckRegistration(q, u, e)
        PROVE  DevicesInv'
    <2>. DEFINE now == [user |-> u, endpoint |-> e]
    <2>1. now \in [user : DeviceUsers, endpoint : Endpoints] /\ now.user = u /\ now.endpoint = e
      OBVIOUS
    <2>2. registering' = [registering EXCEPT ![q] = now] /\ registering[q] = Nothing
      BY <1>1 DEF Devices!CheckRegistration
    <2>. HIDE DEF now
    <2>3. Devices!TypeOK'
      BY <1>0, <1>1, <2>1, <2>2 DEF Devices!CheckRegistration
    <2>4. ASSUME overlapped' = {}
          PROVE  OneAtATime' /\ WithinLimit' /\ sweep'.step # "failed"
      <3>1. /\ overlapped = {}
            /\ \A r \in Registrations : registering[r] # Nothing => registering[r].user # u
        BY <1>1, <2>4 DEF Devices!CheckRegistration
      <3>2. OneAtATime /\ WithinLimit /\ sweep.step # "failed"
        BY <3>1 DEF DevicesInv
      <3>3. OneAtATime'
        BY <1>0, <2>1, <2>2, <3>1, <3>2 DEF OneAtATime, Registration
      <3>4. \A v : Devices!Devices(v)' = Devices!Devices(v)
        BY <1>1 DEF Devices!CheckRegistration, Devices!Devices
      <3>5. Cardinality(Devices!Devices(u) \cup {e}) <= MaxDevices
        <4>1. IsFiniteSet(Devices!Devices(u)) /\ Cardinality(Devices!Devices(u)) <= MaxDevices
              /\ Cardinality(Devices!Devices(u)) \in Nat
          BY <3>2, FS_CardinalityType DEF WithinLimit
        <4>2. CASE device[e] = u
          <5>1. Devices!Devices(u) \cup {e} = Devices!Devices(u)
            BY <4>2 DEF Devices!Devices
          <5>. QED  BY <4>1, <5>1
        <4>3. CASE Cardinality(Devices!Devices(u)) < MaxDevices
          <5>. DEFINE S == Devices!Devices(u)
          <5>. HIDE DEF S
          <5>1. Cardinality(S \cup {e}) \in {Cardinality(S), Cardinality(S) + 1}
            BY <4>1, FS_AddElement DEF S
          <5>2. Cardinality(S) < MaxDevices /\ Cardinality(S) \in Nat
            BY <4>1, <4>3 DEF S
          <5>. QED  BY <5>1, <5>2, DeviceConstants DEF S
        <4>4. Devices!MayRegister(u, e)
          BY <1>1 DEF Devices!CheckRegistration
        <4>. QED  BY <4>2, <4>3, <4>4, SameCardinality DEF Devices!MayRegister
      <3>6. WithinLimit'
        <4>1. ASSUME NEW r \in Registrations, NEW v \in DeviceUsers, NEW d \in Endpoints,
                     Registers(r, v, d)'
              PROVE  Cardinality(Devices!Devices(v)' \cup {d}) <= MaxDevices
          <5>1. CASE r = q
            <6>1. v = u /\ d = e
              BY <1>0, <2>1, <2>2, <4>1, <5>1 DEF Registers
            <6>. QED  BY <3>4, <3>5, <6>1
          <5>2. CASE r # q
            <6>1. Registers(r, v, d)
              BY <1>0, <2>2, <4>1, <5>2 DEF Registers, Registration
            <6>. QED  BY <3>2, <3>4, <6>1 DEF WithinLimit
          <5>. QED  BY <5>1, <5>2
        <4>. QED  BY <3>2, <3>4, <4>1 DEF WithinLimit
      <3>. QED  BY <1>1, <3>2, <3>3, <3>6 DEF Devices!CheckRegistration
    <2>. QED  BY <2>3, <2>4 DEF DevicesInv
  <1>2. ASSUME NEW q \in Registrations, Devices!Register(q)
        PROVE  DevicesInv'
    <2>1. PICK u \in DeviceUsers, e \in Endpoints : Registers(q, u, e)
      BY <1>0, <1>2 DEF Devices!Register, Registers, Registration
    <2>2. /\ device' = [device EXCEPT ![e] = u]
          /\ registering' = [registering EXCEPT ![q] = Nothing]
      BY <1>2, <2>1 DEF Devices!Register, Registers
    <2>3. Devices!TypeOK'
      BY <1>0, <1>2, <2>2 DEF Devices!Register
    <2>4. ASSUME overlapped' = {}
          PROVE  OneAtATime' /\ WithinLimit' /\ sweep'.step # "failed"
      <3>1. OneAtATime /\ WithinLimit /\ sweep.step # "failed"
        BY <1>2, <2>4 DEF DevicesInv, Devices!Register
      <3>2. OneAtATime'
        BY <1>0, <2>2, <3>1 DEF OneAtATime, Registration
      <3>3. /\ Devices!Devices(u)' = Devices!Devices(u) \cup {e}
            /\ \A v \in DeviceUsers \ {u} : Devices!Devices(v)' \subseteq Devices!Devices(v)
        BY <1>0, <2>2 DEF Devices!Devices
      <3>4. \A v \in DeviceUsers : IsFiniteSet(Devices!Devices(v))
        BY <3>1 DEF WithinLimit
      <3>5. ASSUME NEW v \in DeviceUsers \ {u}
            PROVE  IsFiniteSet(Devices!Devices(v)')
                   /\ Cardinality(Devices!Devices(v)') <= MaxDevices
        <4>. DEFINE S == Devices!Devices(v)
                    T == Devices!Devices(v)'
        <4>1. T \in SUBSET S /\ IsFiniteSet(S) /\ Cardinality(S) <= MaxDevices
          BY <3>1, <3>3, <3>5 DEF WithinLimit
        <4>. HIDE DEF S, T
        <4>2. IsFiniteSet(T) /\ Cardinality(T) <= Cardinality(S)
          BY <4>1, FS_Subset
        <4>3. Cardinality(S) \in Nat /\ Cardinality(T) \in Nat
          BY <4>1, <4>2, FS_CardinalityType
        <4>. QED  BY <4>1, <4>2, <4>3, DeviceConstants DEF T
      <3>6. IsFiniteSet(Devices!Devices(u)') /\ Cardinality(Devices!Devices(u)') <= MaxDevices
        <4>1. IsFiniteSet(Devices!Devices(u) \cup {e})
          BY <3>4, FS_AddElement
        <4>2. Cardinality(Devices!Devices(u) \cup {e}) <= MaxDevices
          BY <2>1, <3>1 DEF WithinLimit
        <4>. QED  BY <3>3, <4>1, <4>2
      <3>7. ASSUME NEW r \in Registrations, NEW v \in DeviceUsers, NEW d \in Endpoints,
                   Registers(r, v, d)'
            PROVE  Cardinality(Devices!Devices(v)' \cup {d}) <= MaxDevices
        <4>1. r # q /\ Registers(r, v, d)
          BY <1>0, <2>2, <3>7 DEF Registers, Registration
        <4>2. v # u
          BY <2>1, <3>1, <4>1 DEF OneAtATime, Registers
        <4>. DEFINE S == Devices!Devices(v) \cup {d}
                    T == Devices!Devices(v)' \cup {d}
        <4>3. T \in SUBSET S
          BY <3>3, <4>2
        <4>4. IsFiniteSet(S)
          BY <3>4, FS_AddElement
        <4>5. Cardinality(S) <= MaxDevices
          BY <3>1, <4>1 DEF WithinLimit
        <4>. HIDE DEF S, T
        <4>6. IsFiniteSet(T) /\ Cardinality(T) <= Cardinality(S)
          BY <4>3, <4>4, FS_Subset
        <4>7. Cardinality(S) \in Nat /\ Cardinality(T) \in Nat
          BY <4>4, <4>6, FS_CardinalityType
        <4>8. Cardinality(T) <= MaxDevices
          BY <4>5, <4>6, <4>7, DeviceConstants
        <4>. QED  BY <4>8 DEF T
      <3>8. WithinLimit'
        BY <3>5, <3>6, <3>7 DEF WithinLimit
      <3>. QED  BY <1>2, <3>1, <3>2, <3>8 DEF Devices!Register
    <2>. QED  BY <2>3, <2>4 DEF DevicesInv
  <1>3. ASSUME Devices!TypeOK',
               overlapped' = overlapped, sweep'.step # "failed" \/ sweep' = sweep,
               \A u \in DeviceUsers : Devices!Devices(u)' \subseteq Devices!Devices(u),
               \A q \in Registrations : registering'[q] \in {registering[q], Nothing}
        PROVE  DevicesInv'
    BY <1>3, FewerKeepLimit DEF DevicesInv
  <1>4. ASSUME NEW q \in Registrations, Devices!RegistrationFails(q)
        PROVE  DevicesInv'
    BY <1>0, <1>3, <1>4 DEF Devices!RegistrationFails, Devices!Devices
  <1>5. ASSUME NEW u \in DeviceUsers, NEW e \in Endpoints, Devices!DeleteDevice(u, e)
        PROVE  DevicesInv'
    <2>1. Devices!TypeOK' /\ \A v \in DeviceUsers : Devices!Devices(v)' \subseteq Devices!Devices(v)
      BY <1>0, <1>5, DeviceConstants DEF Devices!DeleteDevice, Devices!Deleted, Devices!Devices
    <2>. QED  BY <1>3, <1>5, <2>1 DEF Devices!DeleteDevice
  <1>6. ASSUME NEW u \in DeviceUsers, Devices!RemoveMember(u)
        PROVE  DevicesInv'
    <2>1. Devices!TypeOK' /\ \A v \in DeviceUsers : Devices!Devices(v)' \subseteq Devices!Devices(v)
      BY <1>0, <1>6, DeviceConstants DEF Devices!RemoveMember, Devices!Devices
    <2>. QED  BY <1>3, <1>6, <2>1 DEF Devices!RemoveMember
  <1>7. ASSUME NEW u \in DeviceUsers, Devices!RestoreMember(u)
        PROVE  DevicesInv'
    BY <1>0, <1>3, <1>7 DEF Devices!RestoreMember, Devices!Devices
  <1>8. ASSUME NEW u \in DeviceUsers, Devices!Serve(u)
        PROVE  DevicesInv'
    <2>1. CASE Cardinality(Devices!Devices(u)) > MaxDevices
      <3>1. sweep' = [step |-> "failed", todo |-> {}, user |-> Nothing, rows |-> {}]
        BY <1>8, <2>1, SameCardinality DEF Devices!Serve, Devices!Idle
      <3>2. Devices!TypeOK'
        <4>1. UNCHANGED <<subscriber, device, registering, overlapped>>
          BY <1>8 DEF Devices!Serve
        <4>2. sweep' \in [step : {"idle", "serving", "failed"}, todo : SUBSET DeviceUsers,
                          user : DeviceUsers \cup {Nothing}, rows : SUBSET Endpoints]
          BY <3>1
        <4>. QED  BY <1>0, <4>1, <4>2
      <3>3. overlapped # {}
        <4>1. SUFFICES ASSUME overlapped = {} PROVE FALSE
          OBVIOUS
        <4>2. IsFiniteSet(Devices!Devices(u)) /\ Cardinality(Devices!Devices(u)) <= MaxDevices
          BY <4>1 DEF DevicesInv, WithinLimit
        <4>3. Cardinality(Devices!Devices(u)) \in Nat
          BY <4>2, FS_CardinalityType
        <4>. QED  BY <2>1, <4>2, <4>3, DeviceConstants
      <3>. QED  BY <1>8, <3>2, <3>3 DEF Devices!Serve, DevicesInv
    <2>2. CASE ~(Cardinality(Devices!Devices(u)) > MaxDevices)
      <3>1. sweep' = [sweep EXCEPT !.todo = sweep.todo \ {u}, !.user = u, !.rows = Devices!Devices(u)]
        BY <1>8, <2>2, SameCardinality DEF Devices!Serve
      <3>2. Devices!TypeOK' /\ sweep'.step = "serving"
        BY <1>0, <1>8, <3>1 DEF Devices!Serve, Devices!Devices
      <3>. QED  BY <1>3, <1>8, <3>2 DEF Devices!Serve, Devices!Devices
    <2>. QED  BY <2>1, <2>2
  <1>9. ASSUME NEW e \in Endpoints, NEW gone \in BOOLEAN, Devices!Send(e, gone)
        PROVE  DevicesInv'
    <2>1. sweep' = [sweep EXCEPT !.rows = sweep.rows \ {e}] /\ sweep'.step = sweep.step
      BY <1>0, <1>9 DEF Devices!Send
    <2>2. \A v \in DeviceUsers : Devices!Devices(v)' \subseteq Devices!Devices(v)
      BY <1>0, <1>9, DeviceConstants DEF Devices!Send, Devices!Deleted, Devices!Devices
    <2>3. Devices!TypeOK'
      BY <1>0, <1>9, <2>1 DEF Devices!Send, Devices!Deleted
    <2>4. overlapped' = {} => OneAtATime' /\ WithinLimit' /\ sweep'.step # "failed"
      BY <1>0, <1>9, <2>1, <2>2, FewerKeepLimit DEF Devices!Send, DevicesInv
    <2>. QED  BY <2>3, <2>4 DEF DevicesInv
  <1>10. ASSUME NEW us \in SUBSET DeviceUsers, Devices!StartSweep(us)
         PROVE  DevicesInv'
    BY <1>0, <1>3, <1>10 DEF Devices!StartSweep, Devices!Idle, Devices!Devices
  <1>11. ASSUME NEW u \in DeviceUsers, Devices!Skip(u)
         PROVE  DevicesInv'
    BY <1>0, <1>3, <1>11 DEF Devices!Skip, Devices!Devices
  <1>12. CASE Devices!Served \/ Devices!EndSweep
    BY <1>0, <1>3, <1>12 DEF Devices!Served, Devices!EndSweep, Devices!Idle, Devices!Devices
  <1>13. CASE UNCHANGED Devices!vars
    BY <1>0, <1>3, <1>13 DEF Devices!vars, Devices!Devices
  <1>. QED
    BY <1>1, <1>2, <1>4, <1>5, <1>6, <1>7, <1>8, <1>9, <1>10, <1>11, <1>12, <1>13
    DEF Devices!Next

\* No member's browsers keep a sweep from serving the others, unless two
\* registrations of one member overlap (savePushSubscription,
\* pushSubscriptionsForUser).
THEOREM SweepsReachEverybody == Spec => []SweepsGetThrough
  <1>1. DevicesInv => SweepsGetThrough
    BY DEF DevicesInv, SweepsGetThrough, Devices!SweepsGetThrough
  <1>. QED
    BY <1>1, DevicesInvInit, DevicesInvStep, DevicesArePart, PTL DEF Devices!Spec
-----------------------------------------------------------------------------
(* Imported calendars.                                                     *)

\* Origins have versions of finitely many events, and rows are not the absent
\* value.
LEMMA CalendarConstants ==
  /\ CalendarFiles \subseteq Origins
  /\ LastVersion \in Nat /\ MaxRows \in Nat /\ MaxRedirects \in Nat
  /\ Holds \in [Origins -> [0..LastVersion -> (SUBSET Uids) \cup {Nothing}]]
  /\ IsFiniteSet(Uids)
  /\ Nothing \notin Calendars!Content /\ Nothing \notin Calendars!EventRow
  /\ Nothing \notin Calendars!SourceRow /\ Nothing \notin Calendars!Task
  <1>1. Calendars!IsFiniteSet(Uids) => IsFiniteSet(Uids)
    BY DEF Calendars!IsFiniteSet, IsFiniteSet
  <1>. QED
    BY <1>1, ServerAssumption
    DEF ServerAssumption, Calendars!FilesAssumption, Calendars!BoundsAssumption,
        Calendars!HoldsAssumption, Calendars!UidsAssumption, Calendars!NothingAssumption

\* The module's own cardinality is the one the theorems are about.
LEMMA SameCount == \A S : Calendars!Cardinality(S) = Cardinality(S)
  BY DEF Calendars!Cardinality, Cardinality

\* There are as many new ids as new rows: writeEvents never runs out of them.
LEMMA NewIdsExist ==
  ASSUME NEW new \in SUBSET Uids, rows \in Nat
  PROVE  /\ Cardinality(new) \in Nat
         /\ Calendars!NewIds(new) \in [new -> (rows + 1)..(rows + Cardinality(new))]
  <1>1. IsFiniteSet(new)
    BY CalendarConstants, FS_Subset
  <1>2. Cardinality(new) \in Nat /\ ExistsBijection(1..Cardinality(new), new)
    BY <1>1, FS_CardinalityType
  <1>3. PICK f \in Bijection(1..Cardinality(new), new) : TRUE
    BY <1>2 DEF ExistsBijection
  <1>4. f \in [1..Cardinality(new) -> new] /\ \A u \in new : \E k \in 1..Cardinality(new) : f[k] = u
    BY <1>3 DEF Bijection, Surjection, Injection
  <1>. DEFINE index == [u \in new |-> CHOOSE k \in 1..Cardinality(new) : f[k] = u]
              ids == [u \in new |-> rows + index[u]]
  <1>5. \A u \in new : index[u] \in 1..Cardinality(new) /\ f[index[u]] = u
    BY <1>4
  <1>. HIDE DEF index
  <1>6. ids \in [new -> (rows + 1)..(rows + Cardinality(new))]
    BY <1>2, <1>5
  <1>7. \A u, v \in new : u # v => ids[u] # ids[v]
    BY <1>2, <1>5
  <1>. HIDE DEF ids
  <1>8. Calendars!NewIds(new) \in [new -> (rows + 1)..(rows + Cardinality(new))]
    BY <1>6, <1>7, SameCount DEF Calendars!NewIds
  <1>. QED  BY <1>2, <1>8

CalendarsInv == Calendars!TypeOK /\ Calendars!StoredIsOneVersion

\* It holds before a calendar is imported.
LEMMA CalendarsInvInit == Calendars!Init => CalendarsInv
  BY CalendarConstants
  DEF Calendars!Init, CalendarsInv, Calendars!TypeOK, Calendars!StoredIsOneVersion, Calendars!Exists

\* The content that writeEvents stores is all that is left of the source.
LEMMA WrittenIsContent ==
  ASSUME CalendarsInv, NEW s \in Sources, NEW c \in Calendars!Content,
         Calendars!Parsed(c) # Nothing,
         rows + Cardinality(Calendars!Inserted(s, c)) <= MaxRows,
         NEW ids, ids = Calendars!NewIds(Calendars!Inserted(s, c))
  PROVE  /\ Calendars!Written(s, c, ids) \in [Uids -> Calendars!EventRow \cup {Nothing}]
         /\ \A u \in Uids :
              IF u \in Calendars!Parsed(c)
              THEN Calendars!Written(s, c, ids)[u] # Nothing /\ Calendars!Written(s, c, ids)[u].of = c
              ELSE Calendars!Written(s, c, ids)[u] = Nothing
         /\ Cardinality(Calendars!Inserted(s, c)) \in Nat
  <1>. DEFINE new == Calendars!Inserted(s, c)
              Row(u) == [id |-> ids[u], of |-> c]
              Kept(u) == [event[s][u] EXCEPT !.of = c]
  <1>1. Calendars!Parsed(c) \in SUBSET Uids
    BY CalendarConstants DEF Calendars!Parsed, Calendars!Content
  <1>2. rows \in Nat /\ event[s] \in [Uids -> Calendars!EventRow \cup {Nothing}]
    BY DEF CalendarsInv, Calendars!TypeOK
  <1>3. new \in SUBSET Uids
    BY <1>1 DEF Calendars!Inserted
  <1>4. Cardinality(new) \in Nat /\ ids \in [new -> (rows + 1)..(rows + Cardinality(new))]
    BY <1>2, <1>3, NewIdsExist
  <1>5. ASSUME NEW u \in new
        PROVE  Row(u) \in Calendars!EventRow /\ Row(u).of = c
    <2>1. ids[u] \in 1..MaxRows
      BY <1>2, <1>4, CalendarConstants
    <2>. QED  BY <2>1 DEF Calendars!EventRow
  <1>6. ASSUME NEW u \in Calendars!Parsed(c) \ new
        PROVE  Kept(u) \in Calendars!EventRow /\ Kept(u).of = c
    <2>1. event[s][u] \in Calendars!EventRow
      BY <1>1, <1>2 DEF Calendars!Inserted
    <2>. QED  BY <2>1 DEF Calendars!EventRow
  <1>7. new \subseteq Calendars!Parsed(c)
    BY DEF Calendars!Inserted
  <1>. DEFINE W == Calendars!Written(s, c, ids)
  <1>8. W = [u \in Uids |-> CASE u \in new -> Row(u)
                              [] u \in Calendars!Parsed(c) \ new -> Kept(u)
                              [] OTHER -> Nothing]
    BY DEF Calendars!Written
  <1>. HIDE DEF new, W, Row, Kept
  <1>9. ASSUME NEW u \in Uids
        PROVE  /\ u \in new => W[u] = Row(u)
               /\ u \in Calendars!Parsed(c) \ new => W[u] = Kept(u)
               /\ u \notin Calendars!Parsed(c) => W[u] = Nothing
    BY <1>7, <1>8
  <1>10. ASSUME NEW u \in Uids
         PROVE  /\ W[u] \in Calendars!EventRow \cup {Nothing}
                /\ IF u \in Calendars!Parsed(c) THEN W[u] # Nothing /\ W[u].of = c ELSE W[u] = Nothing
    BY <1>5, <1>6, <1>9, CalendarConstants
  <1>11. W \in [Uids -> Calendars!EventRow \cup {Nothing}]
    BY <1>8, <1>10
  <1>. QED  BY <1>4, <1>10, <1>11 DEF W, new

\* The transaction of an import or a refresh leaves one version of the source.
LEMMA FillKeeps ==
  ASSUME CalendarsInv, NEW s \in Sources, NEW c \in Calendars!Content,
         NEW now \in Calendars!SourceRow, now.filled = c,
         Calendars!Fill(s, now, c), holiday' = holiday, published' = published,
         task' \in [Fetches -> Calendars!Task \cup {Nothing}]
  PROVE  CalendarsInv'
  <1>1. /\ Calendars!Parsed(c) # Nothing
        /\ rows + Cardinality(Calendars!Inserted(s, c)) <= MaxRows
        /\ rows' = rows + Cardinality(Calendars!Inserted(s, c))
        /\ source' = [source EXCEPT ![s] = now]
    BY SameCount DEF Calendars!Fill
  <1>. DEFINE W == Calendars!Written(s, c, Calendars!NewIds(Calendars!Inserted(s, c)))
  <1>2. event' = [event EXCEPT ![s] = W]
    BY DEF Calendars!Fill
  <1>3. /\ W \in [Uids -> Calendars!EventRow \cup {Nothing}]
        /\ \A u \in Uids : IF u \in Calendars!Parsed(c) THEN W[u] # Nothing /\ W[u].of = c
                           ELSE W[u] = Nothing
        /\ Cardinality(Calendars!Inserted(s, c)) \in Nat
    BY <1>1, WrittenIsContent
  <1>. HIDE DEF W
  <1>4. \A t \in Sources : IF t = s THEN source'[t] = now /\ event'[t] = W
                           ELSE source'[t] = source[t] /\ event'[t] = event[t]
    BY <1>1, <1>2 DEF CalendarsInv, Calendars!TypeOK
  <1>5. Calendars!TypeOK'
    <2>1. rows' \in 0..MaxRows
      BY <1>1, <1>3, CalendarConstants DEF CalendarsInv, Calendars!TypeOK
    <2>2. \A t \in Sources : source'[t] = Nothing => event'[t] = [u \in Uids |-> Nothing]
      BY <1>4, CalendarConstants DEF CalendarsInv, Calendars!TypeOK, Calendars!Exists
    <2>. QED
      BY <1>1, <1>2, <1>3, <2>1, <2>2 DEF CalendarsInv, Calendars!TypeOK, Calendars!Exists
  <1>6. Calendars!StoredIsOneVersion'
    BY <1>3, <1>4 DEF CalendarsInv, Calendars!StoredIsOneVersion, Calendars!Exists, Calendars!Parsed
  <1>. QED  BY <1>5, <1>6 DEF CalendarsInv

\* What an origin serves is one version of its content.
LEMMA PublishedIsContent ==
  ASSUME Calendars!TypeOK, NEW o \in Origins
  PROVE  Calendars!Published(o) \in Calendars!Content
  BY DEF Calendars!Published, Calendars!Content, Calendars!TypeOK

\* A source that changes in no more than its type or its failure keeps its
\* events.
LEMMA SourceKeeps ==
  ASSUME CalendarsInv, NEW s \in Sources, Calendars!Exists(s), NEW now \in Calendars!SourceRow,
         now.filled = source[s].filled, source' = [source EXCEPT ![s] = now],
         event' = event, holiday' = holiday, published' = published, rows' = rows,
         task' \in [Fetches -> Calendars!Task \cup {Nothing}]
  PROVE  CalendarsInv'
  <1>1. \A t \in Sources : IF t = s THEN source'[t] = now ELSE source'[t] = source[t]
    BY DEF CalendarsInv, Calendars!TypeOK
  <1>2. Calendars!TypeOK'
    BY <1>1, CalendarConstants DEF CalendarsInv, Calendars!TypeOK, Calendars!Exists
  <1>3. Calendars!StoredIsOneVersion'
    BY <1>1 DEF CalendarsInv, Calendars!StoredIsOneVersion, Calendars!Exists, Calendars!Parsed
  <1>. QED  BY <1>2, <1>3 DEF CalendarsInv

\* Steps that leave sources and events alone keep the version.
LEMMA EventsKeep ==
  ASSUME CalendarsInv, source' = source, event' = event, Calendars!TypeOK'
  PROVE  CalendarsInv'
  BY DEF CalendarsInv, Calendars!StoredIsOneVersion, Calendars!Exists, Calendars!Parsed

\* No import, fetch, failure, deletion or derivation disturbs the invariant.
LEMMA CalendarsInvStep == CalendarsInv /\ [Calendars!Next]_(Calendars!vars) => CalendarsInv'
  <1>. SUFFICES ASSUME CalendarsInv, [Calendars!Next]_(Calendars!vars)
                PROVE  CalendarsInv'
    OBVIOUS
  <1>. USE CalendarConstants
  <1>0. Calendars!TypeOK /\ Calendars!StoredIsOneVersion
    BY DEF CalendarsInv
  <1>1. ASSUME NEW s \in Sources, NEW f \in CalendarFiles, NEW h \in BOOLEAN,
               Calendars!ImportFile(s, f, h)
        PROVE  CalendarsInv'
    <2>. DEFINE c == Calendars!Published(f)
                now == Calendars!Row(f, h, c)
    <2>1. c \in Calendars!Content
      BY <1>0, PublishedIsContent
    <2>. HIDE DEF c
    <2>2. now \in Calendars!SourceRow /\ now.filled = c
      BY <2>1 DEF Calendars!SourceRow, Calendars!Row
    <2>3. Calendars!Fill(s, now, c) /\ UNCHANGED <<holiday, published, task>>
      BY <1>1 DEF Calendars!ImportFile, c
    <2>. HIDE DEF now
    <2>4. task' \in [Fetches -> Calendars!Task \cup {Nothing}]
      BY <1>0, <2>3 DEF Calendars!TypeOK
    <2>. QED  BY <2>1, <2>2, <2>3, <2>4, FillKeeps
  <1>2. ASSUME NEW q \in Fetches, NEW op \in {"create", "replace", "refresh"}, NEW s \in Sources,
               NEW o \in Calendars!Feeds, Calendars!StartFetch(q, op, s, o)
        PROVE  CalendarsInv'
    <2>1. [op |-> op, source |-> s, url |-> o, redirects |-> 0, content |-> Nothing]
            \in Calendars!Task
      BY DEF Calendars!Task, Calendars!Feeds
    <2>2. Calendars!TypeOK'
      BY <1>0, <1>2, <2>1 DEF Calendars!StartFetch, Calendars!TypeOK, Calendars!Exists
    <2>. QED  BY <1>2, <2>2, EventsKeep DEF Calendars!StartFetch
  <1>3. ASSUME NEW q \in Fetches, Calendars!Redirect(q)
        PROVE  CalendarsInv'
    <2>1. task[q] \in Calendars!Task /\ task[q].redirects < MaxRedirects
      BY <1>0, <1>3 DEF Calendars!Redirect, Calendars!TypeOK
    <2>2. [task[q] EXCEPT !.redirects = task[q].redirects + 1] \in Calendars!Task
      BY <2>1 DEF Calendars!Task
    <2>3. task' = [task EXCEPT ![q] = [task[q] EXCEPT !.redirects = task[q].redirects + 1]]
      BY <1>0, <1>3 DEF Calendars!Redirect, Calendars!TypeOK
    <2>4. Calendars!TypeOK'
      BY <1>0, <1>3, <2>2, <2>3 DEF Calendars!Redirect, Calendars!TypeOK, Calendars!Exists
    <2>. QED  BY <1>3, <2>4, EventsKeep DEF Calendars!Redirect
  <1>4. ASSUME NEW q \in Fetches, Calendars!Answer(q)
        PROVE  CalendarsInv'
    <2>1. task[q] \in Calendars!Task
      BY <1>0, <1>4 DEF Calendars!Answer, Calendars!TypeOK
    <2>2. Calendars!Published(task[q].url) \in Calendars!Content
      BY <1>0, <2>1, PublishedIsContent DEF Calendars!Task
    <2>3. [task[q] EXCEPT !.content = Calendars!Published(task[q].url)] \in Calendars!Task
      BY <2>1, <2>2 DEF Calendars!Task
    <2>4. task' = [task EXCEPT ![q] = [task[q] EXCEPT !.content = Calendars!Published(task[q].url)]]
      BY <1>0, <1>4 DEF Calendars!Answer, Calendars!TypeOK
    <2>5. Calendars!TypeOK'
      BY <1>0, <1>4, <2>3, <2>4 DEF Calendars!Answer, Calendars!TypeOK, Calendars!Exists
    <2>. QED  BY <1>4, <2>5, EventsKeep DEF Calendars!Answer
  <1>5. ASSUME NEW q \in Fetches, NEW h \in BOOLEAN, Calendars!Commit(q, h)
        PROVE  CalendarsInv'
    <2>. DEFINE t == task[q]
                now == Calendars!FilledRow(t, h)
    <2>1. t \in Calendars!Task /\ t.content # Nothing
      BY <1>0, <1>5 DEF Calendars!Commit, Calendars!TypeOK
    <2>2. t.source \in Sources /\ t.content \in Calendars!Content /\ t.url \in Origins
      BY <2>1 DEF Calendars!Task
    <2>3. /\ Calendars!Exists(t.source) <=> t.op # "create"
          /\ Calendars!Fill(t.source, now, t.content)
          /\ task' = [task EXCEPT ![q] = Nothing]
          /\ UNCHANGED <<holiday, published>>
      BY <1>5 DEF Calendars!Commit
    <2>4. t.op = "refresh" => source[t.source] \in Calendars!SourceRow
      BY <1>0, <2>2, <2>3 DEF Calendars!TypeOK, Calendars!Exists
    <2>. HIDE DEF t
    <2>5. now \in Calendars!SourceRow /\ now.filled = t.content
      <3>1. CASE t.op = "refresh"
        <4>1. now = [source[t.source] EXCEPT !.filled = t.content, !.failed = FALSE]
          BY <3>1 DEF Calendars!FilledRow
        <4>. QED  BY <2>2, <2>4, <3>1, <4>1 DEF Calendars!SourceRow
      <3>2. CASE t.op # "refresh"
        BY <2>2, <3>2 DEF Calendars!FilledRow, Calendars!Row, Calendars!SourceRow
      <3>. QED  BY <3>1, <3>2
    <2>6. task' \in [Fetches -> Calendars!Task \cup {Nothing}]
      BY <1>0, <2>3 DEF Calendars!TypeOK
    <2>. HIDE DEF now
    <2>7. PICK s \in Sources, c \in Calendars!Content : s = t.source /\ c = t.content
      BY <2>2
    <2>8. Calendars!Fill(s, now, c) /\ now.filled = c
      BY <2>3, <2>5, <2>7
    <2>9. PICK r \in Calendars!SourceRow : r = now
      BY <2>5
    <2>. QED  BY <2>3, <2>6, <2>8, <2>9, FillKeeps
  <1>6. ASSUME NEW q \in Fetches, Calendars!Fail(q)
        PROVE  CalendarsInv'
    <2>1. task[q] \in Calendars!Task /\ task' \in [Fetches -> Calendars!Task \cup {Nothing}]
      BY <1>0, <1>6 DEF Calendars!Fail, Calendars!TypeOK
    <2>2. PICK s \in Sources : s = task[q].source
      BY <2>1 DEF Calendars!Task
    <2>3. CASE task[q].op = "refresh" /\ Calendars!Exists(s)
      <3>1. source[s] \in Calendars!SourceRow
        BY <1>0, <2>3 DEF Calendars!TypeOK, Calendars!Exists
      <3>a. LET now == [source[s] EXCEPT !.failed = TRUE]
            IN  now \in Calendars!SourceRow /\ now.filled = source[s].filled
        BY <3>1 DEF Calendars!SourceRow
      <3>2. PICK now \in Calendars!SourceRow :
              now = [source[s] EXCEPT !.failed = TRUE] /\ now.filled = source[s].filled
        BY <3>a
      <3>3. source' = [source EXCEPT ![s] = now]
        BY <1>0, <1>6, <2>2, <2>3, <3>2 DEF Calendars!Fail, Calendars!TypeOK
      <3>. QED  BY <1>6, <2>1, <2>3, <3>2, <3>3, SourceKeeps DEF Calendars!Fail
    <2>4. CASE ~(task[q].op = "refresh" /\ Calendars!Exists(s))
      <3>1. source' = source
        BY <1>6, <2>2, <2>4 DEF Calendars!Fail
      <3>2. Calendars!TypeOK'
        BY <1>0, <1>6, <2>1, <3>1 DEF Calendars!Fail, Calendars!TypeOK, Calendars!Exists
      <3>. QED  BY <1>6, <3>1, <3>2, EventsKeep DEF Calendars!Fail
    <2>. QED  BY <2>3, <2>4
  <1>7. ASSUME NEW s \in Sources, NEW h \in BOOLEAN, Calendars!UpdateSource(s, h)
        PROVE  CalendarsInv'
    <2>1. source[s] \in Calendars!SourceRow
      BY <1>0, <1>7 DEF Calendars!TypeOK, Calendars!Exists, Calendars!UpdateSource
    <2>a. LET now == [source[s] EXCEPT !.holiday = h]
          IN  now \in Calendars!SourceRow /\ now.filled = source[s].filled
      BY <2>1 DEF Calendars!SourceRow
    <2>2. PICK now \in Calendars!SourceRow :
            now = [source[s] EXCEPT !.holiday = h] /\ now.filled = source[s].filled
      BY <2>a
    <2>3. source' = [source EXCEPT ![s] = now]
      BY <1>0, <1>7, <2>2 DEF Calendars!UpdateSource, Calendars!TypeOK
    <2>. QED  BY <1>0, <1>7, <2>2, <2>3, SourceKeeps DEF Calendars!UpdateSource, Calendars!TypeOK
  <1>8. ASSUME NEW s \in Sources, Calendars!DeleteSource(s)
        PROVE  CalendarsInv'
    <2>1. /\ source' = [source EXCEPT ![s] = Nothing]
          /\ event' = [event EXCEPT ![s] = [u \in Uids |-> Nothing]]
      BY <1>8 DEF Calendars!DeleteSource, Calendars!EventsCleared
    <2>2. \A t \in Sources : IF t = s THEN source'[t] = Nothing /\ event'[t] = [u \in Uids |-> Nothing]
                             ELSE source'[t] = source[t] /\ event'[t] = event[t]
      BY <1>0, <2>1 DEF Calendars!TypeOK
    <2>3. Calendars!TypeOK'
      BY <1>0, <1>8, <2>1, <2>2 DEF Calendars!DeleteSource, Calendars!TypeOK, Calendars!Exists
    <2>4. Calendars!StoredIsOneVersion'
      BY <1>0, <2>2 DEF Calendars!StoredIsOneVersion, Calendars!Exists, Calendars!Parsed
    <2>. QED  BY <2>3, <2>4 DEF CalendarsInv
  <1>9. ASSUME NEW s \in Sources, Calendars!Derive(s)
        PROVE  CalendarsInv'
    <2>1. holiday' = [holiday EXCEPT ![s] =
            [r \in 1..MaxRows |-> IF r \in Calendars!Underived(s) THEN holiday[s][r] + 1
                                  ELSE holiday[s][r]]]
      BY <1>9 DEF Calendars!Derive
    <2>2. Calendars!TypeOK'
      BY <1>0, <1>9, <2>1 DEF Calendars!Derive, Calendars!TypeOK, Calendars!Exists
    <2>. QED  BY <1>9, <2>2, EventsKeep DEF Calendars!Derive
  <1>10. ASSUME NEW s \in Sources, NEW r \in 1..MaxRows, Calendars!DeleteHoliday(s, r)
         PROVE  CalendarsInv'
    <2>1. holiday[s][r] - 1 \in Nat
      BY <1>0, <1>10 DEF Calendars!DeleteHoliday, Calendars!TypeOK
    <2>2. holiday' = [holiday EXCEPT ![s] = [holiday[s] EXCEPT ![r] = holiday[s][r] - 1]]
      BY <1>0, <1>10 DEF Calendars!DeleteHoliday, Calendars!TypeOK
    <2>3. [holiday[s] EXCEPT ![r] = holiday[s][r] - 1] \in [1..MaxRows -> Nat]
      BY <1>0, <2>1 DEF Calendars!TypeOK
    <2>4. Calendars!TypeOK'
      BY <1>0, <1>10, <2>2, <2>3 DEF Calendars!DeleteHoliday, Calendars!TypeOK, Calendars!Exists
    <2>. QED  BY <1>10, <2>4, EventsKeep DEF Calendars!DeleteHoliday
  <1>11. ASSUME NEW o \in Origins, Calendars!Publish(o)
         PROVE  CalendarsInv'
    <2>1. Calendars!TypeOK'
      BY <1>0, <1>11 DEF Calendars!Publish, Calendars!TypeOK, Calendars!Exists
    <2>. QED  BY <1>11, <2>1, EventsKeep DEF Calendars!Publish
  <1>12. CASE UNCHANGED Calendars!vars
    <2>1. Calendars!TypeOK'
      BY <1>0, <1>12 DEF Calendars!vars, Calendars!TypeOK, Calendars!Exists
    <2>. QED  BY <1>12, <2>1, EventsKeep DEF Calendars!vars
  <1>. QED
    BY <1>1, <1>2, <1>3, <1>4, <1>5, <1>6, <1>7, <1>8, <1>9, <1>10, <1>11, <1>12
    DEF Calendars!Next

\* A calendar source holds one version of its content, whatever fetches,
\* failures, replacements and deletions overlap (writeEvents).
THEOREM StoredOnce == Spec => []StoredIsOneVersion
  <1>1. CalendarsInv => StoredIsOneVersion
    BY DEF CalendarsInv, StoredIsOneVersion
  <1>. QED
    BY <1>1, CalendarsInvInit, CalendarsInvStep, CalendarsArePart, PTL DEF Calendars!Spec
-----------------------------------------------------------------------------
(* Moving and replacing all data.                                          *)

\* The number of changes is bounded, and records are entries or rules.
LEMMA TransferConstants == TransferWrites \in Nat
  BY ServerAssumption DEF ServerAssumption, Transfer!BoundAssumption

\* A historical actor is not the absent value.
LEMMA TransferNothing == Nothing \notin Transfer!Actor
  BY ServerAssumption DEF ServerAssumption, Transfer!NothingAssumption

\* A receipt that is still current shows the target as it is.
ReceiptsAreCurrent ==
  \A t \in DryRuns : receipt[t] # Nothing /\ receipt[t].current => receipt[t].shown = domain

\* An invitation that names an actor names one there is.
LinkedActorsExist ==
  \A m \in TransferMembers :
    offered[m] # Nothing /\ offered[m].linked => actor[m] # Nothing

TransferInv ==
  /\ Transfer!TypeOK /\ ReceiptsAreCurrent /\ LinkedActorsExist
  /\ Transfer!AccessGivenSinceReplaced

\* It holds of an empty installation.
LEMMA TransferInvInit == Transfer!Init => TransferInv
  <1>. SUFFICES ASSUME Transfer!Init PROVE TransferInv
    OBVIOUS
  <1>1. Transfer!Empty \in Transfer!Domain
    BY DEF Transfer!Empty, Transfer!Domain, Transfer!Status
  <1>2. Transfer!TypeOK
    BY <1>1, TransferConstants DEF Transfer!Init, Transfer!TypeOK, Transfer!NoActors
  <1>3. ReceiptsAreCurrent /\ LinkedActorsExist
    BY DEF Transfer!Init, ReceiptsAreCurrent, LinkedActorsExist, Transfer!NoActors
  <1>4. Transfer!AccessGivenSinceReplaced
    BY DEF Transfer!Init, Transfer!AccessGivenSinceReplaced, Transfer!NoActors
  <1>. QED  BY <1>2, <1>3, <1>4 DEF TransferInv

\* A receipt that no longer matches stays a receipt of the same test.
LEMMA OutdatedReceipts ==
  ASSUME Transfer!TypeOK, Transfer!Outdated
  PROVE  /\ receipt' \in [DryRuns -> Transfer!Receipt \cup {Nothing}]
         /\ ReceiptsAreCurrent'
  <1>1. ASSUME NEW t \in DryRuns
        PROVE  /\ receipt'[t] = Nothing \/ receipt'[t] \in Transfer!Receipt
               /\ receipt'[t] = Nothing \/ ~receipt'[t].current
    <2>1. CASE receipt[t] = Nothing
      BY <2>1 DEF Transfer!Outdated
    <2>2. CASE receipt[t] # Nothing
      <3>1. receipt[t] \in Transfer!Receipt /\ receipt'[t] = [receipt[t] EXCEPT !.current = FALSE]
        BY <2>2 DEF Transfer!Outdated, Transfer!TypeOK
      <3>. QED  BY <3>1 DEF Transfer!Receipt
    <2>. QED  BY <2>1, <2>2
  <1>2. receipt' = [t \in DryRuns |-> receipt'[t]]
    BY DEF Transfer!Outdated
  <1>. QED  BY <1>1, <1>2 DEF ReceiptsAreCurrent

\* Everyday work on the data outdates the receipts and touches no access.
LEMMA WorkedKeeps ==
  ASSUME TransferInv, NEW d \in Transfer!Domain, Transfer!Worked(d)
  PROVE  TransferInv'
  <1>1. Transfer!TypeOK'
    BY OutdatedReceipts, TransferConstants DEF TransferInv, Transfer!Worked, Transfer!TypeOK
  <1>2. ReceiptsAreCurrent'
    BY OutdatedReceipts DEF TransferInv, Transfer!Worked
  <1>3. LinkedActorsExist' /\ Transfer!AccessGivenSinceReplaced'
    BY DEF TransferInv, Transfer!Worked, LinkedActorsExist, Transfer!AccessGivenSinceReplaced
  <1>. QED  BY <1>1, <1>2, <1>3 DEF TransferInv

\* Each kind of everyday work leaves data of its type.
LEMMA WorkStep ==
  ASSUME TransferInv,
         \/ \E c \in TransferChildren : Transfer!CreateChild(c) \/ Transfer!DeleteChild(c)
         \/ \E p \in CareParties : Transfer!CreateParty(p) \/ Transfer!DeleteParty(p)
         \/ \E m \in TransferMembers, r \in DOMAIN TransferKind,
               kids, actual \in SUBSET TransferChildren, p \in CareParties :
              Transfer!WriteRecord(m, r, kids, actual, p)
  PROVE  TransferInv'
  <1>0. /\ domain \in Transfer!Domain
        /\ domain.child \in [TransferChildren -> Transfer!Status]
        /\ domain.party \in [CareParties -> Transfer!Status]
        /\ domain.record \in [DOMAIN TransferKind -> Transfer!Row \cup {Nothing}]
    BY DEF TransferInv, Transfer!TypeOK, Transfer!Domain
  <1>1. ASSUME NEW c \in TransferChildren, Transfer!CreateChild(c)
        PROVE  TransferInv'
    <2>1. [domain EXCEPT !.child = [domain.child EXCEPT ![c] = "live"]] \in Transfer!Domain
      BY <1>0 DEF Transfer!Domain, Transfer!Status
    <2>2. [domain EXCEPT !.child[c] = "live"] = [domain EXCEPT !.child = [domain.child EXCEPT ![c] = "live"]]
      OBVIOUS
    <2>. QED  BY <1>1, <2>1, <2>2, WorkedKeeps DEF Transfer!CreateChild
  <1>2. ASSUME NEW c \in TransferChildren, Transfer!DeleteChild(c)
        PROVE  TransferInv'
    <2>. DEFINE left == Transfer!Unlinked(c)
                gone == [domain.child EXCEPT ![c] = "deleted"]
    <2>1. ASSUME NEW r \in DOMAIN TransferKind, domain.record[r] # Nothing
          PROVE  [domain.record[r] EXCEPT !.kids = domain.record[r].kids \ {c}] \in Transfer!Row
      BY <1>0, <2>1 DEF Transfer!Row
    <2>2. left \in [DOMAIN TransferKind -> Transfer!Row \cup {Nothing}]
      BY <1>0, <2>1 DEF Transfer!Unlinked
    <2>3. gone \in [TransferChildren -> Transfer!Status]
      BY <1>0 DEF Transfer!Status
    <2>4. Transfer!Worked([domain EXCEPT !.child = gone, !.record = left])
      BY <1>2 DEF Transfer!DeleteChild
    <2>. HIDE DEF left, gone
    <2>5. [domain EXCEPT !.child = gone, !.record = left] \in Transfer!Domain
      BY <1>0, <2>2, <2>3 DEF Transfer!Domain
    <2>. QED  BY <2>4, <2>5, WorkedKeeps
  <1>3. ASSUME NEW p \in CareParties, Transfer!CreateParty(p) \/ Transfer!DeleteParty(p)
        PROVE  TransferInv'
    <2>1. \A s \in Transfer!Status :
            [domain EXCEPT !.party = [domain.party EXCEPT ![p] = s]] \in Transfer!Domain
      BY <1>0 DEF Transfer!Domain
    <2>2. \A s : [domain EXCEPT !.party[p] = s] = [domain EXCEPT !.party = [domain.party EXCEPT ![p] = s]]
      OBVIOUS
    <2>3. "live" \in Transfer!Status /\ "deleted" \in Transfer!Status
      BY DEF Transfer!Status
    <2>. QED
      BY <1>3, <2>1, <2>2, <2>3, WorkedKeeps DEF Transfer!CreateParty, Transfer!DeleteParty
  <1>4. ASSUME NEW m \in TransferMembers, NEW r \in DOMAIN TransferKind,
               NEW kids \in SUBSET TransferChildren, NEW actual \in SUBSET TransferChildren,
               NEW p \in CareParties, Transfer!WriteRecord(m, r, kids, actual, p)
        PROVE  TransferInv'
    <2>. DEFINE now == [kids |-> kids, actual |-> actual, party |-> p, by |-> m]
    <2>1. now \in Transfer!Row
      BY DEF Transfer!Row
    <2>2. Transfer!Worked([domain EXCEPT !.record = [domain.record EXCEPT ![r] = now]])
      BY <1>4 DEF Transfer!WriteRecord
    <2>. HIDE DEF now
    <2>3. [domain EXCEPT !.record = [domain.record EXCEPT ![r] = now]] \in Transfer!Domain
      BY <1>0, <2>1 DEF Transfer!Domain
    <2>. QED  BY <2>2, <2>3, WorkedKeeps
  <1>. QED  BY <1>1, <1>2, <1>3, <1>4

\* The tests: a dry run compares with the data there is, and no receipt outlives
\* a change of it.
LEMMA TestStep ==
  ASSUME TransferInv,
         \/ \E f \in Packages : Transfer!Export(f)
         \/ \E t \in DryRuns, f \in Packages : Transfer!DryRun(t, f)
         \/ \E t \in DryRuns : Transfer!Discard(t)
         \/ Transfer!Restart
  PROVE  TransferInv'
  <1>0. /\ Transfer!TypeOK /\ ReceiptsAreCurrent
        /\ domain \in Transfer!Domain
        /\ domain.child \in [TransferChildren -> Transfer!Status]
        /\ domain.party \in [CareParties -> Transfer!Status]
        /\ domain.record \in [DOMAIN TransferKind -> Transfer!Row \cup {Nothing}]
    BY DEF TransferInv, Transfer!TypeOK, Transfer!Domain
  <1>k. ASSUME UNCHANGED <<domain, given, offered, actor, chosen>>, Transfer!TypeOK',
               ReceiptsAreCurrent'
        PROVE  TransferInv'
    BY <1>k DEF TransferInv, LinkedActorsExist, Transfer!AccessGivenSinceReplaced
  <1>1. ASSUME NEW f \in Packages, Transfer!Export(f)
        PROVE  TransferInv'
    <2>1. Transfer!Exported \in Transfer!Domain
      BY <1>0 DEF Transfer!Exported, Transfer!Domain, Transfer!Status
    <2>2. Transfer!ExportedActors \in [TransferMembers -> (SUBSET CareParties) \cup {Nothing}]
      BY <1>0 DEF Transfer!ExportedActors, Transfer!TypeOK
    <2>3. [domain |-> Transfer!Exported, actors |-> Transfer!ExportedActors] \in Transfer!Package
      BY <2>1, <2>2 DEF Transfer!Package
    <2>4. Transfer!TypeOK'
      BY <1>0, <1>1, <2>3 DEF Transfer!Export, Transfer!TypeOK
    <2>5. ReceiptsAreCurrent'
      BY <1>0, <1>1 DEF Transfer!Export, ReceiptsAreCurrent
    <2>. QED  BY <1>1, <1>k, <2>4, <2>5 DEF Transfer!Export
  <1>2. ASSUME NEW t \in DryRuns, NEW f \in Packages, Transfer!DryRun(t, f)
        PROVE  TransferInv'
    <2>. DEFINE now == [package |-> file[f], current |-> TRUE, shown |-> domain]
    <2>1. file[f] \in Transfer!Package
      BY <1>0, <1>2 DEF Transfer!DryRun, Transfer!TypeOK
    <2>2. now \in Transfer!Receipt /\ now.shown = domain
      BY <1>0, <2>1 DEF Transfer!Receipt
    <2>3. receipt' = [receipt EXCEPT ![t] = now] /\ domain' = domain
      BY <1>2 DEF Transfer!DryRun
    <2>. HIDE DEF now
    <2>4. Transfer!TypeOK'
      BY <1>0, <1>2, <2>2, <2>3 DEF Transfer!DryRun, Transfer!TypeOK
    <2>5. ReceiptsAreCurrent'
      BY <1>0, <2>2, <2>3 DEF ReceiptsAreCurrent, Transfer!TypeOK
    <2>. QED  BY <1>2, <1>k, <2>4, <2>5 DEF Transfer!DryRun
  <1>3. ASSUME NEW t \in DryRuns, Transfer!Discard(t)
        PROVE  TransferInv'
    <2>1. Transfer!TypeOK' /\ ReceiptsAreCurrent'
      BY <1>0, <1>3 DEF Transfer!Discard, Transfer!TypeOK, ReceiptsAreCurrent
    <2>. QED  BY <1>3, <1>k, <2>1 DEF Transfer!Discard
  <1>4. CASE Transfer!Restart
    <2>1. Transfer!TypeOK' /\ ReceiptsAreCurrent'
      BY <1>0, <1>4 DEF Transfer!Restart, Transfer!TypeOK, ReceiptsAreCurrent
    <2>. QED  BY <1>4, <1>k, <2>1 DEF Transfer!Restart
  <1>. QED  BY <1>1, <1>2, <1>3, <1>4

\* What replaces the data takes the access with it.
LEMMA ReplacedKeeps ==
  ASSUME TransferInv, NEW d \in Transfer!Domain, NEW linked \in BOOLEAN,
         Transfer!Replaced(d, linked),
         actor' \in [TransferMembers -> Transfer!Actor \cup {Nothing}],
         linked => actor' = actor
  PROVE  TransferInv'
  <1>0. Transfer!TypeOK /\ LinkedActorsExist
    BY DEF TransferInv
  <1>1. ASSUME NEW m \in TransferMembers, offered[m] # Nothing
        PROVE  [parties |-> {}, linked |-> offered[m].linked /\ linked] \in Transfer!Invitation
    BY <1>0, <1>1 DEF Transfer!TypeOK, Transfer!Invitation
  <1>2. offered' \in [TransferMembers -> Transfer!Invitation \cup {Nothing}]
    BY <1>1 DEF Transfer!Replaced, Transfer!InvitationsCleared
  <1>3. Transfer!TypeOK'
    BY <1>0, <1>2, OutdatedReceipts
    DEF Transfer!Replaced, Transfer!AssignmentsCleared, Transfer!TypeOK
  <1>4. ASSUME NEW m \in TransferMembers, offered'[m] # Nothing
        PROVE  /\ offered'[m].parties = {}
               /\ offered'[m].linked => actor'[m] # Nothing
    <2>1. offered[m] # Nothing
          /\ offered'[m] = [parties |-> {}, linked |-> offered[m].linked /\ linked]
      BY <1>4 DEF Transfer!Replaced, Transfer!InvitationsCleared
    <2>2. offered[m].linked \in BOOLEAN
      BY <1>0, <2>1 DEF Transfer!TypeOK, Transfer!Invitation
    <2>3. CASE linked
      <3>1. offered'[m].parties = {} /\ offered'[m].linked = offered[m].linked
        BY <2>1, <2>2, <2>3
      <3>. QED  BY <1>0, <2>1, <2>3, <3>1 DEF LinkedActorsExist
    <2>4. CASE ~linked
      BY <2>1, <2>2, <2>4
    <2>. QED  BY <2>3, <2>4
  <1>5. LinkedActorsExist' /\ Transfer!AccessGivenSinceReplaced'
    BY <1>4
    DEF LinkedActorsExist, Transfer!AccessGivenSinceReplaced, Transfer!Replaced,
        Transfer!AssignmentsCleared
  <1>6. ReceiptsAreCurrent'
    BY <1>0, OutdatedReceipts DEF Transfer!Replaced
  <1>. QED  BY <1>3, <1>5, <1>6 DEF TransferInv

\* Imports, restores and resets.
LEMMA ReplaceStep ==
  ASSUME TransferInv,
         \/ \E t \in DryRuns : Transfer!Import(t)
         \/ \E f \in Packages : Transfer!Restore(f)
         \/ Transfer!Reset
  PROVE  TransferInv'
  <1>0. Transfer!TypeOK
    BY DEF TransferInv
  <1>1. ASSUME NEW t \in DryRuns, Transfer!Import(t)
        PROVE  TransferInv'
    <2>1. receipt[t] \in Transfer!Receipt
      BY <1>0, <1>1 DEF Transfer!Import, Transfer!TestedOnTarget, Transfer!TypeOK
    <2>2. PICK package \in Transfer!Package : package = receipt[t].package
      BY <2>1 DEF Transfer!Receipt
    <2>3. PICK d \in Transfer!Domain : d = package.domain
      BY DEF Transfer!Package
    <2>4. Transfer!Remapped(d) \in Transfer!Domain
      <3>1. \A r \in DOMAIN TransferKind : d.record[r] # Nothing =>
              [d.record[r] EXCEPT !.by = "historical"] \in Transfer!Row
        BY DEF Transfer!Domain, Transfer!Row
      <3>2. [r \in DOMAIN TransferKind |->
               IF d.record[r] = Nothing THEN Nothing ELSE [d.record[r] EXCEPT !.by = "historical"]]
              \in [DOMAIN TransferKind -> Transfer!Row \cup {Nothing}]
        BY <3>1
      <3>. QED  BY <3>2 DEF Transfer!Remapped, Transfer!Domain
    <2>5. Transfer!ImportedActors(package) \in [TransferMembers -> Transfer!Actor \cup {Nothing}]
      BY DEF Transfer!ImportedActors, Transfer!Package, Transfer!Actor
    <2>6. /\ Transfer!Replaced(Transfer!Remapped(d), FALSE)
          /\ actor' = Transfer!ImportedActors(package)
      BY <1>1, <2>2, <2>3 DEF Transfer!Import
    <2>. QED  BY <2>4, <2>5, <2>6, ReplacedKeeps
  <1>2. ASSUME NEW f \in Packages, Transfer!Restore(f)
        PROVE  TransferInv'
    <2>1. file[f].domain \in Transfer!Domain
      BY <1>0, <1>2 DEF Transfer!Restore, Transfer!TypeOK, Transfer!Package
    <2>. QED  BY <1>0, <1>2, <2>1, ReplacedKeeps DEF Transfer!Restore, Transfer!TypeOK
  <1>3. CASE Transfer!Reset
    <2>1. Transfer!Empty \in Transfer!Domain
      BY DEF Transfer!Empty, Transfer!Domain, Transfer!Status
    <2>. QED  BY <1>0, <1>3, <2>1, ReplacedKeeps DEF Transfer!Reset, Transfer!TypeOK
  <1>. QED  BY <1>1, <1>2, <1>3

\* What the owner gives, by assignment, by mapping an actor or by inviting one,
\* and what an accepted invitation gives.
LEMMA GiveStep ==
  ASSUME TransferInv,
         \/ \E m \in TransferMembers, ps \in SUBSET CareParties : Transfer!Assign(m, ps)
         \/ \E a, m \in TransferMembers, ps \in SUBSET CareParties : Transfer!MapActor(a, m, ps)
         \/ \E a \in TransferMembers : Transfer!InviteActor(a)
         \/ \E a, m \in TransferMembers : Transfer!AcceptInvitation(a, m)
  PROVE  TransferInv'
  <1>0. /\ Transfer!TypeOK /\ ReceiptsAreCurrent /\ LinkedActorsExist
        /\ Transfer!AccessGivenSinceReplaced
    BY DEF TransferInv
  <1>1. ASSUME NEW m \in TransferMembers, NEW ps \in SUBSET CareParties, Transfer!Assign(m, ps)
        PROVE  TransferInv'
    <2>1. Transfer!TypeOK'
      BY <1>0, <1>1, TransferConstants DEF Transfer!Assign, Transfer!TypeOK
    <2>2. ReceiptsAreCurrent' /\ LinkedActorsExist'
      BY <1>0, <1>1 DEF Transfer!Assign, ReceiptsAreCurrent, LinkedActorsExist
    <2>3. Transfer!AccessGivenSinceReplaced'
      BY <1>0, <1>1 DEF Transfer!Assign, Transfer!AccessGivenSinceReplaced, Transfer!TypeOK
    <2>. QED  BY <2>1, <2>2, <2>3 DEF TransferInv
  <1>2. ASSUME NEW a \in TransferMembers, NEW m \in TransferMembers, NEW ps \in SUBSET CareParties,
               Transfer!MapActor(a, m, ps)
        PROVE  TransferInv'
    <2>1. actor[a] \in Transfer!Actor
      BY <1>0, <1>2 DEF Transfer!MapActor, Transfer!TypeOK
    <2>2. [actor[a] EXCEPT !.mapped = m] \in Transfer!Actor
      BY <2>1 DEF Transfer!Actor
    <2>3. actor' = [actor EXCEPT ![a] = [actor[a] EXCEPT !.mapped = m]]
      BY <1>0, <1>2 DEF Transfer!MapActor, Transfer!TypeOK
    <2>4. Transfer!TypeOK'
      BY <1>0, <1>2, <2>2, <2>3, OutdatedReceipts DEF Transfer!MapActor, Transfer!TypeOK
    <2>5. ReceiptsAreCurrent'
      BY <1>0, <1>2, OutdatedReceipts DEF Transfer!MapActor
    <2>6. Transfer!AccessGivenSinceReplaced'
      BY <1>0, <1>2 DEF Transfer!MapActor, Transfer!AccessGivenSinceReplaced, Transfer!TypeOK
    <2>7. LinkedActorsExist'
      BY <1>0, <1>2, <2>2, <2>3, TransferNothing DEF Transfer!MapActor, LinkedActorsExist, Transfer!TypeOK
    <2>. QED  BY <2>4, <2>5, <2>6, <2>7 DEF TransferInv
  <1>3. ASSUME NEW a \in TransferMembers, Transfer!InviteActor(a)
        PROVE  TransferInv'
    <2>1. actor[a] \in Transfer!Actor /\ actor[a].suggested \in SUBSET CareParties
      BY <1>0, <1>3 DEF Transfer!InviteActor, Transfer!TypeOK, Transfer!Actor
    <2>. DEFINE now == [parties |-> actor[a].suggested, linked |-> TRUE]
    <2>2. now \in Transfer!Invitation /\ now.parties = actor[a].suggested
      BY <2>1 DEF Transfer!Invitation
    <2>3. offered' = [offered EXCEPT ![a] = now]
      BY <1>3 DEF Transfer!InviteActor
    <2>. HIDE DEF now
    <2>4. Transfer!TypeOK'
      BY <1>0, <1>3, <2>1, <2>2, <2>3, OutdatedReceipts DEF Transfer!InviteActor, Transfer!TypeOK
    <2>5. ReceiptsAreCurrent'
      BY <1>0, <1>3, OutdatedReceipts DEF Transfer!InviteActor
    <2>6. Transfer!AccessGivenSinceReplaced'
      BY <1>0, <1>3, <2>2, <2>3
      DEF Transfer!InviteActor, Transfer!AccessGivenSinceReplaced, Transfer!TypeOK
    <2>7. LinkedActorsExist'
      BY <1>0, <1>3, <2>3 DEF Transfer!InviteActor, LinkedActorsExist, Transfer!TypeOK
    <2>. QED  BY <2>4, <2>5, <2>6, <2>7 DEF TransferInv
  <1>4. ASSUME NEW a \in TransferMembers, NEW m \in TransferMembers, Transfer!AcceptInvitation(a, m)
        PROVE  TransferInv'
    <2>1. /\ offered[a] \in Transfer!Invitation
          /\ offered[a].parties \in SUBSET CareParties /\ offered[a].parties \subseteq chosen
      BY <1>0, <1>4
      DEF Transfer!AcceptInvitation, Transfer!TypeOK, Transfer!Invitation,
          Transfer!AccessGivenSinceReplaced
    <2>2. actor' \in [TransferMembers -> Transfer!Actor \cup {Nothing}]
          /\ \A b \in TransferMembers : actor[b] # Nothing => actor'[b] # Nothing
      <3>1. CASE offered[a].linked
        <4>1. actor[a] \in Transfer!Actor
          BY <1>0, <1>4, <3>1 DEF Transfer!AcceptInvitation, LinkedActorsExist, Transfer!TypeOK
        <4>2. [actor[a] EXCEPT !.mapped = m] \in Transfer!Actor
          BY <4>1 DEF Transfer!Actor
        <4>3. actor' = [actor EXCEPT ![a] = [actor[a] EXCEPT !.mapped = m]]
          BY <1>0, <1>4, <3>1 DEF Transfer!AcceptInvitation, Transfer!TypeOK
        <4>. QED  BY <1>0, <4>2, <4>3, TransferNothing DEF Transfer!TypeOK
      <3>2. CASE ~offered[a].linked
        BY <1>0, <1>4, <3>2 DEF Transfer!AcceptInvitation, Transfer!TypeOK
      <3>. QED  BY <3>1, <3>2
    <2>3. receipt' \in [DryRuns -> Transfer!Receipt \cup {Nothing}] /\ ReceiptsAreCurrent'
      <3>1. CASE offered[a].linked
        BY <1>0, <1>4, <3>1, OutdatedReceipts DEF Transfer!AcceptInvitation
      <3>2. CASE ~offered[a].linked
        BY <1>0, <1>4, <3>2 DEF Transfer!AcceptInvitation, Transfer!TypeOK, ReceiptsAreCurrent
      <3>. QED  BY <3>1, <3>2
    <2>4. Transfer!TypeOK'
      BY <1>0, <1>4, <2>1, <2>2, <2>3 DEF Transfer!AcceptInvitation, Transfer!TypeOK
    <2>5. Transfer!AccessGivenSinceReplaced'
      BY <1>0, <1>4, <2>1
      DEF Transfer!AcceptInvitation, Transfer!AccessGivenSinceReplaced, Transfer!TypeOK
    <2>6. LinkedActorsExist'
      BY <1>0, <1>4, <2>2 DEF Transfer!AcceptInvitation, LinkedActorsExist, Transfer!TypeOK
    <2>. QED  BY <2>3, <2>4, <2>5, <2>6 DEF TransferInv
  <1>. QED  BY <1>1, <1>2, <1>3, <1>4

\* No step disturbs the invariant.
LEMMA TransferInvStep == TransferInv /\ [Transfer!Next]_(Transfer!vars) => TransferInv'
  <1>. SUFFICES ASSUME TransferInv, [Transfer!Next]_(Transfer!vars)
                PROVE  TransferInv'
    OBVIOUS
  <1>1. CASE UNCHANGED Transfer!vars
    BY <1>1
    DEF Transfer!vars, TransferInv, Transfer!TypeOK, ReceiptsAreCurrent, LinkedActorsExist,
        Transfer!AccessGivenSinceReplaced
  <1>2. CASE Transfer!Next
    BY <1>2, WorkStep, TestStep, ReplaceStep, GiveStep DEF Transfer!Next
  <1>. QED  BY <1>1, <1>2

\* The invariant holds in every installation.
LEMMA TransferInvHolds == Spec => []TransferInv
  BY TransferInvInit, TransferInvStep, TransferIsPart, PTL DEF Transfer!Spec

\* An import replaces the data its dry run compared the package with
\* (verifyDryRunReceipt, importPortableTransfer).
THEOREM ImportsAreTested == Spec => ImportedAsTested
  <1>1. TransferInv => [\A t \in DryRuns : (Transfer!Import(t) => receipt[t].shown = domain)]_(Transfer!vars)
    BY DEF TransferInv, ReceiptsAreCurrent, Transfer!Import, Transfer!TestedOnTarget
  <1>. QED  BY <1>1, TransferInvHolds, PTL DEF ImportedAsTested, Transfer!ImportedAsTested

\* After the data was replaced, members and invitations have only care parties
\* that the owner gave since then (clearDomainData).
THEOREM AccessIsGivenAnew == Spec => []AccessGivenSinceReplaced
  <1>1. TransferInv => AccessGivenSinceReplaced
    BY DEF TransferInv, AccessGivenSinceReplaced
  <1>. QED  BY <1>1, TransferInvHolds, PTL

\* Every variable of these parts has its type.
THEOREM DataTypes == Spec => [](Devices!TypeOK /\ Calendars!TypeOK /\ Transfer!TypeOK)
  <1>1. DevicesInv => Devices!TypeOK
    BY DEF DevicesInv
  <1>2. Devices!Spec => []Devices!TypeOK
    BY <1>1, DevicesInvInit, DevicesInvStep, PTL DEF Devices!Spec
  <1>3. CalendarsInv => Calendars!TypeOK
    BY DEF CalendarsInv
  <1>4. Calendars!Spec => []Calendars!TypeOK
    BY <1>3, CalendarsInvInit, CalendarsInvStep, PTL DEF Calendars!Spec
  <1>5. TransferInv => Transfer!TypeOK
    BY DEF TransferInv
  <1>. QED  BY <1>2, <1>4, <1>5, TransferInvHolds, DevicesArePart, CalendarsArePart, PTL

-----------------------------------------------------------------------------
(* Records: care, privacy actions and the legacy migration.                *)

\* What happens to records is what CareRecords allows.
LEMMA CareIsPart == Spec => Care!Spec
  <1>1. Init => Care!Init
    BY DEF Init
  <1>2. [Next]_vars => [Care!Next]_(Care!vars)
    BY DEF Next, vars, recordsVars, Care!vars
  <1>. QED  BY <1>1, <1>2, PTL DEF Spec, Care!Spec

\* What a privacy action meets is what PrivacyActions allows.
LEMMA PrivacyIsPart == Spec => Privacy!Spec
  <1>1. Init => Privacy!Init
    BY DEF Init
  <1>2. [Next]_vars => [Privacy!Next]_(Privacy!vars)
    BY DEF Next, vars, privacyVars, Privacy!vars
  <1>. QED  BY <1>1, <1>2, PTL DEF Spec, Privacy!Spec

\* What a migration from a browser meets is what LegacyMigration allows.
LEMMA MigrationIsPart == Spec => Migration!Spec
  <1>1. Init => Migration!Init
    BY DEF Init
  <1>2. [Next]_vars => [Migration!Next]_(Migration!vars)
    BY DEF Next, vars, migrationVars, Migration!vars
  <1>. QED  BY <1>1, <1>2, PTL DEF Spec, Migration!Spec

-----------------------------------------------------------------------------
(* Records and children.                                                   *)

CareRecordIds == DOMAIN CareKind

\* Every record has a kind, generated entries come from a pattern, and the
\* absent value is nothing else.
LEMMA CareConstants ==
  /\ \A r \in CareRecordIds : CareSource[r] # Nothing => CareKind[r] = "entry"
  /\ CareMonths \subseteq Nat
  /\ Nothing \notin CareRecordIds /\ Nothing \notin CareParties
  /\ Nothing \notin Care!Row /\ Nothing \notin Care!Mirror /\ Nothing \notin Care!Lookup
  BY ServerAssumption
  DEF ServerAssumption, Care!SourceAssumption, Care!MonthAssumption, Care!NothingAssumption,
      CareRecordIds

\* What was looked up exists, with the rule mirrored from it, and a record
\* with children has rows in its junction.
LookedUpExists ==
  /\ \A q \in CareRequests : pending[q] # Nothing /\ pending[q].op \in {"update", "delete"} =>
       record[pending[q].record] # Nothing
  /\ \A r \in Care!Patterns : record[r] # Nothing => mirror[r] # Nothing

KidsAreLinked ==
  \A r \in CareRecordIds : record[r] # Nothing /\ record[r].kids # {} => record[r].linked

CareInv ==
  Care!TypeOK /\ Care!RecordsHaveLiveChildren /\ LookedUpExists /\ KidsAreLinked

\* It holds when nothing has been recorded.
LEMMA CareInvInit == Care!Init => CareInv
  <1>. SUFFICES ASSUME Care!Init PROVE CareInv
    OBVIOUS
  <1>1. Care!TypeOK
    BY DEF Care!Init, Care!TypeOK
  <1>2. Care!RecordsHaveLiveChildren /\ LookedUpExists /\ KidsAreLinked
    BY DEF Care!Init, Care!RecordsHaveLiveChildren, Care!Live, LookedUpExists, KidsAreLinked,
           CareRecordIds, Care!Patterns
  <1>. QED  BY <1>1, <1>2 DEF CareInv

\* What a handler under way keeps.
LEMMA LookupFields ==
  ASSUME NEW x \in Care!Lookup
  PROVE  /\ x.op \in {"update", "delete", "deleteParty"}
         /\ x.op \in {"update", "delete"} =>
              /\ x.record \in CareRecordIds /\ x.month \in CareMonths
              /\ x.party \in CareParties \cup {Nothing}
         /\ x.op = "deleteParty" => x.party \in CareParties
  BY DEF Care!Lookup, CareRecordIds

\* Marking the months keeps their types.
LEMMA CloseTypes ==
  ASSUME Care!TypeOK, NEW ms, NEW touched, touched \subseteq CareMonths, Care!Close(ms, touched)
  PROVE  /\ closing' \in [CareMonths -> {"open", "closed", "changed"}]
         /\ missed' \subseteq CareMonths
  BY DEF Care!TypeOK, Care!Close

\* A row that a write stores.
StoresRow(r, kids) ==
  /\ record'[r] \in Care!Row
  /\ record'[r].live /\ record'[r].kids = kids
  /\ kids # {} => record'[r].linked

\* Every row a handler stores is one of a live record with its children.
LEMMA StoredRow ==
  ASSUME Care!TypeOK, NEW r \in CareRecordIds, NEW kids \in SUBSET Children,
         NEW actual \in SUBSET Children, NEW p \in CareParties \cup {Nothing},
         NEW m \in CareMonths, NEW edited \in BOOLEAN,
         record'[r] = Care!Stored(r, kids, actual, p, m, edited)
  PROVE  StoresRow(r, kids)
  <1>. DEFINE linked == kids # {} \/ (record[r] # Nothing /\ record[r].linked)
  <1>1. linked \in BOOLEAN
    OBVIOUS
  <1>2. record'[r] = [live |-> TRUE, kids |-> kids, actual |-> actual, linked |-> linked,
                      party |-> p, month |-> m, edited |-> edited]
    BY DEF Care!Stored
  <1>3. kids # {} => linked
    OBVIOUS
  <1>. HIDE DEF linked
  <1>. QED  BY <1>1, <1>2, <1>3 DEF StoresRow, Care!Row

\* Writes about live children leave no record with another one.
LEMMA WritesKeep ==
  ASSUME CareInv, child' = child, NEW kids \in SUBSET Children, Care!ChildrenExist(kids),
         record' \in [CareRecordIds -> Care!Row \cup {Nothing}],
         \A r \in CareRecordIds :
           \/ record'[r] = record[r]
           \/ StoresRow(r, kids) /\ (CareKind[r] # "period" => kids # {})
           \/ record'[r] # Nothing /\ ~record'[r].live /\ record'[r].kids = {}
  PROVE  Care!RecordsHaveLiveChildren' /\ KidsAreLinked'
  <1>1. Care!LiveChildren' = Care!LiveChildren
    BY DEF Care!LiveChildren
  <1>2. ASSUME NEW r \in CareRecordIds, record'[r] # Nothing
        PROVE  /\ record'[r].kids # {} => record'[r].linked
               /\ record'[r].live => /\ record'[r].kids \subseteq Care!LiveChildren
                                     /\ CareKind[r] # "period" => record'[r].kids # {}
    BY <1>2
    DEF CareInv, KidsAreLinked, Care!RecordsHaveLiveChildren, Care!Live, StoresRow,
        Care!ChildrenExist, CareRecordIds
  <1>. QED
    BY <1>1, <1>2
    DEF KidsAreLinked, Care!RecordsHaveLiveChildren, Care!Live, CareRecordIds

\* The months of a synchronization are months.
LEMMA SyncTouchesMonths ==
  ASSUME Care!TypeOK, NEW r, NEW m \in CareMonths
  PROVE  Care!SyncTouches(r, m) \subseteq CareMonths
  <1>1. \A g \in CareRecordIds : Care!MonthsOf(g) \subseteq CareMonths
    BY CareConstants DEF Care!TypeOK, Care!MonthsOf, Care!Row, CareRecordIds
  <1>. QED  BY <1>1 DEF Care!SyncTouches, Care!Generated, CareRecordIds

\* What a synchronization stores, of a rule with children.
LEMMA SyncedRows ==
  ASSUME CareInv, NEW r \in Care!Patterns, NEW kids \in SUBSET Children, kids # {},
         NEW p \in CareParties \cup {Nothing}, NEW m \in CareMonths, NEW x \in CareRecordIds,
         record'[x] = Care!Synced(r, kids, p, m)[x]
  PROVE  /\ \/ record'[x] = record[x]
            \/ StoresRow(x, kids) /\ CareKind[x] = "entry"
         /\ record'[x] \in Care!Row \cup {Nothing}
  <1>0. Care!TypeOK
    BY DEF CareInv
  <1>1. CASE x \in Care!Generated(r)
    <2>1. record'[x] = Care!Stored(x, kids, {}, p, m, FALSE)
      BY <1>1 DEF Care!Synced, CareRecordIds
    <2>2. CareKind[x] = "entry"
      BY <1>1, CareConstants DEF Care!Generated, Care!Patterns, CareRecordIds
    <2>3. StoresRow(x, kids)
      BY <1>0, <2>1, StoredRow
    <2>. QED  BY <2>2, <2>3 DEF StoresRow
  <1>2. CASE x \notin Care!Generated(r)
    BY <1>0, <1>2 DEF Care!Synced, CareRecordIds, Care!TypeOK
  <1>. QED  BY <1>1, <1>2

\* What a step leaves true of everything but the handlers under way.
RecordsKept ==
  /\ Care!RecordsHaveLiveChildren' /\ KidsAreLinked'
  /\ record' \in [CareRecordIds -> Care!Row \cup {Nothing}]
  /\ mirror' \in [Care!Patterns -> Care!Mirror \cup {Nothing}]
  /\ closing' \in [CareMonths -> {"open", "closed", "changed"}]
  /\ missed' \subseteq CareMonths
  /\ \A r \in CareRecordIds : record[r] # Nothing => record'[r] # Nothing
  /\ \A r \in Care!Patterns : record'[r] # Nothing => mirror'[r] # Nothing

\* A record that is created or edited, with its rule and what that generates.
LEMMA WriteKeeps ==
  ASSUME CareInv, child' = child, NEW r \in CareRecordIds,
         NEW kids \in SUBSET Children, NEW actual \in SUBSET Children,
         NEW p \in CareParties \cup {Nothing}, NEW m \in CareMonths, NEW from \in CareMonths,
         Care!Write(r, kids, actual, p, m, from)
  PROVE  RecordsKept
  <1>0. /\ Care!TypeOK /\ LookedUpExists /\ Care!ChildrenExist(kids)
        /\ CareKind[r] # "period" => kids # {}
    BY DEF CareInv, Care!Write, Care!Input
  <1>n. Nothing \notin Care!Row /\ Nothing \notin Care!Mirror
    BY CareConstants
  <1>1. CASE CareKind[r] = "pattern"
    <2>1. r \in Care!Patterns /\ kids # {}
      BY <1>0, <1>1 DEF Care!Patterns, CareRecordIds
    <2>2. /\ record' = [Care!Synced(r, kids, p, m) EXCEPT ![r] = Care!Stored(r, kids, {}, p, m, FALSE)]
          /\ mirror' = [mirror EXCEPT ![r] = [live |-> TRUE, kids |-> kids, party |-> p, month |-> m]]
          /\ Care!Close({}, Care!SyncTouches(r, m))
      BY <1>1 DEF Care!Write
    <2>3. record' = [x \in CareRecordIds |->
            IF x = r THEN Care!Stored(r, kids, {}, p, m, FALSE) ELSE Care!Synced(r, kids, p, m)[x]]
      BY <2>2 DEF Care!Synced, CareRecordIds
    <2>4. StoresRow(r, kids)
      BY <1>0, <2>3, StoredRow
    <2>5. ASSUME NEW x \in CareRecordIds, x # r
          PROVE  /\ \/ record'[x] = record[x]
                    \/ StoresRow(x, kids) /\ CareKind[x] = "entry"
                 /\ record'[x] \in Care!Row \cup {Nothing}
      <3>1. record'[x] = Care!Synced(r, kids, p, m)[x]
        BY <2>3, <2>5
      <3>. QED  BY <2>1, <2>5, <3>1, SyncedRows
    <2>6. record' \in [CareRecordIds -> Care!Row \cup {Nothing}]
      <3>1. \A x \in CareRecordIds : record'[x] \in Care!Row \cup {Nothing}
        BY <2>4, <2>5 DEF StoresRow
      <3>2. record' = [x \in CareRecordIds |-> record'[x]]
        BY <2>3
      <3>. QED  BY <3>1, <3>2
    <2>7. Care!RecordsHaveLiveChildren' /\ KidsAreLinked'
      BY <1>0, <2>1, <2>4, <2>5, <2>6, WritesKeep
    <2>8. mirror' \in [Care!Patterns -> Care!Mirror \cup {Nothing}]
          /\ mirror'[r] # Nothing /\ \A x \in Care!Patterns : x # r => mirror'[x] = mirror[x]
      <3>1. [live |-> TRUE, kids |-> kids, party |-> p, month |-> m] \in Care!Mirror
        BY DEF Care!Mirror
      <3>. QED  BY <1>0, <1>n, <2>1, <2>2, <3>1 DEF Care!TypeOK
    <2>9. closing' \in [CareMonths -> {"open", "closed", "changed"}] /\ missed' \subseteq CareMonths
      BY <1>0, <2>2, SyncTouchesMonths, CloseTypes
    <2>10. \A x \in CareRecordIds : record[x] # Nothing => record'[x] # Nothing
      BY <1>n, <2>4, <2>5 DEF StoresRow
    <2>11. \A x \in Care!Patterns : record'[x] # Nothing => mirror'[x] # Nothing
      BY <1>0, <2>5, <2>8 DEF LookedUpExists, Care!Patterns, CareRecordIds
    <2>. QED  BY <2>6, <2>7, <2>8, <2>9, <2>10, <2>11 DEF RecordsKept
  <1>2. CASE CareKind[r] # "pattern"
    <2>. DEFINE edited == CareSource[r] # Nothing
    <2>1. /\ record' = [record EXCEPT ![r] = Care!Stored(r, kids, actual, p, m, edited)]
          /\ Care!Close(Care!Marked(from, m), {m} \cup Care!MonthsOf(r))
          /\ mirror' = mirror
      BY <1>2 DEF Care!Write
    <2>2. edited \in BOOLEAN
      OBVIOUS
    <2>. HIDE DEF edited
    <2>3. record'[r] = Care!Stored(r, kids, actual, p, m, edited)
          /\ \A x \in CareRecordIds : x # r => record'[x] = record[x]
      BY <1>0, <2>1 DEF Care!TypeOK, CareRecordIds
    <2>4. StoresRow(r, kids)
      BY <1>0, <2>2, <2>3, StoredRow
    <2>5. record' \in [CareRecordIds -> Care!Row \cup {Nothing}]
      BY <1>0, <2>1, <2>3, <2>4 DEF Care!TypeOK, CareRecordIds, StoresRow
    <2>6. Care!RecordsHaveLiveChildren' /\ KidsAreLinked'
      BY <1>0, <2>3, <2>4, <2>5, WritesKeep
    <2>7. closing' \in [CareMonths -> {"open", "closed", "changed"}] /\ missed' \subseteq CareMonths
      <3>1. Care!MonthsOf(r) \subseteq CareMonths
        BY <1>0 DEF Care!MonthsOf, Care!TypeOK, Care!Row, CareRecordIds
      <3>. QED  BY <1>0, <2>1, <3>1, CloseTypes
    <2>8. \A x \in CareRecordIds : record[x] # Nothing => record'[x] # Nothing
      BY <1>n, <2>3, <2>4 DEF StoresRow
    <2>9. mirror' \in [Care!Patterns -> Care!Mirror \cup {Nothing}]
          /\ \A x \in Care!Patterns : record'[x] # Nothing => mirror'[x] # Nothing
      BY <1>0, <1>2, <2>1, <2>3 DEF LookedUpExists, Care!Patterns, CareRecordIds, Care!TypeOK
    <2>. QED  BY <2>5, <2>6, <2>7, <2>8, <2>9 DEF RecordsKept
  <1>. QED  BY <1>1, <1>2

\* Handlers under way still know an existing record.
LEMMA HandlersKeep ==
  ASSUME CareInv, RecordsKept,
         child' \in [Children -> {"absent", "live", "deleted"}],
         party' \in [CareParties -> {"live", "deleted"}],
         pending' \in [CareRequests -> Care!Lookup \cup {Nothing}],
         \A q \in CareRequests : pending'[q] \in {pending[q], Nothing}
  PROVE  CareInv'
  <1>1. Care!TypeOK'
    BY DEF RecordsKept, Care!TypeOK, CareRecordIds, Care!Patterns
  <1>2. ASSUME NEW q \in CareRequests, pending'[q] # Nothing, pending'[q].op \in {"update", "delete"}
        PROVE  record'[pending'[q].record] # Nothing
    <2>1. pending'[q] = pending[q] /\ pending[q] \in Care!Lookup
      BY <1>2 DEF CareInv, Care!TypeOK
    <2>2. pending[q].record \in CareRecordIds /\ record[pending[q].record] # Nothing
      BY <1>2, <2>1, LookupFields DEF CareInv, LookedUpExists
    <2>. QED  BY <2>1, <2>2 DEF RecordsKept
  <1>3. LookedUpExists'
    BY <1>2 DEF LookedUpExists, RecordsKept, Care!Patterns
  <1>. QED  BY <1>1, <1>3 DEF CareInv, RecordsKept

\* A step that leaves the records and the rules alone, and deletes no child.
LEMMA OthersKeep ==
  ASSUME CareInv, UNCHANGED <<record, mirror>>,
         child' \in [Children -> {"absent", "live", "deleted"}],
         Care!LiveChildren \subseteq Care!LiveChildren',
         party' \in [CareParties -> {"live", "deleted"}],
         closing' \in [CareMonths -> {"open", "closed", "changed"}], missed' \subseteq CareMonths,
         pending' \in [CareRequests -> Care!Lookup \cup {Nothing}],
         \A q \in CareRequests : pending'[q] \in {pending[q], Nothing}
  PROVE  CareInv'
  <1>1. RecordsKept
    BY DEF RecordsKept, CareInv, Care!TypeOK, LookedUpExists, KidsAreLinked,
           Care!RecordsHaveLiveChildren, Care!Live, CareRecordIds
  <1>. QED  BY <1>1, HandlersKeep

\* A child goes, with its links and every record it leaves without a child.
LEMMA DeleteChildKeeps ==
  ASSUME CareInv, NEW c \in Children, Care!DeleteChild(c)
  PROVE  CareInv'
  <1>0. Care!TypeOK /\ LookedUpExists /\ KidsAreLinked /\ Care!RecordsHaveLiveChildren
    BY DEF CareInv
  <1>n. Nothing \notin Care!Row
    BY CareConstants
  <1>1. /\ child' \in [Children -> {"absent", "live", "deleted"}]
        /\ Care!LiveChildren' = Care!LiveChildren \ {c}
    BY <1>0 DEF Care!DeleteChild, Care!TypeOK, Care!LiveChildren
  <1>2. ASSUME NEW r \in CareRecordIds
        PROVE  /\ record'[r] \in Care!Row \cup {Nothing}
               /\ record[r] = Nothing <=> record'[r] = Nothing
               /\ record'[r] # Nothing =>
                    /\ record'[r].kids = record[r].kids \ {c}
                    /\ record'[r].linked = record[r].linked
                    /\ record'[r].live = (record[r].live /\ (record[r].linked => record[r].kids \ {c} # {}))
    <2>. DEFINE live == record[r].live /\ (record[r].linked => record[r].kids \ {c} # {})
    <2>1. record'[r] = IF record[r] = Nothing THEN Nothing
                       ELSE [record[r] EXCEPT !.kids = record[r].kids \ {c}, !.live = live]
      BY <1>0 DEF Care!DeleteChild, Care!Detached, CareRecordIds, Care!TypeOK, Care!Row
    <2>2. live \in BOOLEAN
      OBVIOUS
    <2>3. record[r] \in Care!Row \cup {Nothing}
      BY <1>0 DEF Care!TypeOK, CareRecordIds
    <2>. HIDE DEF live
    <2>4. record[r] # Nothing =>
            /\ record'[r] \in Care!Row
            /\ record'[r].kids = record[r].kids \ {c}
            /\ record'[r].linked = record[r].linked
            /\ record'[r].live = live
      BY <2>1, <2>2, <2>3 DEF Care!Row
    <2>. QED  BY <1>n, <2>1, <2>4 DEF live
  <1>3. record' \in [CareRecordIds -> Care!Row \cup {Nothing}]
    BY <1>2 DEF Care!DeleteChild, Care!Detached, CareRecordIds
  <1>4. KidsAreLinked'
    BY <1>0, <1>2 DEF KidsAreLinked
  <1>5. ASSUME NEW r \in CareRecordIds, record'[r] # Nothing, record'[r].live
        PROVE  /\ record'[r].kids \subseteq Care!LiveChildren'
               /\ CareKind[r] # "period" => record'[r].kids # {}
    <2>1. /\ record[r] # Nothing /\ record[r].live
          /\ record[r].linked => record[r].kids \ {c} # {}
      BY <1>2, <1>5
    <2>2. /\ record[r].kids \subseteq Care!LiveChildren
          /\ CareKind[r] # "period" => record[r].kids # {}
      BY <1>0, <2>1 DEF Care!RecordsHaveLiveChildren, Care!Live, CareRecordIds
    <2>3. CareKind[r] # "period" => record[r].linked
      BY <1>0, <2>1, <2>2 DEF KidsAreLinked
    <2>. QED  BY <1>1, <1>2, <1>5, <2>1, <2>2, <2>3
  <1>6. Care!RecordsHaveLiveChildren'
    BY <1>5 DEF Care!RecordsHaveLiveChildren, Care!Live, CareRecordIds
  <1>7. closing' \in [CareMonths -> {"open", "closed", "changed"}] /\ missed' \subseteq CareMonths
    BY <1>0, CloseTypes DEF Care!DeleteChild
  <1>8. mirror' = mirror /\ party' = party /\ pending' = pending
    BY DEF Care!DeleteChild
  <1>9. RecordsKept
    BY <1>0, <1>2, <1>3, <1>4, <1>6, <1>7, <1>8
    DEF RecordsKept, LookedUpExists, Care!TypeOK, Care!Patterns, CareRecordIds
  <1>. QED  BY <1>0, <1>1, <1>8, <1>9, HandlersKeep DEF Care!TypeOK

\* A record goes with its links, a pattern with its rule.
LEMMA DeleteRecordKeeps ==
  ASSUME CareInv, NEW q \in CareRequests, Care!DeleteRecord(q)
  PROVE  CareInv'
  <1>0. Care!TypeOK /\ LookedUpExists
    BY DEF CareInv
  <1>n. Nothing \notin Care!Row /\ Nothing \notin Care!Mirror
    BY CareConstants
  <1>. DEFINE r == pending[q].record
  <1>1. pending[q] \in Care!Lookup /\ pending[q].op = "delete" /\ pending[q] # Nothing
    BY <1>0 DEF Care!DeleteRecord, Care!TypeOK
  <1>2. r \in CareRecordIds /\ pending[q].month \in CareMonths /\ record[r] # Nothing
    BY <1>0, <1>1, LookupFields DEF LookedUpExists
  <1>3. record[r] \in Care!Row
    BY <1>0, <1>2 DEF Care!TypeOK, CareRecordIds
  <1>4. /\ record' = [record EXCEPT ![r] = [record[r] EXCEPT !.live = FALSE, !.kids = {}, !.actual = {}]]
        /\ IF CareKind[r] = "pattern"
             THEN mirror' = [mirror EXCEPT ![r] = [mirror[r] EXCEPT !.live = FALSE, !.kids = {}]]
                  /\ UNCHANGED <<closing, missed>>
             ELSE Care!Close({pending[q].month}, {record[r].month}) /\ mirror' = mirror
        /\ pending' = [pending EXCEPT ![q] = Nothing]
        /\ child' = child /\ party' = party
    BY <1>0, <1>2 DEF Care!DeleteRecord, Care!TypeOK, Care!Patterns, CareRecordIds
  <1>. HIDE DEF r
  <1>5. /\ [record[r] EXCEPT !.live = FALSE, !.kids = {}, !.actual = {}] \in Care!Row
        /\ ~[record[r] EXCEPT !.live = FALSE, !.kids = {}, !.actual = {}].live
        /\ [record[r] EXCEPT !.live = FALSE, !.kids = {}, !.actual = {}].kids = {}
    BY <1>3 DEF Care!Row
  <1>6. /\ record' \in [CareRecordIds -> Care!Row \cup {Nothing}]
        /\ record'[r] \in Care!Row /\ ~record'[r].live /\ record'[r].kids = {}
        /\ \A x \in CareRecordIds : x # r => record'[x] = record[x]
    BY <1>0, <1>2, <1>4, <1>5 DEF Care!TypeOK, CareRecordIds
  <1>7. Care!RecordsHaveLiveChildren' /\ KidsAreLinked'
    <2>1. Care!ChildrenExist({}) /\ {} \in SUBSET Children
      BY DEF Care!ChildrenExist
    <2>. QED  BY <1>n, <1>4, <1>6, <2>1, WritesKeep
  <1>8. /\ mirror' \in [Care!Patterns -> Care!Mirror \cup {Nothing}]
        /\ \A x \in Care!Patterns : mirror[x] # Nothing => mirror'[x] # Nothing
    <2>1. CASE CareKind[r] = "pattern"
      <3>1. r \in Care!Patterns /\ mirror[r] \in Care!Mirror
        BY <1>0, <1>2, <2>1 DEF LookedUpExists, Care!Patterns, CareRecordIds, Care!TypeOK
      <3>2. [mirror[r] EXCEPT !.live = FALSE, !.kids = {}] \in Care!Mirror
        BY <3>1 DEF Care!Mirror
      <3>. QED  BY <1>0, <1>n, <1>4, <2>1, <3>2 DEF Care!TypeOK
    <2>2. CASE CareKind[r] # "pattern"
      BY <1>0, <1>4, <2>2 DEF Care!TypeOK
    <2>. QED  BY <2>1, <2>2
  <1>9. closing' \in [CareMonths -> {"open", "closed", "changed"}] /\ missed' \subseteq CareMonths
    <2>1. CASE CareKind[r] = "pattern"
      BY <1>0, <1>4, <2>1 DEF Care!TypeOK
    <2>2. CASE CareKind[r] # "pattern"
      <3>1. {record[r].month} \subseteq CareMonths
        BY <1>3 DEF Care!Row
      <3>. QED  BY <1>0, <1>4, <2>2, <3>1, CloseTypes
    <2>. QED  BY <2>1, <2>2
  <1>10. RecordsKept
    BY <1>0, <1>2, <1>n, <1>6, <1>7, <1>8, <1>9
    DEF RecordsKept, LookedUpExists, Care!Patterns, CareRecordIds
  <1>. QED  BY <1>0, <1>4, <1>10, HandlersKeep DEF Care!TypeOK

\* The entries of a rule follow it.
LEMMA SyncRuleKeeps ==
  ASSUME CareInv, NEW r \in Care!Patterns, Care!SyncRule(r)
  PROVE  CareInv'
  <1>0. Care!TypeOK /\ LookedUpExists /\ Nothing \notin Care!Row
    BY CareConstants DEF CareInv
  <1>1. mirror[r] \in Care!Mirror
    BY <1>0 DEF Care!SyncRule, Care!TypeOK
  <1>2. PICK kids \in SUBSET Children, p \in CareParties \cup {Nothing}, m \in CareMonths :
          kids = mirror[r].kids /\ p = mirror[r].party /\ m = mirror[r].month
    BY <1>1 DEF Care!Mirror
  <1>3. /\ kids # {} /\ Care!ChildrenExist(kids)
        /\ record' = Care!Synced(r, kids, p, m)
        /\ Care!Close({}, Care!SyncTouches(r, m))
        /\ UNCHANGED <<child, party, mirror, pending>>
    BY <1>2 DEF Care!SyncRule
  <1>4. ASSUME NEW x \in CareRecordIds
        PROVE  /\ \/ record'[x] = record[x]
                  \/ StoresRow(x, kids) /\ CareKind[x] = "entry"
               /\ record'[x] \in Care!Row \cup {Nothing}
    BY <1>3, SyncedRows
  <1>5. record' \in [CareRecordIds -> Care!Row \cup {Nothing}]
    BY <1>3, <1>4 DEF Care!Synced, CareRecordIds
  <1>6. Care!RecordsHaveLiveChildren' /\ KidsAreLinked'
    BY <1>3, <1>4, <1>5, WritesKeep
  <1>7. closing' \in [CareMonths -> {"open", "closed", "changed"}] /\ missed' \subseteq CareMonths
    BY <1>0, <1>3, SyncTouchesMonths, CloseTypes
  <1>8. \A x \in CareRecordIds : record[x] # Nothing => record'[x] # Nothing
    BY <1>0, <1>4 DEF StoresRow
  <1>9. \A x \in Care!Patterns : record'[x] # Nothing => mirror'[x] # Nothing
    BY <1>0, <1>3, <1>4 DEF LookedUpExists, Care!Patterns, CareRecordIds
  <1>10. RecordsKept
    BY <1>0, <1>3, <1>5, <1>6, <1>7, <1>8, <1>9 DEF RecordsKept, Care!TypeOK
  <1>. QED  BY <1>0, <1>3, <1>10, HandlersKeep DEF Care!TypeOK

\* A handler looks its record up.
LEMMA LookUpKeeps ==
  ASSUME CareInv, NEW q \in CareRequests, NEW r \in CareRecordIds, NEW op \in {"update", "delete"},
         Care!LookUp(q, r, op)
  PROVE  CareInv'
  <1>0. Care!TypeOK /\ LookedUpExists
    BY DEF CareInv
  <1>. DEFINE seen == [op |-> op, record |-> r, party |-> record[r].party, month |-> record[r].month]
  <1>1. record[r] # Nothing /\ record[r] \in Care!Row
    BY <1>0 DEF Care!LookUp, Care!Live, Care!TypeOK, CareRecordIds
  <1>2. seen \in Care!Lookup /\ seen.record = r
    BY <1>1 DEF Care!Row, Care!Lookup, CareRecordIds
  <1>3. pending' = [pending EXCEPT ![q] = seen]
        /\ UNCHANGED <<child, party, record, mirror, closing, missed>>
    BY DEF Care!LookUp
  <1>. HIDE DEF seen
  <1>4. Care!TypeOK'
    BY <1>0, <1>2, <1>3 DEF Care!TypeOK, Care!Patterns
  <1>5. LookedUpExists'
    BY <1>0, <1>1, <1>2, <1>3 DEF LookedUpExists, Care!TypeOK, Care!Patterns
  <1>. QED
    BY <1>3, <1>4, <1>5
    DEF CareInv, Care!RecordsHaveLiveChildren, Care!Live, Care!LiveChildren, KidsAreLinked

\* No handler disturbs the invariant.
LEMMA CareInvStep == CareInv /\ [Care!Next]_(Care!vars) => CareInv'
  <1>. SUFFICES ASSUME CareInv, [Care!Next]_(Care!vars)
                PROVE  CareInv'
    OBVIOUS
  <1>0. Care!TypeOK
    BY DEF CareInv
  <1>1. ASSUME NEW c \in Children, Care!CreateChild(c)
        PROVE  CareInv'
    <2>1. Care!LiveChildren \subseteq Care!LiveChildren'
      BY <1>0, <1>1 DEF Care!CreateChild, Care!LiveChildren, Care!TypeOK
    <2>. QED  BY <1>0, <1>1, <2>1, OthersKeep DEF Care!CreateChild, Care!TypeOK
  <1>2. ASSUME NEW c \in Children, Care!DeleteChild(c)
        PROVE  CareInv'
    BY <1>2, DeleteChildKeeps
  <1>3. ASSUME NEW q \in CareRequests, NEW p \in CareParties, Care!CountPartyUsage(q, p)
        PROVE  CareInv'
    <2>1. [op |-> "deleteParty", party |-> p] \in Care!Lookup
      BY DEF Care!Lookup
    <2>2. Care!TypeOK'
      BY <1>0, <1>3, <2>1 DEF Care!CountPartyUsage, Care!TypeOK, Care!Patterns
    <2>3. LookedUpExists'
      BY <1>0, <1>3 DEF CareInv, LookedUpExists, Care!CountPartyUsage, Care!TypeOK, Care!Patterns
    <2>. QED
      BY <1>3, <2>2, <2>3
      DEF CareInv, Care!CountPartyUsage, Care!RecordsHaveLiveChildren, Care!Live,
          Care!LiveChildren, KidsAreLinked
  <1>4. ASSUME NEW q \in CareRequests, NEW r \in CareRecordIds, NEW op \in {"update", "delete"},
               Care!LookUp(q, r, op)
        PROVE  CareInv'
    BY <1>4, LookUpKeeps
  <1>5. ASSUME NEW q \in CareRequests,
               NEW kids \in SUBSET Children, NEW actual \in SUBSET Children,
               NEW p \in CareParties \cup {Nothing}, NEW m \in CareMonths,
               Care!UpdateRecord(q, kids, actual, p, m)
        PROVE  CareInv'
    <2>1. pending[q] \in Care!Lookup /\ pending[q].op = "update"
      BY <1>0, <1>5 DEF Care!UpdateRecord, Care!TypeOK
    <2>2. PICK r \in CareRecordIds, from \in CareMonths :
            r = pending[q].record /\ from = pending[q].month
      BY <2>1, LookupFields
    <2>3. Care!Write(r, kids, actual, p, m, from) /\ UNCHANGED <<child, party>>
      BY <1>5, <2>2 DEF Care!UpdateRecord, Care!Write
    <2>. QED  BY <1>0, <1>5, <2>3, WriteKeeps, HandlersKeep DEF Care!UpdateRecord, Care!TypeOK
  <1>6. ASSUME NEW q \in CareRequests, Care!DeleteParty(q)
        PROVE  CareInv'
    <2>1. pending[q].party \in CareParties
      BY <1>0, <1>6, LookupFields DEF Care!DeleteParty, Care!TypeOK
    <2>2. closing' \in [CareMonths -> {"open", "closed", "changed"}] /\ missed' \subseteq CareMonths
      BY <1>0, <1>6, CloseTypes DEF Care!DeleteParty
    <2>. QED
      BY <1>0, <1>6, <2>1, <2>2, OthersKeep DEF Care!DeleteParty, Care!TypeOK, Care!LiveChildren
  <1>7. ASSUME NEW q \in CareRequests, Care!DeleteRecord(q)
        PROVE  CareInv'
    BY <1>7, DeleteRecordKeeps
  <1>8. ASSUME NEW q \in CareRequests, Care!Refuse(q)
        PROVE  CareInv'
    BY <1>0, <1>8, OthersKeep DEF Care!Refuse, Care!TypeOK, Care!LiveChildren
  <1>9. ASSUME NEW r \in CareRecordIds,
               NEW kids \in SUBSET Children, NEW actual \in SUBSET Children,
               NEW p \in CareParties \cup {Nothing}, NEW m \in CareMonths,
               Care!CreateRecord(r, kids, actual, p, m)
        PROVE  CareInv'
    <2>1. Care!Write(r, kids, actual, p, m, m) /\ UNCHANGED <<child, party, pending>>
      BY <1>9 DEF Care!CreateRecord, Care!Write
    <2>. QED  BY <1>0, <2>1, WriteKeeps, HandlersKeep DEF Care!TypeOK
  <1>10. ASSUME NEW r \in Care!Patterns, Care!SyncRule(r)
         PROVE  CareInv'
    BY <1>10, SyncRuleKeeps
  <1>11. ASSUME NEW m \in CareMonths, Care!CloseMonth(m)
         PROVE  CareInv'
    BY <1>0, <1>11, OthersKeep DEF Care!CloseMonth, Care!TypeOK, Care!LiveChildren
  <1>12. CASE UNCHANGED Care!vars
    BY <1>0, <1>12, OthersKeep DEF Care!vars, Care!TypeOK, Care!LiveChildren
  <1>. QED
    BY <1>1, <1>2, <1>3, <1>4, <1>5, <1>6, <1>7, <1>8, <1>9, <1>10, <1>11, <1>12
    DEF Care!Next, CareRecordIds

\* It holds in every installation.
LEMMA CareInvHolds == Spec => []CareInv
  BY CareInvInit, CareInvStep, CareIsPart, PTL DEF Care!Spec

\* No record is left with a deleted child among those it was planned for, and
\* none but a period without any, whatever handlers looked up before the child
\* was deleted
\* (softDeletePersistedChildRelations, assertPersistedChildren).
THEOREM RecordsOfLiveChildren == Spec => []RecordsHaveLiveChildren
  <1>1. CareInv => RecordsHaveLiveChildren
    BY DEF CareInv, RecordsHaveLiveChildren
  <1>. QED  BY <1>1, CareInvHolds, PTL

-----------------------------------------------------------------------------
(* Privacy actions.                                                        *)

PrivacyRecordIds == DOMAIN PrivacyKind

\* Others make a bounded number of changes, and the absent value is no row.
LEMMA PrivacyConstants ==
  /\ PrivacyWrites \in Nat
  /\ Nothing \notin Privacy!Row /\ Nothing \notin Privacy!Previewed
  /\ \A x \in Privacy!Relations, p \in CareParties : <<x, p>> \notin PrivacyRecordIds
  BY ServerAssumption
  DEF ServerAssumption, Privacy!BoundAssumption, Privacy!NothingAssumption, PrivacyRecordIds

\* A preview of a child that is still current lists every record the child
\* has a part in, and what is attached to a user has its rows.
CurrentListsAll ==
  /\ review # Nothing /\ review.current /\ review.subject \in Children \ PrivacyUsers =>
       Privacy!RecordsOf(review.subject) \subseteq review.shown
  /\ \A u \in PrivacyUsers : user[u].live \subseteq user[u].rows

PrivacyInv == Privacy!TypeOK /\ Privacy!OnlyShownRecordsErased /\ CurrentListsAll

\* It holds before anything was previewed.
LEMMA PrivacyInvInit == Privacy!Init => PrivacyInv
  <1>. SUFFICES ASSUME Privacy!Init PROVE PrivacyInv
    OBVIOUS
  <1>1. Privacy!TypeOK
    <2>1. [identity |-> "own", live |-> {}, rows |-> {}] \in Privacy!UserRow
      BY DEF Privacy!UserRow
    <2>2. 0 \in 0..PrivacyWrites
      BY PrivacyConstants
    <2>. QED  BY <2>1, <2>2 DEF Privacy!Init, Privacy!TypeOK
  <1>2. Privacy!OnlyShownRecordsErased /\ CurrentListsAll
    BY DEF Privacy!Init, Privacy!OnlyShownRecordsErased, CurrentListsAll
  <1>. QED  BY <1>1, <1>2 DEF PrivacyInv

\* Outdated or not, the preview is the same otherwise.
LEMMA OutdatedPreview ==
  ASSUME Privacy!TypeOK, NEW subjects, review' = Privacy!Outdated(subjects)
  PROVE  /\ review' \in Privacy!Previewed \cup {Nothing}
         /\ review' # Nothing /\ review'.current =>
              /\ review # Nothing /\ review = review' /\ review.subject \notin subjects
  <1>1. CASE review # Nothing /\ review.subject \in subjects
    <2>1. review \in Privacy!Previewed /\ review' = [review EXCEPT !.current = FALSE]
      BY <1>1 DEF Privacy!TypeOK, Privacy!Outdated
    <2>2. review' \in Privacy!Previewed /\ ~review'.current
      BY <2>1 DEF Privacy!Previewed
    <2>. QED  BY <2>2
  <1>2. CASE ~(review # Nothing /\ review.subject \in subjects)
    BY <1>2 DEF Privacy!TypeOK, Privacy!Outdated
  <1>. QED  BY <1>1, <1>2

\* A record is saved: previews of the children it is now about are outdated.
LEMMA SaveKeeps ==
  ASSUME PrivacyInv, NEW r \in PrivacyRecordIds, NEW kids \in SUBSET Children,
         NEW actual \in SUBSET Children, NEW text \in BOOLEAN, Privacy!Save(r, kids, actual, text)
  PROVE  PrivacyInv'
  <1>0. Privacy!TypeOK /\ Nothing \notin Privacy!Row /\ PrivacyWrites \in Nat
    BY PrivacyConstants DEF PrivacyInv
  <1>. DEFINE past == IF row[r] = Nothing THEN {} ELSE Privacy!LinkedTo(row[r]) \ (kids \cup actual)
              new == [kids |-> kids, actual |-> actual, text |-> text, past |-> past]
  <1>1. past \in SUBSET Children
    BY <1>0 DEF Privacy!TypeOK, Privacy!Row, Privacy!LinkedTo, PrivacyRecordIds
  <1>2. row' = [row EXCEPT ![r] = new] /\ review' = Privacy!Outdated(Privacy!LinkedTo(row'[r]))
    BY DEF Privacy!Save
  <1>. HIDE DEF past
  <1>3. new \in Privacy!Row
    BY <1>1 DEF Privacy!Row
  <1>. HIDE DEF new
  <1>4. row' \in [PrivacyRecordIds -> Privacy!Row \cup {Nothing}]
        /\ \A x \in PrivacyRecordIds : x # r => row'[x] = row[x]
    BY <1>0, <1>2, <1>3 DEF Privacy!TypeOK, PrivacyRecordIds
  <1>5. Privacy!TypeOK'
    <2>1. review' \in Privacy!Previewed \cup {Nothing}
      BY <1>0, <1>2, OutdatedPreview
    <2>2. UNCHANGED <<profile, user, relation, stale>> /\ privacyWrites' \in 0..PrivacyWrites
      BY <1>0 DEF Privacy!Save, Privacy!TypeOK
    <2>. QED  BY <1>0, <1>4, <2>1, <2>2 DEF Privacy!TypeOK, PrivacyRecordIds
  <1>6. ASSUME review' # Nothing, review'.current, review'.subject \in Children \ PrivacyUsers
        PROVE  Privacy!RecordsOf(review.subject)' \subseteq review'.shown
    <2>1. review # Nothing /\ review' = review /\ review.subject \notin Privacy!LinkedTo(row'[r])
      BY <1>0, <1>2, <1>6, OutdatedPreview
    <2>2. \A x \in PrivacyRecordIds :
            row'[x] # Nothing /\ review.subject \in Privacy!LinkedTo(row'[x])
              => row[x] # Nothing /\ review.subject \in Privacy!LinkedTo(row[x])
      BY <1>4, <2>1
    <2>. QED
      BY <1>6, <2>1, <2>2 DEF PrivacyInv, CurrentListsAll, Privacy!RecordsOf, PrivacyRecordIds
  <1>7. unshown' = unshown /\ user' = user
    BY DEF Privacy!Save
  <1>. QED
    BY <1>5, <1>6, <1>7 DEF PrivacyInv, CurrentListsAll, Privacy!OnlyShownRecordsErased

\* Something is attached to a user, or to a care party.
LEMMA AttachKeeps ==
  ASSUME PrivacyInv,
         \/ \E u \in PrivacyUsers, x \in Privacy!Attached \cup {"history"} : Privacy!Attach(u, x)
         \/ \E p \in CareParties, x \in Privacy!Relations : Privacy!Assign(p, x)
  PROVE  PrivacyInv'
  <1>0. Privacy!TypeOK /\ PrivacyWrites \in Nat
    BY PrivacyConstants DEF PrivacyInv
  <1>k. ASSUME UNCHANGED <<row, unshown>>, Privacy!TypeOK', NEW subjects,
               review' = review \/ review' = Privacy!Outdated(subjects),
               \A u \in PrivacyUsers : user'[u].live \subseteq user'[u].rows
        PROVE  PrivacyInv'
    <2>1. review' # Nothing /\ review'.current => review' = review
      BY <1>0, <1>k, OutdatedPreview
    <2>2. \A c : Privacy!RecordsOf(c)' = Privacy!RecordsOf(c)
      BY <1>k DEF Privacy!RecordsOf
    <2>. QED
      BY <1>k, <2>1, <2>2 DEF PrivacyInv, CurrentListsAll, Privacy!OnlyShownRecordsErased
  <1>1. ASSUME NEW u \in PrivacyUsers, NEW x \in Privacy!Attached \cup {"history"},
               Privacy!Attach(u, x)
        PROVE  PrivacyInv'
    <2>. DEFINE live == user[u].live \cup (IF x = "history" THEN {} ELSE {x})
                rows1 == user[u].rows \cup {x}
    <2>1. /\ user[u] \in Privacy!UserRow
          /\ user' = [user EXCEPT ![u] = [user[u] EXCEPT !.live = live, !.rows = rows1]]
          /\ review' = Privacy!Outdated({u})
      BY <1>0, <1>1 DEF Privacy!Attach, Privacy!TypeOK, Privacy!UserRow
    <2>2. /\ live \in SUBSET Privacy!Attached /\ rows1 \in SUBSET (Privacy!Attached \cup {"history"})
          /\ live \subseteq rows1
      BY <2>1 DEF Privacy!UserRow, PrivacyInv, CurrentListsAll
    <2>. HIDE DEF live, rows1
    <2>3. [user[u] EXCEPT !.live = live, !.rows = rows1] \in Privacy!UserRow
          /\ [user[u] EXCEPT !.live = live, !.rows = rows1].live = live
          /\ [user[u] EXCEPT !.live = live, !.rows = rows1].rows = rows1
      BY <2>1, <2>2 DEF Privacy!UserRow
    <2>4. user' \in [PrivacyUsers -> Privacy!UserRow]
          /\ \A v \in PrivacyUsers : user'[v].live \subseteq user'[v].rows
      BY <1>0, <2>1, <2>2, <2>3 DEF Privacy!TypeOK, PrivacyInv, CurrentListsAll
    <2>5. Privacy!TypeOK'
      <3>1. review' \in Privacy!Previewed \cup {Nothing}
        BY <1>0, <2>1, OutdatedPreview
      <3>. QED  BY <1>0, <1>1, <2>4, <3>1 DEF Privacy!Attach, Privacy!TypeOK
    <2>. QED  BY <1>1, <1>k, <2>1, <2>4, <2>5 DEF Privacy!Attach
  <1>2. ASSUME NEW p \in CareParties, NEW x \in Privacy!Relations, Privacy!Assign(p, x)
        PROVE  PrivacyInv'
    <2>1. review' = review \/ review' = Privacy!Outdated({p})
      BY <1>2 DEF Privacy!Assign
    <2>2. review' \in Privacy!Previewed \cup {Nothing}
      BY <1>0, <2>1, OutdatedPreview DEF Privacy!TypeOK
    <2>3. Privacy!TypeOK'
      BY <1>0, <1>2, <2>2 DEF Privacy!Assign, Privacy!TypeOK
    <2>. QED  BY <1>2, <1>k, <2>1, <2>3 DEF Privacy!Assign, PrivacyInv, CurrentListsAll
  <1>. QED  BY <1>1, <1>2

\* The owner sees what there is.
LEMMA PreviewKeeps ==
  ASSUME PrivacyInv, NEW s \in Privacy!Subjects, NEW a \in Privacy!Actions(s), Privacy!Preview(s, a)
  PROVE  PrivacyInv'
  <1>0. Privacy!TypeOK
    BY DEF PrivacyInv
  <1>. DEFINE shown == Privacy!Shown(s)
              new == [subject |-> s, actions |-> a, current |-> TRUE, shown |-> shown]
  <1>1. shown \subseteq Privacy!Listed
    BY <1>0
    DEF Privacy!Shown, Privacy!TypeOK, Privacy!UserRow, Privacy!RecordsOf, Privacy!Listed,
        Privacy!Subjects, PrivacyRecordIds
  <1>2. s \in Children \ PrivacyUsers => shown = Privacy!RecordsOf(s)
    BY DEF Privacy!Shown
  <1>3. review' = new /\ UNCHANGED <<row, profile, user, relation, stale, unshown, privacyWrites>>
    BY DEF Privacy!Preview
  <1>. HIDE DEF shown
  <1>4. new \in Privacy!Previewed /\ new.subject = s /\ new.shown = shown
    BY <1>1 DEF Privacy!Previewed, Privacy!Actions
  <1>. HIDE DEF new
  <1>5. Privacy!TypeOK'
    BY <1>0, <1>3, <1>4 DEF Privacy!TypeOK
  <1>6. Privacy!RecordsOf(s)' = Privacy!RecordsOf(s)
    BY <1>3 DEF Privacy!RecordsOf
  <1>. QED
    BY <1>2, <1>3, <1>4, <1>5, <1>6 DEF PrivacyInv, CurrentListsAll, Privacy!OnlyShownRecordsErased

\* What is left of the row of a user.
LEMMA UserLeft ==
  ASSUME Privacy!TypeOK, NEW u \in PrivacyUsers, NEW a, Privacy!ActOnUser(u, a)
  PROVE  /\ user' \in [PrivacyUsers -> Privacy!UserRow]
         /\ \A v \in PrivacyUsers : v # u => user'[v] = user[v]
         /\ user'[u].live = user[u].live \ a
         /\ user'[u].rows = user[u].rows \ (a \cap {"transfer"})
         /\ user'[u].identity = (IF "identity" \in a THEN "detached" ELSE user[u].identity)
  <1>. DEFINE live == user[u].live \ a
              rows1 == user[u].rows \ (a \cap {"transfer"})
              identity == IF "identity" \in a THEN "detached" ELSE user[u].identity
              new == [user[u] EXCEPT !.live = live, !.rows = rows1, !.identity = identity]
  <1>1. user[u] \in Privacy!UserRow
    BY DEF Privacy!TypeOK
  <1>2. user' = [user EXCEPT ![u] = new]
    BY <1>1 DEF Privacy!ActOnUser, Privacy!TypeOK, Privacy!UserRow
  <1>3. /\ live \in SUBSET Privacy!Attached
        /\ rows1 \in SUBSET (Privacy!Attached \cup {"history"})
        /\ identity \in {"own", "detached"}
    BY <1>1 DEF Privacy!UserRow
  <1>. HIDE DEF live, rows1, identity
  <1>4. new \in Privacy!UserRow /\ new.live = live /\ new.rows = rows1 /\ new.identity = identity
    BY <1>1, <1>3 DEF Privacy!UserRow
  <1>. HIDE DEF new
  <1>. QED  BY <1>2, <1>4 DEF Privacy!TypeOK, live, rows1, identity

\* What is left of the records of a child: all but its own ones.
LEMMA RecordsLeft ==
  ASSUME Privacy!TypeOK, NEW c \in Children, NEW a, Privacy!ActOnChild(c, a)
  PROVE  /\ row' \in [PrivacyRecordIds -> Privacy!Row \cup {Nothing}]
         /\ \A r \in PrivacyRecordIds :
              row[r] # Nothing /\ row'[r] = Nothing => r \in Privacy!Exclusive(c)
  <1>. DEFINE bare(r) == [row[r] EXCEPT !.kids = row[r].kids \ {c}, !.past = row[r].past \ {c},
                                        !.actual = row[r].actual \ {c}]
  <1>1. ASSUME NEW r \in PrivacyRecordIds, row[r] # Nothing
        PROVE  bare(r) \in Privacy!Row
    BY <1>1 DEF Privacy!TypeOK, Privacy!Row, PrivacyRecordIds
  <1>2. CASE a \cap {"records", "relationships", "delete"} # {}
    <2>1. row' = Privacy!WithoutChild(c, a)
      BY <1>2 DEF Privacy!ActOnChild
    <2>2. ASSUME NEW r \in PrivacyRecordIds
          PROVE  \/ row'[r] = Nothing /\ (row[r] = Nothing \/ r \in Privacy!Exclusive(c))
                 \/ row[r] # Nothing /\ row'[r] = bare(r)
      BY <2>1 DEF Privacy!WithoutChild, PrivacyRecordIds, Privacy!TypeOK, Privacy!Row
    <2>. HIDE DEF bare
    <2>3. \A r \in PrivacyRecordIds :
            /\ row'[r] \in Privacy!Row \cup {Nothing}
            /\ row[r] # Nothing /\ row'[r] = Nothing => r \in Privacy!Exclusive(c)
      BY <1>1, <2>2, PrivacyConstants
    <2>. QED  BY <2>1, <2>3 DEF Privacy!WithoutChild, PrivacyRecordIds
  <1>3. CASE a \cap {"records", "relationships", "delete"} = {}
    BY <1>3 DEF Privacy!ActOnChild, Privacy!TypeOK, PrivacyRecordIds
  <1>. QED  BY <1>2, <1>3

\* A profile is deleted or made anonymous.
LEMMA ProfileTypes ==
  ASSUME Privacy!TypeOK, NEW s \in Children \cup CareParties, NEW a, Privacy!ActOnProfile(s, a)
  PROVE  profile' \in [Children \cup CareParties -> {"live", "anonymous", "gone"}] /\ stale' \in BOOLEAN
  <1>1. profile' \in [Children \cup CareParties -> {"live", "anonymous", "gone"}]
    BY DEF Privacy!ActOnProfile, Privacy!TypeOK
  <1>2. stale' \in BOOLEAN
    <2>1. stale' = (stale \/ a \cap {"records", "relationships", "delete"} # {})
      BY DEF Privacy!ActOnProfile
    <2>. QED  BY <2>1
  <1>. QED  BY <1>1, <1>2

\* The confirmed actions delete no record that was not shown.
LEMMA ExecuteKeeps ==
  ASSUME PrivacyInv, Privacy!Execute
  PROVE  PrivacyInv'
  <1>0. Privacy!TypeOK /\ Privacy!OnlyShownRecordsErased
    BY DEF PrivacyInv
  <1>1. /\ review \in Privacy!Previewed /\ review # Nothing /\ review.current
        /\ review' = Privacy!Outdated({review.subject}) /\ privacyWrites' = privacyWrites
    BY <1>0 DEF Privacy!Execute, Privacy!TypeOK, Privacy!Current
  <1>2. review' \in Privacy!Previewed \cup {Nothing} /\ ~(review' # Nothing /\ review'.current)
    BY <1>0, <1>1, OutdatedPreview
  <1>3. PICK s \in Privacy!Subjects : s = review.subject
    BY <1>1 DEF Privacy!Previewed
  <1>k. ASSUME row' \in [PrivacyRecordIds -> Privacy!Row \cup {Nothing}],
               profile' \in [Children \cup CareParties -> {"live", "anonymous", "gone"}],
               relation' \in [CareParties -> SUBSET Privacy!Relations], stale' \in BOOLEAN,
               user' \in [PrivacyUsers -> Privacy!UserRow],
               \A u \in PrivacyUsers : user'[u].live \subseteq user'[u].rows,
               unshown' \cap PrivacyRecordIds = {}
        PROVE  PrivacyInv'
    BY <1>0, <1>1, <1>2, <1>k
    DEF PrivacyInv, CurrentListsAll, Privacy!TypeOK, Privacy!OnlyShownRecordsErased,
        PrivacyRecordIds
  <1>4. CASE s \in PrivacyUsers
    <2>1. Privacy!ActOnUser(s, review.actions)
      BY <1>3, <1>4 DEF Privacy!Execute
    <2>2. /\ user' \in [PrivacyUsers -> Privacy!UserRow]
          /\ \A u \in PrivacyUsers : user'[u].live \subseteq user'[u].rows
      <3>1. user[s] \in Privacy!UserRow /\ user[s].live \subseteq user[s].rows
        BY <1>0, <1>4 DEF Privacy!TypeOK, PrivacyInv, CurrentListsAll
      <3>2. user'[s].live \subseteq user'[s].rows
        BY <1>0, <1>4, <2>1, <3>1, UserLeft
      <3>. QED  BY <1>0, <1>4, <2>1, <3>2, UserLeft DEF PrivacyInv, CurrentListsAll
    <2>3. row' = row /\ profile' = profile /\ relation' = relation /\ stale' = stale /\ unshown' = unshown
      BY <2>1 DEF Privacy!ActOnUser
    <2>. QED
      BY <1>0, <1>k, <2>2, <2>3 DEF Privacy!TypeOK, Privacy!OnlyShownRecordsErased, PrivacyRecordIds
  <1>5. CASE s \notin PrivacyUsers /\ s \in Children
    <2>1. Privacy!ActOnChild(s, review.actions)
      BY <1>3, <1>5 DEF Privacy!Execute
    <2>2. /\ Privacy!ActOnProfile(s, review.actions) /\ relation' = relation /\ user' = user
          /\ unshown' = unshown \cup
               {r \in PrivacyRecordIds : row[r] # Nothing /\ row'[r] = Nothing
                  /\ (r \notin review.shown \/ ~(row[r].kids \cup row[r].actual \subseteq {s}))}
      BY <2>1 DEF Privacy!ActOnChild, PrivacyRecordIds
    <2>3. ASSUME NEW r \in PrivacyRecordIds, row[r] # Nothing, row'[r] = Nothing
          PROVE  r \in review.shown /\ row[r].kids \cup row[r].actual \subseteq {s}
      <3>1. r \in Privacy!Exclusive(s)
        BY <1>0, <1>5, <2>1, <2>3, RecordsLeft
      <3>2. r \in Privacy!RecordsOf(s) /\ Privacy!LinkedTo(row[r]) \subseteq {s}
        BY <3>1 DEF Privacy!Exclusive
      <3>3. r \in review.shown
        BY <1>1, <1>3, <1>5, <3>2 DEF PrivacyInv, CurrentListsAll
      <3>. QED  BY <3>2, <3>3 DEF Privacy!LinkedTo
    <2>4. unshown' \cap PrivacyRecordIds = {}
      BY <1>0, <2>2, <2>3 DEF Privacy!OnlyShownRecordsErased, PrivacyRecordIds
    <2>5. row' \in [PrivacyRecordIds -> Privacy!Row \cup {Nothing}]
      BY <1>0, <1>5, <2>1, RecordsLeft
    <2>6. profile' \in [Children \cup CareParties -> {"live", "anonymous", "gone"}] /\ stale' \in BOOLEAN
      BY <1>0, <1>5, <2>2, ProfileTypes
    <2>. QED
      BY <1>0, <1>k, <2>2, <2>4, <2>5, <2>6 DEF Privacy!TypeOK, PrivacyInv, CurrentListsAll
  <1>6. CASE s \notin PrivacyUsers /\ s \notin Children
    <2>1. Privacy!ActOnParty(s, review.actions) /\ s \in CareParties
      BY <1>3, <1>6 DEF Privacy!Execute, Privacy!Subjects
    <2>2. /\ row' = row /\ user' = user /\ Privacy!ActOnProfile(s, review.actions)
          /\ unshown' \subseteq unshown \cup ((relation[s] \ review.shown) \X {s})
          /\ relation' \in [CareParties -> SUBSET Privacy!Relations]
      BY <1>0, <2>1 DEF Privacy!ActOnParty, Privacy!TypeOK
    <2>3. ((relation[s] \ review.shown) \X {s}) \cap PrivacyRecordIds = {}
      <3>1. relation[s] \subseteq Privacy!Relations
        BY <1>0, <2>1 DEF Privacy!TypeOK
      <3>. QED  BY <2>1, <3>1, PrivacyConstants
    <2>4. unshown' \cap PrivacyRecordIds = {}
      BY <1>0, <2>2, <2>3 DEF Privacy!OnlyShownRecordsErased, PrivacyRecordIds
    <2>5. profile' \in [Children \cup CareParties -> {"live", "anonymous", "gone"}] /\ stale' \in BOOLEAN
      BY <1>0, <2>1, <2>2, ProfileTypes
    <2>. QED
      BY <1>0, <1>k, <2>2, <2>4, <2>5
      DEF Privacy!TypeOK, PrivacyInv, CurrentListsAll, PrivacyRecordIds
  <1>. QED  BY <1>4, <1>5, <1>6

\* No step disturbs the invariant.
LEMMA PrivacyInvStep == PrivacyInv /\ [Privacy!Next]_(Privacy!vars) => PrivacyInv'
  <1>. SUFFICES ASSUME PrivacyInv, [Privacy!Next]_(Privacy!vars)
                PROVE  PrivacyInv'
    OBVIOUS
  <1>0. Privacy!TypeOK
    BY DEF PrivacyInv
  <1>1. CASE Privacy!Close
    <2>1. Privacy!TypeOK'
      BY <1>0, <1>1 DEF Privacy!Close, Privacy!TypeOK
    <2>. QED
      BY <1>1, <2>1
      DEF Privacy!Close, PrivacyInv, CurrentListsAll, Privacy!OnlyShownRecordsErased
  <1>2. CASE UNCHANGED Privacy!vars
    <2>1. Privacy!TypeOK'
      BY <1>0, <1>2 DEF Privacy!vars, Privacy!TypeOK
    <2>. QED
      BY <1>2, <2>1
      DEF Privacy!vars, PrivacyInv, CurrentListsAll, Privacy!OnlyShownRecordsErased,
          Privacy!RecordsOf
  <1>. QED
    BY <1>1, <1>2, SaveKeeps, AttachKeeps, PreviewKeeps, ExecuteKeeps
    DEF Privacy!Next, PrivacyRecordIds

\* It holds in every installation.
LEMMA PrivacyInvHolds == Spec => []PrivacyInv
  BY PrivacyInvInit, PrivacyInvStep, PrivacyIsPart, PTL DEF Privacy!Spec

\* Detaching an identity requires all that is attached to it to go.
LEMMA DetachingLeavesNothing ==
  PrivacyInv /\ [Privacy!Next]_(Privacy!vars) =>
    \A u \in PrivacyUsers :
      user[u].identity = "own" /\ user'[u].identity = "detached" => user'[u].live = {}
  <1>. SUFFICES ASSUME PrivacyInv, [Privacy!Next]_(Privacy!vars), NEW u \in PrivacyUsers,
                       user[u].identity = "own", user'[u].identity = "detached"
                PROVE  user'[u].live = {}
    OBVIOUS
  <1>0. Privacy!TypeOK /\ user[u] \in Privacy!UserRow /\ user[u].live \subseteq user[u].rows
    BY DEF PrivacyInv, Privacy!TypeOK, CurrentListsAll
  <1>1. user' # user
    OBVIOUS
  <1>2. ASSUME NEW v \in PrivacyUsers, NEW x \in Privacy!Attached \cup {"history"}, Privacy!Attach(v, x)
        PROVE  FALSE
    <2>1. user'[u].identity = user[u].identity
      BY <1>0, <1>2 DEF Privacy!Attach, Privacy!TypeOK, Privacy!UserRow
    <2>. QED  BY <2>1
  <1>3. CASE Privacy!Execute
    <2>. DEFINE s == review.subject
                a == review.actions
    <2>1. s \in PrivacyUsers /\ Privacy!ActOnUser(s, a) /\ ~Privacy!UserBlocked(s, a)
      BY <1>1, <1>3 DEF Privacy!Execute, Privacy!ActOnChild, Privacy!ActOnParty, Privacy!Blocked
    <2>. HIDE DEF s, a
    <2>2. s = u
      BY <1>0, <2>1, UserLeft
    <2>3. "identity" \in a /\ user'[u].live = user[u].live \ a
      BY <1>0, <2>1, <2>2, UserLeft
    <2>4. {"access", "channels"} \subseteq a
          /\ user[u].rows \cap {"relationships", "transfer", "history"} \subseteq a
      BY <2>1, <2>2, <2>3 DEF Privacy!UserBlocked, Privacy!Required
    <2>5. user[u].live \subseteq a
      BY <1>0, <2>4 DEF Privacy!UserRow, Privacy!Attached
    <2>. QED  BY <2>3, <2>5
  <1>. QED
    BY <1>1, <1>2, <1>3
    DEF Privacy!Next, Privacy!vars, Privacy!Save, Privacy!Assign, Privacy!Preview, Privacy!Close

\* A privacy action deletes no record it did not show and no record another
\* child has a part in, and detaching an identity leaves it nothing that was
\* attached since the preview (deleteChildDomainRecords, applyUserActions).
THEOREM ErasesAsShown == Spec => ErasedAsShown
  <1>1. PrivacyInv => (part = "privacy" => Privacy!OnlyShownRecordsErased)
    BY DEF PrivacyInv
  <1>2. Spec => [][Privacy!Next]_(Privacy!vars)
    BY PrivacyIsPart, PTL DEF Privacy!Spec
  <1>3. PrivacyInv /\ [Privacy!Next]_(Privacy!vars) =>
          [\A u \in PrivacyUsers : (user[u].identity = "own" /\ user'[u].identity = "detached"
                                      => user'[u].live = {})]_(Privacy!vars)
    BY DetachingLeavesNothing
  <1>4. Spec => Privacy!DetachedKeepsNothing
    BY <1>2, <1>3, PrivacyInvHolds, PTL DEF Privacy!DetachedKeepsNothing
  <1>. QED  BY <1>1, <1>4, PrivacyInvHolds, PTL DEF ErasedAsShown

-----------------------------------------------------------------------------
(* The data of a browser.                                                  *)

LegacyItems == DOMAIN LegacyKind

\* The old data names its children, items refer to children by their ids, and
\* the absent value is nothing else.
LEMMA MigrationConstants ==
  /\ DOMAIN LegacyName \subseteq LegacyIds
  /\ \A c \in DOMAIN LegacyName : LegacyName[c] \in LegacyNames
  /\ LegacyPackages \subseteq [LegacyItems -> SUBSET LegacyIds]
  /\ MaxCopies \in Nat \ {0}
  /\ Nothing \notin Migration!Child /\ Nothing \notin Migration!Row
  /\ Nothing \notin Migration!Migration
  BY ServerAssumption
  DEF ServerAssumption, Migration!LegacyAssumption, Migration!NothingAssumption, LegacyItems

\* Every row is about children there are, live or deleted: their names stay.
KidsExist ==
  \A i \in LegacyItems, n \in Migration!Copies :
    stored[i][n] # Nothing => \A c \in stored[i][n].kids : kid[c] # Nothing

MigrationInv == Migration!TypeOK /\ KidsExist /\ Migration!ImportedForItsChildren

\* A row and the children it is about.
AboutItsChildren(i, entry) ==
  /\ \A c \in entry.kids : kid[c] # Nothing
  /\ entry.imported /\ LegacyKind[i] # "period" =>
       \A c \in entry.kids :
         \/ \E d \in entry.named \cap DOMAIN LegacyName : kid[c].name = LegacyName[d]
         \/ c \in entry.named \ DOMAIN LegacyName

\* The invariant, row by row.
LEMMA MigrationInvByRow ==
  MigrationInv <=>
    /\ Migration!TypeOK
    /\ \A i \in LegacyItems, n \in Migration!Copies :
         stored[i][n] # Nothing => AboutItsChildren(i, stored[i][n])
  <1>1. Migration!ImportedForItsChildren <=>
          \A i \in LegacyItems, n \in Migration!Copies :
            stored[i][n] # Nothing /\ stored[i][n].imported /\ LegacyKind[i] # "period" =>
              \A c \in stored[i][n].kids :
                \/ \E d \in stored[i][n].named \cap DOMAIN LegacyName : kid[c].name = LegacyName[d]
                \/ c \in stored[i][n].named \ DOMAIN LegacyName
    BY DEF Migration!ImportedForItsChildren, Migration!IsListed, LegacyItems
  <1>. QED  BY <1>1 DEF MigrationInv, KidsExist, AboutItsChildren

\* It holds before anything was imported.
LEMMA MigrationInvInit == Migration!Init => MigrationInv
  <1>. SUFFICES ASSUME Migration!Init PROVE MigrationInv
    OBVIOUS
  <1>1. Migration!TypeOK
    BY DEF Migration!Init, Migration!TypeOK, Migration!Rows
  <1>2. KidsExist /\ Migration!ImportedForItsChildren
    BY DEF Migration!Init, KidsExist, Migration!ImportedForItsChildren, LegacyItems
  <1>. QED  BY <1>1, <1>2 DEF MigrationInv

\* While children stay who they are, rows that stay are about the same.
LEMMA StaysAboutThem ==
  ASSUME NEW i \in LegacyItems, NEW entry \in Migration!Row, AboutItsChildren(i, entry),
         \A c \in LegacyIds : kid[c] # Nothing => kid'[c] # Nothing /\ kid'[c].name = kid[c].name
  PROVE  AboutItsChildren(i, entry)'
  <1>1. entry.kids \subseteq LegacyIds
    BY DEF Migration!Row
  <1>. QED  BY <1>1 DEF AboutItsChildren

\* A step keeps the invariant when the types hold, the children stay who they
\* are and every row is an old one or about its children.
LEMMA RowsKeep ==
  ASSUME MigrationInv, Migration!TypeOK',
         \A c \in LegacyIds : kid[c] # Nothing => kid'[c] # Nothing /\ kid'[c].name = kid[c].name,
         \A i \in LegacyItems, n \in Migration!Copies : stored'[i][n] # Nothing =>
           \/ stored'[i][n] = stored[i][n]
           \/ \E entry : stored'[i][n] = entry /\ AboutItsChildren(i, entry)'
  PROVE  MigrationInv'
  <1>1. ASSUME NEW i \in LegacyItems, NEW n \in Migration!Copies, stored'[i][n] # Nothing
        PROVE  AboutItsChildren(i, stored[i][n])'
    <2>1. CASE stored'[i][n] = stored[i][n]
      <3>1. PICK entry \in Migration!Row : entry = stored[i][n]
        BY <1>1, <2>1 DEF MigrationInv, Migration!TypeOK, Migration!Rows, LegacyItems
      <3>2. AboutItsChildren(i, entry)
        BY <1>1, <2>1, <3>1, MigrationInvByRow
      <3>3. AboutItsChildren(i, entry)'
        BY <3>1, <3>2, StaysAboutThem
      <3>. QED  BY <2>1, <3>1, <3>3 DEF AboutItsChildren
    <2>2. CASE \E entry : stored'[i][n] = entry /\ AboutItsChildren(i, entry)'
      BY <2>2 DEF AboutItsChildren
    <2>. QED  BY <1>1, <2>1, <2>2
  <1>2. Migration!Copies' = Migration!Copies
    BY DEF Migration!Copies
  <1>3. /\ Migration!TypeOK'
        /\ \A i \in LegacyItems, n \in Migration!Copies :
             stored'[i][n] # Nothing => AboutItsChildren(i, stored[i][n])'
    BY <1>1
  <1>. QED  BY <1>3 DEF MigrationInv, KidsExist, AboutItsChildren, Migration!ImportedForItsChildren,
                        Migration!IsListed, LegacyItems

\* A child is created or deleted.
LEMMA ChildrenKeep ==
  ASSUME MigrationInv, NEW c \in LegacyIds,
         Migration!DeleteChild(c) \/ \E name \in LegacyNames : Migration!CreateChild(c, name)
  PROVE  MigrationInv'
  <1>0. Migration!TypeOK /\ Nothing \notin Migration!Row /\ Nothing \notin Migration!Child
    BY MigrationConstants DEF MigrationInv
  <1>1. ASSUME NEW name \in LegacyNames, Migration!CreateChild(c, name)
        PROVE  MigrationInv'
    <2>1. [name |-> name, live |-> TRUE] \in Migration!Child
      BY DEF Migration!Child
    <2>2. Migration!TypeOK'
      BY <1>0, <1>1, <2>1 DEF Migration!CreateChild, Migration!TypeOK
    <2>. QED
      BY <1>0, <1>1, <2>2, RowsKeep DEF Migration!CreateChild, Migration!TypeOK
  <1>2. CASE Migration!DeleteChild(c)
    <2>1. kid[c] \in Migration!Child /\ kid' = [kid EXCEPT ![c] = [kid[c] EXCEPT !.live = FALSE]]
      BY <1>0, <1>2 DEF Migration!DeleteChild, Migration!LiveChildren, Migration!TypeOK
    <2>2. [kid[c] EXCEPT !.live = FALSE] \in Migration!Child
          /\ [kid[c] EXCEPT !.live = FALSE].name = kid[c].name
      BY <2>1 DEF Migration!Child
    <2>3. /\ kid' \in [LegacyIds -> Migration!Child \cup {Nothing}]
          /\ \A d \in LegacyIds : kid[d] # Nothing => kid'[d] # Nothing /\ kid'[d].name = kid[d].name
      BY <1>0, <2>1, <2>2 DEF Migration!TypeOK
    <2>4. ASSUME NEW i \in LegacyItems, NEW n \in Migration!Copies, stored[i][n] # Nothing
          PROVE  /\ Migration!Without(stored[i][n], c) \in Migration!Row
                 /\ AboutItsChildren(i, Migration!Without(stored[i][n], c))
      <3>1. stored[i][n] \in Migration!Row /\ AboutItsChildren(i, stored[i][n])
        BY <1>0, <2>4, MigrationInvByRow DEF Migration!TypeOK, Migration!Rows, LegacyItems
      <3>2. PICK entry \in Migration!Row : entry = stored[i][n]
        BY <3>1
      <3>3. /\ Migration!Without(entry, c) \in Migration!Row
            /\ Migration!Without(entry, c).kids \subseteq entry.kids
            /\ Migration!Without(entry, c).imported = entry.imported
            /\ Migration!Without(entry, c).named = entry.named
        BY DEF Migration!Without, Migration!Row
      <3>4. AboutItsChildren(i, Migration!Without(entry, c))
        BY <3>1, <3>2, <3>3 DEF AboutItsChildren
      <3>. QED  BY <3>2, <3>3, <3>4
    <2>5. ASSUME NEW i \in LegacyItems, NEW n \in Migration!Copies
          PROVE  \/ stored'[i][n] = Nothing
                 \/ stored[i][n] # Nothing /\ stored'[i][n] = Migration!Without(stored[i][n], c)
      BY <1>2 DEF Migration!DeleteChild, LegacyItems
    <2>6. stored' \in Migration!Rows
      <3>1. \A i \in LegacyItems, n \in Migration!Copies :
              stored'[i][n] \in Migration!Row \cup {Nothing}
        BY <2>4, <2>5
      <3>. QED  BY <1>2, <3>1 DEF Migration!DeleteChild, Migration!Rows, LegacyItems
    <2>7. Migration!TypeOK'
      BY <1>0, <1>2, <2>3, <2>6 DEF Migration!DeleteChild, Migration!TypeOK
    <2>8. ASSUME NEW i \in LegacyItems, NEW n \in Migration!Copies, stored'[i][n] # Nothing
          PROVE  \E entry : stored'[i][n] = entry /\ AboutItsChildren(i, entry)'
      <3>1. PICK entry \in Migration!Row :
              entry = Migration!Without(stored[i][n], c) /\ AboutItsChildren(i, entry)
        BY <2>4, <2>5, <2>8
      <3>2. AboutItsChildren(i, entry)'
        BY <2>3, <3>1, StaysAboutThem
      <3>. QED  BY <2>5, <2>8, <3>1, <3>2
    <2>. QED  BY <2>3, <2>7, <2>8, RowsKeep
  <1>. QED  BY <1>1, <1>2

\* One row more of an item.
LEMMA WithRowType ==
  ASSUME Migration!TypeOK, NEW i \in LegacyItems, NEW entry \in Migration!Row
  PROVE  /\ Migration!WithRow(i, entry) \in [Migration!Copies -> Migration!Row \cup {Nothing}]
         /\ \A n \in Migration!Copies : Migration!WithRow(i, entry)[n] \in {entry, stored[i][n]}
  BY DEF Migration!WithRow, Migration!TypeOK, Migration!Rows, LegacyItems

\* A member enters something.
LEMMA EnterKeeps ==
  ASSUME MigrationInv, NEW i \in LegacyItems, NEW kids \in SUBSET LegacyIds, Migration!Enter(i, kids)
  PROVE  MigrationInv'
  <1>0. Migration!TypeOK
    BY DEF MigrationInv
  <1>. DEFINE entry == [kids |-> kids, imported |-> FALSE, named |-> {}]
  <1>1. entry \in Migration!Row /\ entry.kids = kids /\ ~entry.imported
    BY DEF Migration!Row
  <1>2. /\ kids \subseteq Migration!LiveChildren
        /\ stored' = [stored EXCEPT ![i] = Migration!WithRow(i, entry)]
        /\ UNCHANGED <<kid, migration, lost>>
    BY DEF Migration!Enter
  <1>. HIDE DEF entry
  <1>3. AboutItsChildren(i, entry)'
    BY <1>1, <1>2 DEF AboutItsChildren, Migration!LiveChildren
  <1>4. stored' \in Migration!Rows
    BY <1>0, <1>1, <1>2, WithRowType DEF Migration!TypeOK, Migration!Rows, LegacyItems
  <1>5. Migration!TypeOK'
    BY <1>0, <1>2, <1>4 DEF Migration!TypeOK
  <1>6. \A j \in LegacyItems, n \in Migration!Copies :
          stored'[j][n] = stored[j][n] \/ (j = i /\ stored'[j][n] = entry)
    BY <1>0, <1>1, <1>2, WithRowType DEF Migration!TypeOK, Migration!Rows, LegacyItems
  <1>. QED  BY <1>2, <1>3, <1>5, <1>6, RowsKeep

\* The children of the old data are in the database after the insertion, each
\* under its name, and the others are who they were.
LEMMA InsertedChildren ==
  ASSUME Migration!TypeOK, NEW map \in Migration!ChildMaps, kid' = Migration!Inserted(map)
  PROVE  /\ kid' \in [LegacyIds -> Migration!Child \cup {Nothing}]
         /\ \A c \in LegacyIds : kid[c] # Nothing => kid'[c] = kid[c]
         /\ \A c \in DOMAIN LegacyName :
              /\ map[c] \in LegacyIds /\ kid'[map[c]] # Nothing
              /\ kid'[map[c]].name = LegacyName[c]
  <1>0. /\ map \in [DOMAIN LegacyName -> LegacyIds]
        /\ \A c \in DOMAIN LegacyName :
             map[c] \in (IF Migration!Matches(c) # {} THEN Migration!Matches(c) ELSE Migration!NewIds(c))
        /\ \A c, d \in DOMAIN LegacyName : map[c] = map[d] => LegacyName[c] = LegacyName[d]
    BY DEF Migration!ChildMaps
  <1>. DEFINE who(c) == CHOOSE d \in DOMAIN LegacyName : map[d] = c
  <1>1. ASSUME NEW c \in LegacyIds
        PROVE  \/ kid[c] # Nothing /\ kid'[c] = kid[c]
               \/ kid[c] = Nothing /\ kid'[c] = Nothing
                  /\ \A d \in DOMAIN LegacyName : map[d] # c
               \/ /\ kid[c] = Nothing /\ who(c) \in DOMAIN LegacyName /\ map[who(c)] = c
                  /\ kid'[c] = [name |-> LegacyName[who(c)], live |-> TRUE]
    <2>1. CASE kid[c] = Nothing /\ \E d \in DOMAIN LegacyName : map[d] = c
      BY <2>1 DEF Migration!Inserted
    <2>2. CASE ~(kid[c] = Nothing /\ \E d \in DOMAIN LegacyName : map[d] = c)
      BY <2>2 DEF Migration!Inserted
    <2>. QED  BY <2>1, <2>2
  <1>. HIDE DEF who
  <1>2. ASSUME NEW d \in DOMAIN LegacyName
        PROVE  /\ [name |-> LegacyName[d], live |-> TRUE] \in Migration!Child
               /\ [name |-> LegacyName[d], live |-> TRUE].name = LegacyName[d]
    BY MigrationConstants DEF Migration!Child
  <1>3. \A c \in LegacyIds : kid'[c] \in Migration!Child \cup {Nothing}
    <2>1. \A c \in LegacyIds : kid[c] \in Migration!Child \cup {Nothing}
      BY DEF Migration!TypeOK
    <2>2. ASSUME NEW c \in LegacyIds PROVE kid'[c] \in Migration!Child \cup {Nothing}
      BY <1>1, <1>2, <2>1
    <2>. QED  BY <2>2
  <1>4. kid' \in [LegacyIds -> Migration!Child \cup {Nothing}]
    BY <1>3 DEF Migration!Inserted
  <1>5. ASSUME NEW c \in DOMAIN LegacyName
        PROVE  /\ map[c] \in LegacyIds /\ kid'[map[c]] # Nothing
               /\ kid'[map[c]].name = LegacyName[c]
    <2>1. map[c] \in LegacyIds
      BY <1>0
    <2>2. CASE kid[map[c]] # Nothing
      <3>1. map[c] \in Migration!Matches(c)
        BY <1>0, <2>2 DEF Migration!NewIds
      <3>. QED  BY <1>1, <2>1, <2>2, <3>1 DEF Migration!Matches
    <2>3. CASE kid[map[c]] = Nothing
      <3>1. PICK d \in DOMAIN LegacyName :
              map[d] = map[c] /\ kid'[map[c]] = [name |-> LegacyName[d], live |-> TRUE]
        BY <1>1, <2>1, <2>3
      <3>2. kid'[map[c]].name = LegacyName[c]
        BY <1>0, <1>2, <3>1
      <3>3. kid'[map[c]] # Nothing
        BY <1>2, <3>1, MigrationConstants
      <3>. QED  BY <2>1, <3>2, <3>3
    <2>. QED  BY <2>2, <2>3
  <1>. QED  BY <1>1, <1>4, <1>5

\* An inserted row is about the children it names: under their new ids when the
\* old data lists them.
LEMMA MappedChildren ==
  ASSUME Migration!TypeOK, NEW map \in Migration!ChildMaps, kid' = Migration!Inserted(map),
         NEW i \in LegacyItems, NEW ids \in SUBSET LegacyIds
  PROVE  /\ Migration!MappedKids(i, ids, map) \in SUBSET LegacyIds
         /\ LegacyKind[i] # "period" =>
              \A c \in Migration!MappedKids(i, ids, map) :
                \/ \E d \in ids \cap DOMAIN LegacyName : kid'[c].name = LegacyName[d]
                \/ c \in ids \ DOMAIN LegacyName
  <1>1. \A c \in DOMAIN LegacyName : map[c] \in LegacyIds /\ kid'[map[c]].name = LegacyName[c]
    BY InsertedChildren
  <1>2. CASE LegacyKind[i] = "period"
    BY <1>2 DEF Migration!MappedKids
  <1>3. CASE LegacyKind[i] # "period"
    <2>1. ASSUME NEW c \in Migration!MappedKids(i, ids, map)
          PROVE  /\ c \in LegacyIds
                 /\ \/ \E d \in ids \cap DOMAIN LegacyName : kid'[c].name = LegacyName[d]
                    \/ c \in ids \ DOMAIN LegacyName
      <3>1. PICK d \in ids : c = Migration!Mapped(d, map)
        BY <1>3 DEF Migration!MappedKids
      <3>2. CASE d \in DOMAIN LegacyName
        BY <1>1, <3>1, <3>2 DEF Migration!Mapped
      <3>3. CASE d \notin DOMAIN LegacyName
        BY <3>1, <3>3 DEF Migration!Mapped
      <3>. QED  BY <3>2, <3>3
    <2>. QED  BY <2>1
  <1>. QED  BY <1>2, <1>3

\* The additive import.
LEMMA AddKeeps ==
  ASSUME MigrationInv, NEW q \in Migrations, Migration!Add(q)
  PROVE  MigrationInv'
  <1>0. Migration!TypeOK
    BY DEF MigrationInv
  <1>. DEFINE added == LegacyItems \ migration[q].skipped
  <1>k. PICK kids \in LegacyPackages : kids = migration[q].kids
    BY <1>0 DEF Migration!Add, Migration!TypeOK, Migration!Migration
  <1>. DEFINE new(i, map) == [kids |-> Migration!MappedKids(i, kids[i], map), imported |-> TRUE,
                              named |-> kids[i]]
  <1>1. PICK map \in Migration!ChildMaps :
          /\ \A i \in added : Migration!Insertable(kids[i], i, map)
          /\ kid' = Migration!Inserted(map)
          /\ stored' = [i \in LegacyItems |-> IF i \in added
               THEN Migration!WithRow(i, new(i, map)) ELSE stored[i]]
    BY <1>k DEF Migration!Add, LegacyItems
  <1>. HIDE DEF added
  <1>2. /\ kid' \in [LegacyIds -> Migration!Child \cup {Nothing}]
        /\ \A c \in LegacyIds : kid[c] # Nothing => kid'[c] = kid[c]
    BY <1>0, <1>1, InsertedChildren
  <1>3. ASSUME NEW i \in LegacyItems
        PROVE  \E entry \in Migration!Row :
                 entry = new(i, map) /\ (i \in added => AboutItsChildren(i, entry)')
    <2>1. PICK ids \in SUBSET LegacyIds : ids = kids[i]
      BY <1>k, MigrationConstants
    <2>2. PICK mapped \in SUBSET LegacyIds :
            /\ mapped = Migration!MappedKids(i, ids, map)
            /\ LegacyKind[i] # "period" =>
                 \A c \in mapped :
                   \/ \E d \in ids \cap DOMAIN LegacyName : kid'[c].name = LegacyName[d]
                   \/ c \in ids \ DOMAIN LegacyName
      BY <1>0, <1>1, MappedChildren
    <2>3. i \in added => \A c \in mapped : kid'[c] # Nothing
      BY <1>1, <2>1, <2>2 DEF Migration!Insertable
    <2>. DEFINE entry == [kids |-> mapped, imported |-> TRUE, named |-> ids]
    <2>4. entry = new(i, map)
      BY <2>1, <2>2
    <2>5. entry \in Migration!Row /\ entry.kids = mapped /\ entry.named = ids
      BY DEF Migration!Row
    <2>6. i \in added => AboutItsChildren(i, entry)'
      BY <2>2, <2>3, <2>5 DEF AboutItsChildren
    <2>. QED  BY <2>4, <2>5, <2>6
  <1>4. ASSUME NEW i \in LegacyItems
        PROVE  /\ stored'[i] \in [Migration!Copies -> Migration!Row \cup {Nothing}]
               /\ \A n \in Migration!Copies :
                    stored'[i][n] = stored[i][n] \/ (i \in added /\ stored'[i][n] = new(i, map))
    <2>1. CASE i \in added
      <3>1. stored'[i] = Migration!WithRow(i, new(i, map))
        BY <1>1, <2>1
      <3>2. PICK entry \in Migration!Row : entry = new(i, map)
        BY <1>3
      <3>. QED  BY <1>0, <2>1, <3>1, <3>2, WithRowType
    <2>2. CASE i \notin added
      BY <1>0, <1>1, <2>2 DEF Migration!TypeOK, Migration!Rows, LegacyItems
    <2>. QED  BY <2>1, <2>2
  <1>. HIDE DEF new
  <1>5. stored' \in Migration!Rows
    BY <1>1, <1>4 DEF Migration!Rows, LegacyItems
  <1>6. Migration!TypeOK'
    BY <1>0, <1>2, <1>5 DEF Migration!Add, Migration!TypeOK
  <1>. QED  BY <1>2, <1>3, <1>4, <1>6, RowsKeep

\* The replacement, with the ids of the old data.
LEMMA ReplaceKeeps ==
  ASSUME MigrationInv, NEW q \in Migrations, Migration!Replace(q)
  PROVE  MigrationInv'
  <1>0. Migration!TypeOK
    BY DEF MigrationInv
  <1>1. \A c \in DOMAIN LegacyName : [name |-> LegacyName[c], live |-> TRUE] \in Migration!Child
    BY MigrationConstants DEF Migration!Child
  <1>2. /\ kid' \in [LegacyIds -> Migration!Child \cup {Nothing}]
        /\ \A c \in DOMAIN LegacyName : kid'[c] # Nothing /\ kid'[c].name = LegacyName[c]
    BY <1>1, MigrationConstants DEF Migration!Replace
  <1>k. PICK kids \in LegacyPackages :
          kids = migration[q].kids /\ \A i \in LegacyItems : kids[i] \subseteq DOMAIN LegacyName
    BY <1>0 DEF Migration!Replace, Migration!TypeOK, Migration!Migration, LegacyItems
  <1>. DEFINE new(i) == [kids |-> kids[i], imported |-> TRUE, named |-> kids[i]]
  <1>3. ASSUME NEW i \in LegacyItems
        PROVE  new(i) \in Migration!Row /\ AboutItsChildren(i, new(i))'
    <2>1. kids[i] \in SUBSET LegacyIds
      BY <1>k, MigrationConstants
    <2>2. new(i) \in Migration!Row /\ new(i).kids = kids[i] /\ new(i).named = kids[i]
      BY <2>1 DEF Migration!Row
    <2>. QED  BY <1>2, <1>k, <2>2 DEF AboutItsChildren
  <1>4. stored' = [i \in LegacyItems |-> [n \in Migration!Copies |->
                     IF n = 1 THEN new(i) ELSE Nothing]]
    BY <1>k DEF Migration!Replace, LegacyItems
  <1>. HIDE DEF new
  <1>5. stored' \in Migration!Rows
    BY <1>3, <1>4 DEF Migration!Rows, LegacyItems
  <1>6. lost' \in BOOLEAN
    <2>1. \E b \in BOOLEAN : lost' = (lost \/ b)
      <3>. DEFINE b == \E i \in LegacyItems, n \in Migration!Copies :
                         \A m \in Migration!Copies : migration[q].backup[i][m] # stored[i][n]
      <3>1. lost' = (lost \/ b) /\ b \in BOOLEAN
        BY DEF Migration!Replace, LegacyItems
      <3>. QED  BY <3>1
    <2>. QED  BY <1>0, <2>1 DEF Migration!TypeOK
  <1>7. Migration!TypeOK'
    BY <1>0, <1>2, <1>5, <1>6 DEF Migration!Replace, Migration!TypeOK
  <1>8. ASSUME NEW i \in LegacyItems, NEW n \in Migration!Copies, stored'[i][n] # Nothing
        PROVE  AboutItsChildren(i, stored[i][n])'
    <2>1. stored'[i][n] = new(i)
      BY <1>4, <1>8
    <2>. QED  BY <1>3, <2>1 DEF AboutItsChildren
  <1>. QED
    BY <1>7, <1>8
    DEF MigrationInv, KidsExist, AboutItsChildren, Migration!ImportedForItsChildren,
        Migration!IsListed, LegacyItems, Migration!Copies

\* No step disturbs the invariant.
LEMMA MigrationInvStep == MigrationInv /\ [Migration!Next]_(Migration!vars) => MigrationInv'
  <1>. SUFFICES ASSUME MigrationInv, [Migration!Next]_(Migration!vars)
                PROVE  MigrationInv'
    OBVIOUS
  <1>0. Migration!TypeOK
    BY DEF MigrationInv
  <1>k. ASSUME UNCHANGED <<kid, stored>>, Migration!TypeOK'
        PROVE  MigrationInv'
    BY <1>k
    DEF MigrationInv, KidsExist, Migration!ImportedForItsChildren, Migration!IsListed,
        Migration!Copies
  <1>1. ASSUME NEW q \in Migrations, NEW mode1 \in {"add", "replace"},
               NEW policy \in {"skip", "include"}, NEW kids \in LegacyPackages,
               Migration!Analyze(q, mode1, policy, kids)
        PROVE  MigrationInv'
    <2>. DEFINE skipped == IF policy = "skip"
                             THEN {i \in LegacyItems : Migration!Duplicate(i, kids[i])} ELSE {}
                new == [mode |-> mode1, kids |-> kids, backup |-> stored, skipped |-> skipped]
    <2>1. skipped \in SUBSET LegacyItems
      OBVIOUS
    <2>2. migration' = [migration EXCEPT ![q] = new] /\ UNCHANGED <<kid, stored, lost>>
      BY <1>1 DEF Migration!Analyze, LegacyItems
    <2>. HIDE DEF skipped
    <2>3. new \in Migration!Migration
      BY <1>0, <2>1 DEF Migration!Migration, Migration!TypeOK, LegacyItems
    <2>. HIDE DEF new
    <2>4. Migration!TypeOK'
      BY <1>0, <2>2, <2>3 DEF Migration!TypeOK
    <2>. QED  BY <1>k, <2>2, <2>4
  <1>2. ASSUME NEW q \in Migrations, Migration!Fail(q)
        PROVE  MigrationInv'
    BY <1>0, <1>2, <1>k DEF Migration!Fail, Migration!TypeOK
  <1>3. CASE UNCHANGED Migration!vars
    BY <1>0, <1>3, <1>k DEF Migration!vars, Migration!TypeOK
  <1>. QED
    BY <1>1, <1>2, <1>3, ChildrenKeep, EnterKeeps, AddKeeps, ReplaceKeeps
    DEF Migration!Next, LegacyItems

\* It holds in every installation.
LEMMA MigrationInvHolds == Spec => []MigrationInv
  BY MigrationInvInit, MigrationInvStep, MigrationIsPart, PTL DEF Migration!Spec

\* An imported entry is about the children it was about in the browser,
\* whatever ids they have in the database, and beside them only about children
\* whose ids it named without the old data listing them (additiveImport).
THEOREM ImportsForTheirChildren == Spec => []ImportedForItsChildren
  <1>1. MigrationInv => ImportedForItsChildren
    BY DEF MigrationInv, ImportedForItsChildren
  <1>. QED  BY <1>1, MigrationInvHolds, PTL

-----------------------------------------------------------------------------
(* All parts.                                                              *)

\* Every variable of every part of the server has its type.
THEOREM ServerTypes == Spec => []TypeOK
  <1>1. CareInv => Care!TypeOK
    BY DEF CareInv
  <1>2. PrivacyInv => Privacy!TypeOK
    BY DEF PrivacyInv
  <1>3. MigrationInv => Migration!TypeOK
    BY DEF MigrationInv
  <1>4. Spec => [](part \in Parts)
    <2>1. Init => part \in Parts
      BY DEF Init
    <2>2. part \in Parts /\ [Next]_vars => (part \in Parts)'
      BY DEF Next, vars
    <2>. QED  BY <2>1, <2>2, PTL DEF Spec
  <1>5. (/\ part \in Parts /\ Care!TypeOK /\ Privacy!TypeOK /\ Migration!TypeOK
         /\ part = "recovery" => Recovery!TypeOK
         /\ part = "setup" => FirstUses!TypeOK
         /\ part = "requests" => Requesting!TypeOK
         /\ Starting!TypeOK /\ Update!TypeOK
         /\ Devices!TypeOK /\ Calendars!TypeOK /\ Transfer!TypeOK) => TypeOK
    BY DEF TypeOK
  <1>. QED
    BY <1>1, <1>2, <1>3, <1>4, <1>5, CareInvHolds, PrivacyInvHolds, MigrationInvHolds,
       IdentityTypes, SchemaTypes, DataTypes, PTL
=============================================================================
