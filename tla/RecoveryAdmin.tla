----------------------------- MODULE RecoveryAdmin -----------------------------
(***************************************************************************)
(* The break-glass administrator (server/services/recoveryAdmin.ts, its    *)
(* routes and the recovery branch of server/authHook.ts). As long as no    *)
(* password is stored, the mounted initial password opens a session that   *)
(* can only set one; afterwards only the stored password opens sessions.   *)
(*                                                                         *)
(* A login checks the password before the transaction that creates the     *)
(* session, a password change and a logout look their session up before    *)
(* they write.                                                             *)
(***************************************************************************)

CONSTANTS
  Passwords,  \* passwords the operator chooses
  Initial,    \* the content of the mounted file
  Sessions,   \* rows of recovery_admin_sessions, one for each login
  Requests,   \* password changes and logouts that can be under way
  Nothing     \* absent value

InitialAssumption == Initial \notin Passwords
NothingAssumption == Nothing \notin Passwords \cup Sessions \cup {Initial}

VARIABLES
  password,  \* the stored credential
  mounted,   \* the operator mounts the initial password
  session,   \* sessions and logins
  request    \* the session each request has looked up

vars == <<password, mounted, session, request>>

-----------------------------------------------------------------------------
Known == Passwords \cup {Initial}

\* phase "checked" is a login past the check of its password. knows is a
\* history variable: the password that opened the session, or the one it set.
\* late: the stored password changed between the check and the session.
SessionRow == [phase : {"absent", "checked", "live", "ended"}, restricted : BOOLEAN,
               knows : Known \cup {Nothing}, late : BOOLEAN]

Absent == [phase |-> "absent", restricted |-> FALSE, knows |-> Nothing, late |-> FALSE]

Live == {s \in Sessions : session[s].phase = "live"}

Init ==
  /\ password = Nothing
  /\ mounted \in BOOLEAN
  /\ session = [s \in Sessions |-> Absent]
  /\ request = [q \in Requests |-> Nothing]

-----------------------------------------------------------------------------
\* The stored password alone counts once there is one.
Accepted(w) == IF password # Nothing THEN w = password ELSE w = Initial /\ mounted

\* login, up to its transaction.
CheckPassword(s, w) ==
  /\ session[s].phase = "absent"
  /\ Accepted(w)
  /\ session' = [session EXCEPT ![s] =
       [phase |-> "checked", restricted |-> password = Nothing, knows |-> w, late |-> FALSE]]
  /\ UNCHANGED <<password, mounted, request>>

\* What a login that ends now was checked against is out of date.
Outdated(s) == password # (IF session[s].restricted THEN Nothing ELSE session[s].knows)

CreateSession(s) ==
  /\ session[s].phase = "checked"
  /\ session' = [session EXCEPT ![s].phase = "live", ![s].late = Outdated(s)]
  /\ UNCHANGED <<password, mounted, request>>

\* findSessionByToken, of changePassword or revokeByToken.
FindSession(q, s, op) ==
  /\ request[q] = Nothing
  /\ s \in Live
  /\ request' = [request EXCEPT ![q] = [op |-> op, session |-> s]]
  /\ UNCHANGED <<password, mounted, session>>

\* Seeded fault: the other sessions stay.
KeepOthers(s) == session

\* Every other live session of the administrator ends.
EndOthers(s) ==
  [t \in Sessions |->
     IF t # s /\ t \in Live THEN [session[t] EXCEPT !.phase = "ended"] ELSE session[t]]

\* The transaction of changePassword. It does not look at the session again:
\* when the session has ended, the password changes all the same and the
\* answer is 401.
ChangePassword(q, w) ==
  /\ request[q] # Nothing /\ request[q].op = "change"
  /\ password' = w
  /\ session' = [EndOthers(request[q].session) EXCEPT
       ![request[q].session].restricted = FALSE, ![request[q].session].knows = w,
       ![request[q].session].late = FALSE]
  /\ request' = [request EXCEPT ![q] = Nothing]
  /\ UNCHANGED mounted

Logout(q) ==
  /\ request[q] # Nothing /\ request[q].op = "logout"
  /\ session' = [session EXCEPT ![request[q].session].phase = "ended"]
  /\ request' = [request EXCEPT ![q] = Nothing]
  /\ UNCHANGED <<password, mounted>>

Expire(s) ==
  /\ s \in Live
  /\ session' = [session EXCEPT ![s].phase = "ended"]
  /\ UNCHANGED <<password, mounted, request>>

\* The operator mounts or removes the initial password.
Mount ==
  /\ mounted' = ~mounted
  /\ UNCHANGED <<password, session, request>>

Next ==
  \/ \E s \in Sessions, w \in Known : CheckPassword(s, w)
  \/ \E s \in Sessions : CreateSession(s) \/ Expire(s)
  \/ \E q \in Requests, s \in Sessions, op \in {"change", "logout"} : FindSession(q, s, op)
  \/ \E q \in Requests, w \in Passwords : ChangePassword(q, w)
  \/ \E q \in Requests : Logout(q)
  \/ Mount

Spec == Init /\ [][Next]_vars

-----------------------------------------------------------------------------
\* Every variable has its type.
TypeOK ==
  /\ password \in Passwords \cup {Nothing}
  /\ mounted \in BOOLEAN
  /\ session \in [Sessions -> SessionRow]
  /\ request \in [Requests -> [op : {"change", "logout"}, session : Sessions] \cup {Nothing}]

\* findUserByToken: a session acts as the administrator.
Acts(s) == s \in Live /\ ~session[s].restricted

\* Whoever acts as the administrator knows the stored password, unless the
\* session's login was past its check when the password changed: the change
\* ends every other session, also of a session that ended meanwhile.
AdministratorKnowsPassword ==
  \A s \in Sessions : Acts(s) => session[s].knows = password \/ session[s].late

\* docs/configuration.md: once a password is stored, the initial password
\* source is ignored. No session it opened is left to set another one.
InitialPasswordIgnored ==
  password # Nothing => \A s \in Live : ~session[s].restricted
=============================================================================
