------------------------------ MODULE PushDevices ------------------------------
(***************************************************************************)
(* The browsers that members have registered for push messages             *)
(* (services/careConfirmations.ts, routes/careConfirmations.ts,            *)
(* store/AppStore.tsx) and the part of the notification sweep that sends   *)
(* to them (index.ts). A browser's endpoint has one live row, of the       *)
(* member who registered it last; the number of a member's rows is         *)
(* limited, and a sweep that finds more than that stops.                   *)
(***************************************************************************)
EXTENDS Naturals, FiniteSets

CONSTANTS
  Users,       \* members, and people who were members
  Endpoints,   \* push endpoints of browsers
  Requests,    \* registrations under way at a time
  MaxDevices,  \* maximumPushSubscriptionsPerUser
  Nothing      \* absent value

DeviceAssumption == MaxDevices \in Nat \ {0} /\ Nothing \notin Users

VARIABLES
  member,       \* who is a member
  device,       \* the live row of each endpoint: its member
  registering,  \* registrations past their check of the limit
  overlapped,   \* history: members two of whose registrations overlapped
  sweep         \* the sweep: whom it still serves, whom and which rows it serves now

vars == <<member, device, registering, overlapped, sweep>>

-----------------------------------------------------------------------------
Idle == [step |-> "idle", todo |-> {}, user |-> Nothing, rows |-> {}]

Init ==
  /\ member = Users
  /\ device = [e \in Endpoints |-> Nothing]
  /\ registering = [q \in Requests |-> Nothing]
  /\ overlapped = {}
  /\ sweep = Idle

Devices(u) == {e \in Endpoints : device[e] = u}

-----------------------------------------------------------------------------
(* Registration: registerPushSubscription, savePushSubscription            *)

\* Seeded fault: an endpoint that is known needs no room.
KnownEndpoint(u, e) == device[e] # Nothing \/ Cardinality(Devices(u)) < MaxDevices

\* The look-up of the endpoint, and of the member's rows unless it is theirs.
MayRegister(u, e) == device[e] = u \/ Cardinality(Devices(u)) < MaxDevices

\* The browser offers its subscription, whoever used it before.
CheckRegistration(q, u, e) ==
  /\ registering[q] = Nothing
  /\ u \in member
  /\ MayRegister(u, e)
  /\ registering' = [registering EXCEPT ![q] = [user |-> u, endpoint |-> e]]
  /\ overlapped' = IF \E r \in Requests : registering[r] # Nothing /\ registering[r].user = u
                   THEN overlapped \cup {u} ELSE overlapped
  /\ UNCHANGED <<member, device, sweep>>

\* The row is inserted, or becomes this member's.
Register(q) ==
  /\ registering[q] # Nothing
  /\ device' = [device EXCEPT ![registering[q].endpoint] = registering[q].user]
  /\ registering' = [registering EXCEPT ![q] = Nothing]
  /\ UNCHANGED <<member, overlapped, sweep>>

RegistrationFails(q) ==
  /\ registering[q] # Nothing
  /\ registering' = [registering EXCEPT ![q] = Nothing]
  /\ UNCHANGED <<member, device, overlapped, sweep>>

\* deletePushSubscription, for its member only (a row is known by its endpoint).
Deleted(u, e) == IF device[e] = u THEN [device EXCEPT ![e] = Nothing] ELSE device

DeleteDevice(u, e) ==
  /\ u \in member
  /\ device' = Deleted(u, e)
  /\ UNCHANGED <<member, registering, overlapped, sweep>>

\* Their devices go with the membership.
RemoveMember(u) ==
  /\ member' = member \ {u}
  /\ device' = [e \in Endpoints |-> IF device[e] = u THEN Nothing ELSE device[e]]
  /\ UNCHANGED <<registering, overlapped, sweep>>

RestoreMember(u) ==
  /\ member' = member \cup {u}
  /\ UNCHANGED <<device, registering, overlapped, sweep>>

-----------------------------------------------------------------------------
(* The sweep: sendDueCareConfirmationPushes, sendPushForRequest            *)

\* The members with due tasks.
StartSweep(us) ==
  /\ sweep = Idle
  /\ us \subseteq member
  /\ sweep' = [Idle EXCEPT !.step = "serving", !.todo = us]
  /\ UNCHANGED <<member, device, registering, overlapped>>

\* A member who wants no push messages is passed over.
Skip(u) ==
  /\ sweep.step = "serving" /\ sweep.user = Nothing
  /\ u \in sweep.todo
  /\ sweep' = [sweep EXCEPT !.todo = @ \ {u}]
  /\ UNCHANGED <<member, device, registering, overlapped>>

\* pushSubscriptionsForUser: beyond the limit the whole sweep ends, before the
\* other members and the e-mails.
Serve(u) ==
  /\ sweep.step = "serving" /\ sweep.user = Nothing
  /\ u \in sweep.todo
  /\ sweep' = IF Cardinality(Devices(u)) > MaxDevices THEN [Idle EXCEPT !.step = "failed"]
              ELSE [sweep EXCEPT !.todo = @ \ {u}, !.user = u, !.rows = Devices(u)]
  /\ UNCHANGED <<member, device, registering, overlapped>>

\* sendNotification for the next row; an endpoint that is gone is deleted.
Send(e, gone) ==
  /\ e \in sweep.rows
  /\ sweep' = [sweep EXCEPT !.rows = @ \ {e}]
  /\ device' = IF gone THEN Deleted(sweep.user, e) ELSE device
  /\ UNCHANGED <<member, registering, overlapped>>

Served ==
  /\ sweep.step = "serving" /\ sweep.user # Nothing /\ sweep.rows = {}
  /\ sweep' = [sweep EXCEPT !.user = Nothing]
  /\ UNCHANGED <<member, device, registering, overlapped>>

\* The e-mails follow; 15 minutes later the next sweep starts, also after one
\* that failed.
EndSweep ==
  /\ sweep.step = "failed" \/ (sweep.step = "serving" /\ sweep.todo = {} /\ sweep.user = Nothing)
  /\ sweep' = Idle
  /\ UNCHANGED <<member, device, registering, overlapped>>

Next ==
  \/ \E u \in Users, e \in Endpoints :
       (\E q \in Requests : CheckRegistration(q, u, e)) \/ DeleteDevice(u, e)
  \/ \E q \in Requests : Register(q) \/ RegistrationFails(q)
  \/ \E u \in Users : RemoveMember(u) \/ RestoreMember(u) \/ Skip(u) \/ Serve(u)
  \/ \E us \in SUBSET Users : StartSweep(us)
  \/ \E e \in Endpoints, gone \in BOOLEAN : Send(e, gone)
  \/ Served \/ EndSweep

Spec == Init /\ [][Next]_vars

-----------------------------------------------------------------------------
\* Every variable has its type.
TypeOK ==
  /\ member \subseteq Users
  /\ device \in [Endpoints -> Users \cup {Nothing}]
  /\ registering \in [Requests -> [user : Users, endpoint : Endpoints] \cup {Nothing}]
  /\ overlapped \subseteq Users
  /\ sweep \in [step : {"idle", "serving", "failed"}, todo : SUBSET Users,
                user : Users \cup {Nothing}, rows : SUBSET Endpoints]

\* Registrations, browsers that change hands, removals and endpoints that are
\* gone never bring a member over the limit at which a sweep stops for
\* everybody, unless two registrations of that member overlap.
SweepsGetThrough == overlapped = {} => sweep.step # "failed"

\* The same without the exception (server/careConfirmations.test.ts rejects a
\* registration over the limit).
DevicesWithinLimit == \A u \in Users : Cardinality(Devices(u)) <= MaxDevices
=============================================================================
