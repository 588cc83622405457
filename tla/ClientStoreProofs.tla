--------------------------- MODULE ClientStoreProofs ---------------------------
(***************************************************************************)
(* Proofs about the store of the browser application (ClientStore), for    *)
(* any number of overlapping loads, changes and errors: what it shows has  *)
(* been so on the server, and it does not stay loading without a load that *)
(* ends this.                                                              *)
(***************************************************************************)
EXTENDS ClientStore, TLAPS

\* The write under way, if there is one.
Writes ==
  {NoWrite} \cup [step : {"sent", "done"}, kind : {"entry"}]
    \cup [step : {"sent", "done"}, kind : {"close"}, summary : Versions]
    \cup [step : {"reloading"}, load : Loads]

LoadStates == [step : {"idle", "session", "parts", "loaded"}, silent : BOOLEAN, got : Data]

Servers == [reachable : BOOLEAN, session : BOOLEAN, entries : Versions, closing : Closings]

Stores == [status : {"checking", "online", "offline"}, session : BOOLEAN, loading : BOOLEAN, data : Data]

Typed == TypeOK /\ write \in Writes

-----------------------------------------------------------------------------
(* Types.                                                                  *)

\* What the server becomes by a write has its type.
LEMMA ServerWritesTyped ==
  ASSUME Typed, server.entries < MaxVersion
  PROVE  Changed \in Servers
  <1>1. server.entries + 1 \in Versions
    BY BoundAssumption DEF Typed, TypeOK, Versions
  <1>2. CASE server.closing = Nothing
    BY <1>1, <1>2 DEF Typed, TypeOK, Servers, Changed, Closings
  <1>3. CASE server.closing # Nothing
    <2>1. server.closing \in [summary : Versions, changed : BOOLEAN]
      BY <1>3 DEF Typed, TypeOK, Closings
    <2>2. [server.closing EXCEPT !.changed = TRUE] \in [summary : Versions, changed : BOOLEAN]
      BY <2>1
    <2>. QED  BY <1>1, <1>3, <2>2 DEF Typed, TypeOK, Servers, Changed, Closings
  <1>. QED  BY <1>2, <1>3

LEMMA WrittenTyped ==
  ASSUME Typed, write.step \in {"sent", "done"}, Writable
  PROVE  Written \in Servers
  <1>1. CASE write.kind = "entry"
    BY <1>1, ServerWritesTyped DEF Writable, Written
  <1>2. CASE write.kind # "entry"
    <2>1. write.summary \in Versions
      BY <1>2 DEF Typed, Writes, NoWrite
    <2>2. [summary |-> write.summary, changed |-> FALSE] \in Closings
      BY <2>1 DEF Closings
    <2>. QED  BY <1>2, <2>2 DEF Typed, TypeOK, Servers, Written
  <1>. QED  BY <1>1, <1>2

\* The loads of a store that has just been mounted.
LEMMA MountedTyped ==
  /\ NoData \in Data
  /\ IdleLoad \in LoadStates
  /\ Mounted \in [Loads -> LoadStates]
  <1>1. NoData \in Data
    BY BoundAssumption DEF NoData, Data, Versions, Closings
  <1>2. IdleLoad \in LoadStates
    BY <1>1 DEF IdleLoad, LoadStates
  <1>3. [IdleLoad EXCEPT !.step = "session", !.silent = FALSE]
          \in LoadStates
    BY <1>2 DEF LoadStates
  <1>. QED  BY <1>1, <1>2, <1>3 DEF Mounted

\* The first load of a store that has just been mounted is not silent.
LEMMA MountedIsBusy == \E l \in Loads : Mounted[l].step # "idle" /\ ~Mounted[l].silent
  <1>. DEFINE first == CHOOSE l \in Loads : TRUE
  <1>1. first \in Loads
    BY LoadsAssumption
  <1>2. Mounted[first] = [IdleLoad EXCEPT !.step = "session", !.silent = FALSE]
    BY <1>1 DEF Mounted
  <1>3. Mounted[first].step = "session" /\ Mounted[first].silent = FALSE
    BY <1>2 DEF IdleLoad
  <1>. QED  BY <1>1, <1>3

\* A load that starts or ends, and what it leaves of the store.
LEMMA LoadsTyped ==
  ASSUME Typed, NEW l \in Loads
  PROVE  /\ \A silent \in BOOLEAN : Started(l, silent) \in [Loads -> LoadStates]
         /\ [load EXCEPT ![l] = IdleLoad] \in [Loads -> LoadStates]
         /\ \A s \in Stores : Ends(l, s) => store' \in Stores /\ load' \in [Loads -> LoadStates]
         /\ SignedOut \in Stores /\ Offline \in Stores
         /\ store \in Stores /\ load \in [Loads -> LoadStates]
  <1>1. store \in Stores /\ load \in [Loads -> LoadStates]
    BY DEF Typed, TypeOK, Stores, LoadStates
  <1>2. \A silent \in BOOLEAN : Started(l, silent) \in [Loads -> LoadStates]
    <2>. TAKE silent \in BOOLEAN
    <2>1. [IdleLoad EXCEPT !.step = "session", !.silent = silent] \in LoadStates
      BY MountedTyped DEF LoadStates
    <2>. QED  BY <1>1, <2>1 DEF Started
  <1>3. [load EXCEPT ![l] = IdleLoad] \in [Loads -> LoadStates]
    BY <1>1, MountedTyped
  <1>4. \A s \in Stores : Ends(l, s) => store' \in Stores /\ load' \in [Loads -> LoadStates]
    BY <1>3 DEF Ends, Stores
  <1>5. SignedOut \in Stores /\ Offline \in Stores
    BY <1>1, MountedTyped DEF SignedOut, Offline, Stores
  <1>. QED  BY <1>1, <1>2, <1>3, <1>4, <1>5

\* A step of a load.
LEMMA LoadStepTyped ==
  ASSUME Typed, NEW l \in Loads, LoadGoesOn(l) \/ LoadFails(l) \/ Reload(l)
  PROVE  Typed'
  <1>1. Offline \in Stores /\ SignedOut \in Stores /\ store \in Stores /\ load \in [Loads -> LoadStates]
    BY LoadsTyped
  <1>2. ASSUME store' \in Stores, load' \in [Loads -> LoadStates], failures' \in 0..MaxFailures,
               UNCHANGED <<server, check, write>>
        PROVE  Typed'
    BY <1>2 DEF Typed, TypeOK, Stores, LoadStates
  <1>3. failures \in 0..MaxFailures
    BY DEF Typed, TypeOK
  <1>4. CASE LoadSession(l)
    <2>1. CASE server.session
      <3>1. [load EXCEPT ![l].step = "parts"] \in [Loads -> LoadStates]
        BY <1>1 DEF LoadStates
      <3>2. [store EXCEPT !.session = TRUE] \in Stores
        BY <1>1 DEF Stores
      <3>. QED  BY <1>2, <1>3, <1>4, <2>1, <3>1, <3>2 DEF LoadSession
    <2>2. CASE ~server.session
      BY <1>1, <1>2, <1>3, <1>4, <2>2, LoadsTyped DEF LoadSession
    <2>. QED  BY <2>1, <2>2
  <1>5. CASE LoadData(l)
    <2>1. [entries |-> server.entries, monthClosures |-> server.closing] \in Data
      BY DEF Typed, TypeOK, Data
    <2>2. load' \in [Loads -> LoadStates]
      BY <1>1, <1>5, <2>1 DEF LoadData, LoadStates
    <2>. QED  BY <1>1, <1>2, <1>3, <1>5, <2>2 DEF LoadData
  <1>6. CASE LoadDone(l)
    <2>1. [store EXCEPT !.status = "online", !.data = load[l].got] \in Stores
      BY <1>1 DEF Stores, LoadStates
    <2>. QED  BY <1>2, <1>3, <1>6, <2>1, LoadsTyped DEF LoadDone
  <1>7. CASE LoadUnauthorized(l)
    BY <1>1, <1>2, <1>3, <1>7, LoadsTyped DEF LoadUnauthorized
  <1>8. CASE LoadUnavailable(l)
    BY <1>1, <1>2, <1>3, <1>8, LoadsTyped DEF LoadUnavailable
  <1>9. CASE LoadFails(l)
    <2>1. failures' \in 0..MaxFailures
      BY <1>3, <1>9, BoundAssumption DEF LoadFails
    <2>. QED  BY <1>1, <1>2, <1>9, <2>1, LoadsTyped DEF LoadFails
  <1>10. CASE Reload(l)
    <2>1. [store EXCEPT !.loading = TRUE] \in Stores
      BY <1>1 DEF Stores
    <2>. QED  BY <1>2, <1>3, <1>10, <2>1, LoadsTyped DEF Reload
  <1>. QED  BY <1>4, <1>5, <1>6, <1>7, <1>8, <1>9, <1>10 DEF LoadGoesOn

\* Every step leaves every variable its type.
LEMMA TypedStep == Typed /\ [Next]_vars => Typed'
  <1>. SUFFICES ASSUME Typed, [Next]_vars PROVE Typed'
    OBVIOUS
  <1>. USE DEF Typed, TypeOK
  <1>1. CASE UNCHANGED vars
    BY <1>1 DEF vars
  <1>2. ASSUME NEW l \in Loads, LoadGoesOn(l) \/ LoadFails(l) \/ Reload(l) PROVE Typed'
    BY <1>2, LoadStepTyped
  <1>3. CASE OfflineEvent
    BY <1>3 DEF OfflineEvent, Offline
  <1>4. CASE Checks
    <2>1. CASE CheckServer
      BY <2>1 DEF CheckServer
    <2>2. ASSUME NEW l \in Loads, CheckAnswered(l) PROVE Typed'
      <3>1. Started(l, TRUE) \in [Loads -> LoadStates] /\ Offline \in Stores
        BY LoadsTyped
      <3>. QED  BY <2>2, <3>1 DEF CheckAnswered, LoadStates, Stores
    <2>. QED  BY <1>4, <2>1, <2>2 DEF Checks
  <1>5. CASE SaveEntry
    BY <1>5 DEF SaveEntry, Writes
  <1>6. CASE CloseMonth
    <2>1. store.data.entries \in Versions
      BY DEF Data
    <2>. QED  BY <1>6, <2>1 DEF CloseMonth, Writes
  <1>7. CASE WriteGoesOn
    <2>1. CASE ServerWrites
      <3>1. Written \in Servers
        BY <2>1, WrittenTyped DEF ServerWrites
      <3>2. [write EXCEPT !.step = "done"] \in Writes
        BY <2>1 DEF ServerWrites, Writes, NoWrite
      <3>. QED  BY <2>1, <3>1, <3>2 DEF ServerWrites, Servers
    <2>2. ASSUME NEW l \in Loads, WriteAnswered(l) PROVE Typed'
      <3>1. Started(l, TRUE) \in [Loads -> LoadStates]
        BY LoadsTyped
      <3>2. [step |-> "reloading", load |-> l] \in Writes
        BY DEF Writes
      <3>. QED  BY <2>2, <3>1, <3>2 DEF WriteAnswered, LoadStates
    <2>3. CASE WriteTimesOut
      <3>1. server' \in Servers
        BY <2>3, WrittenTyped DEF WriteTimesOut, Servers
      <3>2. store' \in Stores
        BY <2>3 DEF WriteTimesOut, Offline, Stores
      <3>. QED  BY <2>3, <3>1, <3>2 DEF WriteTimesOut, Servers, Stores, Writes, NoWrite
    <2>4. CASE WriteRefused \/ WriteEnds
      BY <2>4 DEF WriteRefused, WriteEnds, Writes, NoWrite
    <2>. QED  BY <1>7, <2>1, <2>2, <2>3, <2>4 DEF WriteGoesOn
  <1>8. CASE ReachabilityChanges \/ SessionEnds
    BY <1>8 DEF ReachabilityChanges, SessionEnds
  <1>9. CASE SignIn
    BY <1>9, MountedTyped DEF SignIn, LoadStates, Writes, NoWrite
  <1>10. CASE OtherMemberWrites
    <2>1. Changed \in Servers
      BY <1>10, ServerWritesTyped DEF OtherMemberWrites
    <2>. QED  BY <1>10, <2>1 DEF OtherMemberWrites, Servers
  <1>. QED  BY <1>1, <1>2, <1>3, <1>4, <1>5, <1>6, <1>7, <1>8, <1>9, <1>10 DEF Next

LEMMA TypedInit == Init => Typed
  BY MountedTyped, BoundAssumption DEF Init, Typed, TypeOK, LoadStates, Writes, NoWrite, Versions, Closings

LEMMA TypedHolds == Spec => []Typed
  BY TypedInit, TypedStep, PTL DEF Spec

\* Every variable has its type (AppStore).
THEOREM StoreTypes == Spec => []TypeOK
  <1>1. Typed => TypeOK
    BY DEF Typed
  <1>. QED  BY <1>1, TypedHolds, PTL

-----------------------------------------------------------------------------
(* What is shown.                                                          *)

\* No write takes anything back.
Grows(s, t) == s.entries <= t.entries /\ Kept(s, t)

\* A change of an entry takes nothing back.
LEMMA ChangeGrows ==
  ASSUME Typed
  PROVE  /\ Grows(server, Changed)
         /\ server.closing # Nothing => Changed.closing.summary = server.closing.summary
         /\ server.closing = Nothing => Changed.closing = Nothing
         /\ Changed.entries = server.entries + 1
  <1>1. server \in Servers /\ server.entries \in Nat
    BY BoundAssumption DEF Typed, TypeOK, Servers, Versions
  <1>2. CASE server.closing = Nothing
    BY <1>1, <1>2 DEF Grows, Kept, Changed, Servers
  <1>3. CASE server.closing # Nothing
    <2>1. server.closing \in [summary : Versions, changed : BOOLEAN]
      BY <1>1, <1>3 DEF Servers, Closings
    <2>. DEFINE marked == [server.closing EXCEPT !.changed = TRUE]
    <2>2. marked \in [summary : Versions, changed : BOOLEAN] /\ marked # Nothing
          /\ marked.summary = server.closing.summary /\ marked.changed
      BY <2>1, NothingAssumption
    <2>3. Changed.closing = marked /\ Changed.entries = server.entries + 1
      BY <1>1, <1>3 DEF Changed, Servers
    <2>. HIDE DEF marked
    <2>. QED  BY <1>1, <1>3, <2>2, <2>3 DEF Grows, Kept
  <1>. QED  BY <1>2, <1>3

\* So does the write of this browser.
LEMMA WriteGrows ==
  ASSUME Typed, ShowsThePast, write.step \in {"sent", "done"}
  PROVE  /\ Grows(server, Written)
         /\ Written.closing # Nothing => Written.closing.summary <= Written.entries
  <1>1. server \in Servers /\ server.entries \in Nat
    BY BoundAssumption DEF Typed, TypeOK, Servers, Versions
  <1>2. CASE write.kind = "entry"
    <2>1. Written = Changed
      BY <1>2 DEF Written
    <2>2. server.closing # Nothing => server.closing.summary \in Nat /\ server.closing.summary <= server.entries
      BY <1>1, BoundAssumption DEF ShowsThePast, Servers, Closings, Versions
    <2>. QED  BY <1>1, <2>1, <2>2, ChangeGrows
  <1>3. CASE write.kind # "entry"
    <2>1. write.kind = "close" /\ write.summary \in Versions /\ write.summary <= server.entries
      BY <1>3 DEF ShowsThePast, Typed, Writes, NoWrite
    <2>. DEFINE new == [summary |-> write.summary, changed |-> FALSE]
    <2>2. new # Nothing /\ new.summary = write.summary
      <3>1. new \in [summary : Versions, changed : BOOLEAN]
        BY <2>1
      <3>. QED  BY <3>1, NothingAssumption
    <2>3. Written = [server EXCEPT !.closing = IF server.closing = Nothing THEN new ELSE server.closing]
      BY <1>3 DEF Written
    <2>4. Written.entries = server.entries
          /\ Written.closing = IF server.closing = Nothing THEN new ELSE server.closing
      BY <1>1, <2>3 DEF Servers
    <2>. HIDE DEF new
    <2>. QED  BY <1>1, <2>1, <2>2, <2>4 DEF Grows, Kept, ShowsThePast
  <1>. QED  BY <1>2, <1>3

\* Nothing takes anything back.
LEMMA ServerGrows ==
  ASSUME Typed, ShowsThePast, [Next]_vars
  PROVE  /\ Grows(server, server')
         /\ server'.closing # Nothing => server'.closing.summary <= server'.entries
  <1>1. server \in Servers /\ server.entries \in Nat
    BY BoundAssumption DEF Typed, TypeOK, Servers, Versions
  <1>2. CASE UNCHANGED server
    BY <1>1, <1>2 DEF Grows, Kept, ShowsThePast
  <1>3. CASE write.step \in {"sent", "done"} /\ server' = Written
    BY <1>3, WriteGrows
  <1>4. CASE ReachabilityChanges \/ SessionEnds \/ SignIn
    <2>1. server'.entries = server.entries /\ server'.closing = server.closing
      BY <1>1, <1>4 DEF ReachabilityChanges, SessionEnds, SignIn, Servers
    <2>. QED  BY <1>1, <2>1 DEF Grows, Kept, ShowsThePast
  <1>5. CASE OtherMemberWrites
    <2>1. server' = Changed
      BY <1>5 DEF OtherMemberWrites
    <2>2. server.closing # Nothing => server.closing.summary \in Nat /\ server.closing.summary <= server.entries
      BY <1>1, BoundAssumption DEF ShowsThePast, Servers, Closings, Versions
    <2>. QED  BY <1>1, <2>1, <2>2, ChangeGrows
  <1>6. UNCHANGED server \/ (write.step \in {"sent", "done"} /\ server' = Written)
          \/ ReachabilityChanges \/ SessionEnds \/ SignIn \/ OtherMemberWrites
    BY DEF Next, vars, LoadGoesOn, LoadSession, LoadData, LoadDone, LoadUnauthorized, LoadUnavailable, LoadFails,
           Reload, OfflineEvent, Checks, CheckServer, CheckAnswered, SaveEntry, CloseMonth, WriteGoesOn,
           ServerWrites, WriteAnswered, WriteTimesOut, WriteRefused, WriteEnds
  <1>. QED  BY <1>2, <1>3, <1>4, <1>5, <1>6

\* What was on the server before was there.
LEMMA PastStays ==
  ASSUME NEW s \in Servers, NEW t \in Servers, Grows(s, t), NEW data \in Data, Past(s, data)
  PROVE  Past(t, data)
  <1>1. s.entries \in Nat /\ t.entries \in Nat /\ data.entries \in Nat
    BY BoundAssumption DEF Servers, Data, Versions
  <1>. QED  BY <1>1 DEF Grows, Kept, Past

\* What is loaded was on the server, and the store starts with nothing.
LEMMA NothingIsPast == \A s \in Servers : Past(s, NoData)
  BY BoundAssumption DEF Past, NoData, Servers, Versions

\* What the store shows is what it showed, what a load has got, or nothing;
\* what a load has got is what it had, what the server has, or nothing.
LEMMA ShownComesFrom ==
  ASSUME Typed, [Next]_vars
  PROVE  /\ store'.data \in {store.data, NoData} \cup {load[l].got : l \in Loads}
         /\ \A l \in Loads : load'[l].got \in
              {load[l].got, NoData, [entries |-> server.entries, monthClosures |-> server.closing]}
  <1>1. store \in Stores /\ load \in [Loads -> LoadStates]
    BY DEF Typed, TypeOK, Stores, LoadStates
  <1>2. SignedOut.data = NoData /\ Offline.data = store.data
    BY <1>1 DEF SignedOut, Offline, Stores
  <1>3. ASSUME NEW l \in Loads, NEW silent \in BOOLEAN, load' = Started(l, silent)
        PROVE  \A k \in Loads : load'[k].got \in {load[k].got, NoData}
    BY <1>1, <1>3 DEF Started, IdleLoad
  <1>4. ASSUME NEW l \in Loads, NEW s \in Stores, Ends(l, s)
        PROVE  store'.data = s.data /\ \A k \in Loads : load'[k].got \in {load[k].got, NoData}
    BY <1>1, <1>4 DEF Ends, IdleLoad, Stores
  <1>5. Offline \in Stores /\ SignedOut \in Stores
    BY <1>1, MountedTyped DEF SignedOut, Offline, Stores
  <1>6. CASE UNCHANGED <<store, load>>
    BY <1>6
  <1>7. ASSUME NEW l \in Loads, LoadGoesOn(l) \/ LoadFails(l) \/ Reload(l)
        PROVE  /\ store'.data \in {store.data, NoData} \cup {load[k].got : k \in Loads}
               /\ \A k \in Loads : load'[k].got \in
                    {load[k].got, NoData, [entries |-> server.entries, monthClosures |-> server.closing]}
    <2>1. CASE LoadSession(l)
      <3>1. CASE server.session
        BY <1>1, <2>1, <3>1 DEF LoadSession, Stores, LoadStates
      <3>. QED  BY <1>2, <1>4, <1>5, <2>1, <3>1 DEF LoadSession
    <2>2. CASE LoadData(l)
      BY <1>1, <2>2 DEF LoadData, LoadStates
    <2>3. CASE LoadDone(l)
      <3>. DEFINE s == [store EXCEPT !.status = "online", !.data = load[l].got]
      <3>1. s \in Stores /\ s.data = load[l].got
        BY <1>1 DEF Stores, LoadStates
      <3>2. Ends(l, s)
        BY <2>3 DEF LoadDone
      <3>. HIDE DEF s
      <3>. QED  BY <1>4, <3>1, <3>2
    <2>4. CASE LoadUnauthorized(l)
      BY <1>2, <1>4, <1>5, <2>4 DEF LoadUnauthorized
    <2>5. CASE LoadUnavailable(l)
      BY <1>2, <1>4, <1>5, <2>5 DEF LoadUnavailable
    <2>6. CASE LoadFails(l)
      BY <1>1, <1>4, <2>6 DEF LoadFails
    <2>7. CASE Reload(l)
      BY <1>1, <1>3, <2>7 DEF Reload, Stores
    <2>. QED  BY <1>7, <2>1, <2>2, <2>3, <2>4, <2>5, <2>6, <2>7 DEF LoadGoesOn
  <1>8. ASSUME NEW l \in Loads, CheckAnswered(l) \/ WriteAnswered(l)
        PROVE  store'.data = store.data /\ \A k \in Loads : load'[k].got \in {load[k].got, NoData}
    BY <1>2, <1>3, <1>8 DEF CheckAnswered, WriteAnswered
  <1>9. CASE OfflineEvent \/ WriteTimesOut
    BY <1>2, <1>9 DEF OfflineEvent, WriteTimesOut
  <1>10. CASE SignIn
    BY <1>10 DEF SignIn, Mounted, IdleLoad
  <1>11. \/ UNCHANGED <<store, load>>
         \/ \E l \in Loads : LoadGoesOn(l) \/ LoadFails(l) \/ Reload(l) \/ CheckAnswered(l) \/ WriteAnswered(l)
         \/ OfflineEvent \/ WriteTimesOut \/ SignIn
    BY DEF Next, vars, Checks, CheckServer, SaveEntry, CloseMonth, WriteGoesOn, ServerWrites, WriteRefused, WriteEnds,
           ReachabilityChanges, SessionEnds, OtherMemberWrites
  <1>. QED  BY <1>6, <1>7, <1>8, <1>9, <1>10, <1>11

\* What the browser closes a month with was there.
LEMMA SummaryStaysPast ==
  ASSUME Typed, ShowsThePast, [Next]_vars, server.entries <= server'.entries, server'.entries \in Nat,
         write'.step \in {"sent", "done"}, write'.kind = "close"
  PROVE  write'.summary <= server'.entries
  <1>1. server.entries \in Nat /\ store.data.entries \in Nat
    BY BoundAssumption DEF Typed, TypeOK, Data, Versions
  <1>2. CASE CloseMonth
    <2>1. write'.summary = store.data.entries
      BY <1>2 DEF CloseMonth
    <2>. QED  BY <1>1, <2>1 DEF ShowsThePast, Past
  <1>3. CASE write.step \in {"sent", "done"} /\ write.kind = "close" /\ write'.summary = write.summary
    <2>1. write.summary \in Nat
      BY <1>3, BoundAssumption DEF Typed, Writes, NoWrite, Versions
    <2>. QED  BY <1>1, <1>3, <2>1 DEF ShowsThePast
  <1>4. CASE ServerWrites
    <2>1. write'.step = "done" /\ write'.kind = write.kind /\ write'.summary = write.summary /\ write.step = "sent"
      BY <1>4 DEF ServerWrites, Typed, Writes, NoWrite
    <2>. QED  BY <1>3, <2>1
  <1>5. \/ CloseMonth \/ ServerWrites \/ UNCHANGED write
        \/ write' = NoWrite \/ write'.step = "reloading" \/ write' = [step |-> "sent", kind |-> "entry"]
    <2>1. ASSUME NEW l \in Loads, LoadGoesOn(l) \/ LoadFails(l) \/ Reload(l) \/ CheckAnswered(l)
          PROVE  UNCHANGED write
      BY <2>1 DEF LoadGoesOn, LoadSession, LoadData, LoadDone, LoadUnauthorized, LoadUnavailable, LoadFails, Reload,
             CheckAnswered
    <2>2. ASSUME NEW l \in Loads, WriteAnswered(l) PROVE write'.step = "reloading"
      BY <2>2 DEF WriteAnswered
    <2>3. CASE OfflineEvent \/ CheckServer \/ ReachabilityChanges \/ SessionEnds \/ OtherMemberWrites
      BY <2>3 DEF OfflineEvent, CheckServer, ReachabilityChanges, SessionEnds, OtherMemberWrites
    <2>4. CASE SaveEntry \/ WriteTimesOut \/ WriteRefused \/ WriteEnds \/ SignIn
      BY <2>4 DEF SaveEntry, WriteTimesOut, WriteRefused, WriteEnds, SignIn
    <2>. QED  BY <2>1, <2>2, <2>3, <2>4 DEF Next, vars, Checks, WriteGoesOn
  <1>. QED  BY <1>2, <1>3, <1>4, <1>5 DEF NoWrite

\* Every step shows what has been so.
LEMMA ShownStep == ASSUME Typed, ShowsThePast, Typed', [Next]_vars PROVE ShowsThePast'
  <1>1. server \in Servers /\ server' \in Servers /\ server'.entries \in Nat
    BY BoundAssumption DEF Typed, TypeOK, Servers, Versions
  <1>2. Grows(server, server') /\ (server'.closing # Nothing => server'.closing.summary <= server'.entries)
    BY ServerGrows
  <1>3. store.data \in Data /\ \A l \in Loads : load[l].got \in Data
    BY DEF Typed, TypeOK
  <1>4. Past(server', store.data) /\ \A l \in Loads : Past(server', load[l].got)
    BY <1>1, <1>2, <1>3, PastStays DEF ShowsThePast
  <1>5. Past(server', NoData)
    BY <1>1, NothingIsPast
  <1>6. Past(server', [entries |-> server.entries, monthClosures |-> server.closing])
    BY <1>2 DEF Grows, Kept, Past
  <1>7. Past(server', store'.data)
    BY <1>4, <1>5, ShownComesFrom
  <1>8. \A l \in Loads : Past(server', load'[l].got)
    BY <1>4, <1>5, <1>6, ShownComesFrom
  <1>9. write'.step \in {"sent", "done"} /\ write'.kind = "close" => write'.summary <= server'.entries
    BY <1>1, <1>2, SummaryStaysPast DEF Grows
  <1>. QED  BY <1>2, <1>7, <1>8, <1>9 DEF ShowsThePast

\* The application shows what has been so (reloadInternal, closeMonth).
THEOREM WhatIsShownWasThere == Spec => []ShowsThePast
  <1>1. Init => ShowsThePast
    <2>. SUFFICES ASSUME Init PROVE ShowsThePast
      OBVIOUS
    <2>1. server \in Servers /\ server.closing = Nothing
      BY TypedInit DEF Init, Typed, TypeOK, Servers
    <2>2. store.data = NoData /\ \A l \in Loads : load[l].got = NoData
      BY DEF Init, Mounted, IdleLoad
    <2>3. write.step = "idle"
      BY DEF Init, NoWrite
    <2>. QED  BY <2>1, <2>2, <2>3, NothingIsPast DEF ShowsThePast
  <1>2. Typed /\ Typed' /\ ShowsThePast /\ [Next]_vars => ShowsThePast'
    BY ShownStep
  <1>. QED  BY <1>1, <1>2, TypedHolds, PTL DEF Spec

\* A closing is neither lost nor rewritten (closeMonth, performWrite).
THEOREM ClosingsAreKept == Spec => ClosingsStay
  <1>1. Typed /\ ShowsThePast /\ [Next]_vars => [Kept(server, server')]_vars
    BY ServerGrows DEF Grows
  <1>. QED  BY <1>1, TypedHolds, WhatIsShownWasThere, PTL DEF Spec, ClosingsStay

-----------------------------------------------------------------------------
(* Loading.                                                                *)

Busy(l) == load[l].step # "idle" /\ ~load[l].silent

\* A load that ends the state of loading is not lost before it ends.
LEMMA LoadingStep == ASSUME Typed, LoadingIsEnded, [Next]_vars PROVE LoadingIsEnded'
  <1>1. store \in Stores /\ load \in [Loads -> LoadStates]
    BY DEF Typed, TypeOK, Stores, LoadStates
  <1>2. SignedOut.loading = store.loading /\ Offline.loading = store.loading
    BY <1>1 DEF SignedOut, Offline, Stores
  <1>3. Offline \in Stores /\ SignedOut \in Stores
    BY <1>1, MountedTyped DEF SignedOut, Offline, Stores
  <1>4. ASSUME store'.loading => store.loading, \A k \in Loads : Busy(k) => Busy(k)'
        PROVE  LoadingIsEnded'
    BY <1>4 DEF LoadingIsEnded, Busy
  <1>5. ASSUME NEW l \in Loads, NEW s \in Stores, s.loading = store.loading, Ends(l, s)
        PROVE  LoadingIsEnded'
    <2>1. CASE load[l].silent
      <3>1. store' = s
        BY <1>5, <2>1 DEF Ends
      <3>2. \A k \in Loads : Busy(k) => Busy(k)'
        BY <1>1, <1>5, <2>1 DEF Ends, Busy
      <3>. QED  BY <1>4, <1>5, <3>1, <3>2
    <2>2. CASE ~load[l].silent
      <3>1. store'.loading = FALSE
        BY <1>5, <2>2 DEF Ends, Stores
      <3>. QED  BY <3>1 DEF LoadingIsEnded
    <2>. QED  BY <2>1, <2>2
  <1>6. ASSUME NEW l \in Loads, load[l] = IdleLoad, load' = Started(l, TRUE)
        PROVE  \A k \in Loads : Busy(k) => Busy(k)'
    BY <1>1, <1>6 DEF Started, IdleLoad, Busy
  <1>7. CASE UNCHANGED load /\ store'.loading = store.loading
    BY <1>4, <1>7 DEF Busy
  <1>8. ASSUME NEW l \in Loads, LoadGoesOn(l) \/ LoadFails(l) \/ Reload(l) PROVE LoadingIsEnded'
    <2>1. CASE LoadSession(l)
      <3>1. CASE server.session
        <4>1. store'.loading = store.loading
          BY <1>1, <2>1, <3>1 DEF LoadSession, Stores
        <4>2. \A k \in Loads : Busy(k) => Busy(k)'
          BY <1>1, <2>1, <3>1 DEF LoadSession, LoadStates, Busy
        <4>. QED  BY <1>4, <4>1, <4>2
      <3>. QED  BY <1>2, <1>3, <1>5, <2>1, <3>1 DEF LoadSession
    <2>2. CASE LoadData(l)
      <3>1. \A k \in Loads : Busy(k) => Busy(k)'
        BY <1>1, <2>2 DEF LoadData, LoadStates, Busy
      <3>. QED  BY <1>4, <2>2, <3>1 DEF LoadData
    <2>3. CASE LoadDone(l)
      <3>. DEFINE s == [store EXCEPT !.status = "online", !.data = load[l].got]
      <3>1. s \in Stores /\ s.loading = store.loading
        BY <1>1 DEF Stores, LoadStates
      <3>2. Ends(l, s)
        BY <2>3 DEF LoadDone
      <3>. HIDE DEF s
      <3>. QED  BY <1>5, <3>1, <3>2
    <2>4. CASE LoadUnauthorized(l)
      BY <1>2, <1>3, <1>5, <2>4 DEF LoadUnauthorized
    <2>5. CASE LoadUnavailable(l)
      BY <1>2, <1>3, <1>5, <2>5 DEF LoadUnavailable
    <2>6. CASE LoadFails(l)
      BY <1>1, <1>5, <2>6 DEF LoadFails
    <2>7. CASE Reload(l)
      <3>1. Busy(l)'
        BY <1>1, <2>7 DEF Reload, Started, IdleLoad, Busy
      <3>. QED  BY <3>1 DEF LoadingIsEnded, Busy
    <2>. QED  BY <1>8, <2>1, <2>2, <2>3, <2>4, <2>5, <2>6, <2>7 DEF LoadGoesOn
  <1>9. ASSUME NEW l \in Loads, CheckAnswered(l) PROVE LoadingIsEnded'
    <2>1. CASE ~check
      BY <1>2, <1>7, <1>9, <2>1 DEF CheckAnswered
    <2>2. CASE check
      BY <1>4, <1>6, <1>7, <1>9, <2>2 DEF CheckAnswered
    <2>. QED  BY <2>1, <2>2
  <1>10. ASSUME NEW l \in Loads, WriteAnswered(l) PROVE LoadingIsEnded'
    BY <1>4, <1>6, <1>10 DEF WriteAnswered
  <1>11. CASE OfflineEvent \/ WriteTimesOut
    BY <1>2, <1>7, <1>11 DEF OfflineEvent, WriteTimesOut
  <1>12. CASE SignIn
    BY <1>12, MountedIsBusy DEF SignIn, LoadingIsEnded
  <1>13. \/ UNCHANGED <<store, load>>
         \/ \E l \in Loads : LoadGoesOn(l) \/ LoadFails(l) \/ Reload(l) \/ CheckAnswered(l) \/ WriteAnswered(l)
         \/ OfflineEvent \/ WriteTimesOut \/ SignIn
    BY DEF Next, vars, Checks, CheckServer, SaveEntry, CloseMonth, WriteGoesOn, ServerWrites, WriteRefused, WriteEnds,
           ReachabilityChanges, SessionEnds, OtherMemberWrites
  <1>. QED  BY <1>7, <1>8, <1>9, <1>10, <1>11, <1>12, <1>13

\* The application is not left loading: a load that ends it is under way
\* (reloadInternal, reload).
THEOREM NotLeftLoading == Spec => []LoadingIsEnded
  <1>1. Init => LoadingIsEnded
    BY MountedIsBusy DEF Init, LoadingIsEnded
  <1>2. Typed /\ LoadingIsEnded /\ [Next]_vars => LoadingIsEnded'
    BY LoadingStep
  <1>. QED  BY <1>1, <1>2, TypedHolds, PTL DEF Spec
=============================================================================
