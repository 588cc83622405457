------------------------------ MODULE ClientStore ------------------------------
(***************************************************************************)
(* The store of the browser application (src/store/AppStore.tsx with       *)
(* src/lib/api.ts): loads that ask for the session and then for all data   *)
(* in parallel requests (one read here), writes followed by a silent load, *)
(* the check every 30 seconds, the browser's online and offline events.    *)
(* Loads overlap and nothing orders their results; a request ends within   *)
(* its timeout, but what a write did on the server is then unknown.        *)
(***************************************************************************)
EXTENDS Naturals

CONSTANTS
  Loads,       \* loads that can be under way at a time
  MaxVersion,  \* bound: changes of the care entries
  MaxFailures, \* bound: answers with an error that is not an outage
  Nothing      \* absent value

Versions == 0..MaxVersion

ASSUME BoundAssumption == MaxVersion \in Nat /\ MaxFailures \in Nat
ASSUME LoadsAssumption == Loads # {}
ASSUME NothingAssumption == Nothing \notin Loads \cup Versions \cup [summary : Versions, changed : BOOLEAN]

VARIABLES
  server,   \* reachable, session, entries (a version), closing of a month
  store,    \* serverStatus, session, isLoading, data
  load,     \* loads: step, silent, the data read
  check,    \* the answer of the interval's health check, Nothing between two
  write,    \* the write under way: kind, step, body, its load
  failures  \* error answers so far

vars == <<server, store, load, check, write, failures>>

-----------------------------------------------------------------------------
Closings == {Nothing} \cup [summary : Versions, changed : BOOLEAN]

NoData == [entries |-> 0, monthClosures |-> Nothing]

Data == [entries : Versions, monthClosures : Closings]

IdleLoad == [step |-> "idle", silent |-> TRUE, got |-> NoData]

NoWrite == [step |-> "idle"]

\* The provider is mounted: a first load, not silent.
Mounted ==
  [k \in Loads |-> IF k = CHOOSE l \in Loads : TRUE
                  THEN [IdleLoad EXCEPT !.step = "session", !.silent = FALSE] ELSE IdleLoad]

Init ==
  /\ server = [reachable |-> TRUE, session |-> TRUE, entries |-> 0, closing |-> Nothing]
  /\ store = [status |-> "checking", session |-> TRUE, loading |-> TRUE, data |-> NoData]
  /\ load = Mounted
  /\ check = Nothing
  /\ write = NoWrite
  /\ failures = 0

-----------------------------------------------------------------------------
(* Loads: reloadInternal                                                   *)

Started(l, silent) == [load EXCEPT ![l] = [IdleLoad EXCEPT !.step = "session", !.silent = silent]]

\* The load l ends and leaves the store as s.
Ends(l, s) ==
  /\ load' = [load EXCEPT ![l] = IdleLoad]
  /\ store' = IF load[l].silent THEN s ELSE [s EXCEPT !.loading = FALSE]

\* setUnauthenticatedState.
SignedOut == [store EXCEPT !.status = "online", !.session = FALSE, !.data = NoData]

Offline == [store EXCEPT !.status = "offline"]

LoadSession(l) ==
  /\ load[l].step = "session"
  /\ server.reachable
  /\ IF server.session
     THEN /\ load' = [load EXCEPT ![l].step = "parts"]
          /\ store' = [store EXCEPT !.session = TRUE]
     ELSE Ends(l, SignedOut)
  /\ UNCHANGED <<server, check, write, failures>>

\* The parallel requests are answered.
LoadData(l) ==
  /\ load[l].step = "parts"
  /\ server.reachable /\ server.session
  /\ load' = [load EXCEPT ![l].step = "loaded",
                          ![l].got = [entries |-> server.entries,
                                      monthClosures |-> server.closing]]
  /\ UNCHANGED <<server, store, check, write, failures>>

\* Their answers arrive, in whatever order loads have been started.
LoadDone(l) ==
  /\ load[l].step = "loaded"
  /\ Ends(l, [store EXCEPT !.status = "online", !.data = load[l].got])
  /\ UNCHANGED <<server, check, write, failures>>

\* A request is answered with 401, and the session then asked for is over.
LoadUnauthorized(l) ==
  /\ load[l].step = "parts"
  /\ server.reachable /\ ~server.session
  /\ Ends(l, SignedOut)
  /\ UNCHANGED <<server, check, write, failures>>

\* No connection, a timeout, or 502, 503, 504.
LoadUnavailable(l) ==
  /\ load[l].step # "idle"
  /\ ~server.reachable
  /\ Ends(l, Offline)
  /\ UNCHANGED <<server, check, write, failures>>

\* Any other error answer leaves the status alone.
LoadFails(l) ==
  /\ load[l].step # "idle"
  /\ server.reachable
  /\ failures < MaxFailures
  /\ failures' = failures + 1
  /\ Ends(l, store)
  /\ UNCHANGED <<server, check, write>>

\* The online event, the button of the banner and reload() of the pages.
Reload(l) ==
  /\ load[l] = IdleLoad
  /\ load' = Started(l, FALSE)
  /\ store' = [store EXCEPT !.loading = TRUE]
  /\ UNCHANGED <<server, check, write, failures>>

OfflineEvent ==
  /\ ~server.reachable
  /\ store' = Offline
  /\ UNCHANGED <<server, load, check, write, failures>>

-----------------------------------------------------------------------------
(* The interval of 30 seconds                                              *)

CheckServer ==
  /\ check = Nothing
  /\ check' = server.reachable
  /\ UNCHANGED <<server, store, load, write, failures>>

\* Seeded fault: only a store that has never loaded is loaded again.
AwaitsServerFirst == store.status = "checking"

\* The branch of an available server.
AwaitsServer == store.status = "offline"

CheckAnswered(l) ==
  /\ check # Nothing
  /\ check' = Nothing
  /\ IF ~check THEN store' = Offline /\ UNCHANGED load
     ELSE /\ IF AwaitsServer THEN load[l] = IdleLoad /\ load' = Started(l, TRUE)
             ELSE UNCHANGED load
          /\ UNCHANGED store
  /\ UNCHANGED <<server, write, failures>>

-----------------------------------------------------------------------------
(* Writes: performWrite                                                    *)

CanWrite == store.status = "online" /\ ~store.loading /\ store.session

SaveEntry ==
  /\ CanWrite /\ write = NoWrite
  /\ server.entries < MaxVersion
  /\ write' = [step |-> "sent", kind |-> "entry"]
  /\ UNCHANGED <<server, store, load, check, failures>>

\* closeMonth: the summary is computed from the data of the store.
CloseMonth ==
  /\ CanWrite /\ write = NoWrite
  /\ store.data.monthClosures = Nothing
  /\ write' = [step |-> "sent", kind |-> "close", summary |-> store.data.entries]
  /\ UNCHANGED <<server, store, load, check, failures>>

\* A change of an entry marks a closed month; the month is closed once.
Changed ==
  [server EXCEPT !.entries = @ + 1,
                 !.closing = IF @ = Nothing THEN Nothing ELSE [@ EXCEPT !.changed = TRUE]]

Written ==
  IF write.kind = "entry" THEN Changed
  ELSE [server EXCEPT !.closing =
          IF @ = Nothing THEN [summary |-> write.summary, changed |-> FALSE] ELSE @]

Writable == write.kind = "entry" => server.entries < MaxVersion

ServerWrites ==
  /\ write.step = "sent"
  /\ server.reachable /\ server.session /\ Writable
  /\ server' = Written
  /\ write' = [write EXCEPT !.step = "done"]
  /\ UNCHANGED <<store, load, check, failures>>

WriteAnswered(l) ==
  /\ write.step = "done"
  /\ load[l] = IdleLoad
  /\ load' = Started(l, TRUE)
  /\ write' = [step |-> "reloading", load |-> l]
  /\ UNCHANGED <<server, store, check, failures>>

\* The connection is lost, or the answer does not come in time: the server
\* may have written, or may still write.
WriteTimesOut ==
  /\ write.step \in {"sent", "done"}
  /\ ~server.reachable
  /\ server' \in IF write.step = "sent" /\ Writable THEN {server, Written} ELSE {server}
  /\ store' = Offline
  /\ write' = NoWrite
  /\ UNCHANGED <<load, check, failures>>

\* The server refuses: 401, 403, 404, 409 and the like.
WriteRefused ==
  /\ write.step = "sent"
  /\ server.reachable
  /\ write' = NoWrite
  /\ UNCHANGED <<server, store, load, check, failures>>

WriteEnds ==
  /\ write.step = "reloading"
  /\ load[write.load] = IdleLoad
  /\ write' = NoWrite
  /\ UNCHANGED <<server, store, load, check, failures>>

-----------------------------------------------------------------------------
(* The world                                                               *)

ReachabilityChanges ==
  /\ server' = [server EXCEPT !.reachable = ~@]
  /\ UNCHANGED <<store, load, check, write, failures>>

SessionEnds ==
  /\ server.session
  /\ server' = [server EXCEPT !.session = FALSE]
  /\ UNCHANGED <<store, load, check, write, failures>>

\* Signing in leaves the page: the store starts anew.
SignIn ==
  /\ server.reachable /\ ~server.session
  /\ store.status = "online" /\ ~store.session
  /\ server' = [server EXCEPT !.session = TRUE]
  /\ store' = [status |-> "checking", session |-> TRUE, loading |-> TRUE, data |-> NoData]
  /\ load' = Mounted
  /\ check' = Nothing
  /\ write' = NoWrite
  /\ UNCHANGED failures

OtherMemberWrites ==
  /\ server.entries < MaxVersion
  /\ server' = Changed
  /\ UNCHANGED <<store, load, check, write, failures>>

LoadGoesOn(l) ==
  \/ LoadSession(l) \/ LoadData(l) \/ LoadDone(l)
  \/ LoadUnauthorized(l) \/ LoadUnavailable(l)

Checks == CheckServer \/ \E l \in Loads : CheckAnswered(l)

WriteGoesOn ==
  ServerWrites \/ (\E l \in Loads : WriteAnswered(l)) \/ WriteTimesOut \/ WriteRefused \/ WriteEnds

Next ==
  \/ \E l \in Loads : LoadGoesOn(l) \/ LoadFails(l) \/ Reload(l)
  \/ OfflineEvent \/ Checks
  \/ SaveEntry \/ CloseMonth \/ WriteGoesOn
  \/ ReachabilityChanges \/ SessionEnds \/ SignIn \/ OtherMemberWrites

\* Requests end within their timeouts and the interval goes on.
Fairness ==
  /\ \A l \in Loads : WF_vars(LoadGoesOn(l))
  /\ WF_vars(Checks)
  /\ WF_vars(WriteGoesOn)

Spec == Init /\ [][Next]_vars /\ Fairness

-----------------------------------------------------------------------------
\* Every variable has its type.
TypeOK ==
  /\ server \in [reachable : BOOLEAN, session : BOOLEAN, entries : Versions, closing : Closings]
  /\ store \in [status : {"checking", "online", "offline"}, session : BOOLEAN,
                loading : BOOLEAN, data : Data]
  /\ load \in [Loads -> [step : {"idle", "session", "parts", "loaded"},
                         silent : BOOLEAN, got : Data]]
  /\ check \in BOOLEAN \cup {Nothing}
  /\ write.step \in {"idle", "sent", "done", "reloading"}
  /\ failures \in 0..MaxFailures

\* README: when the API is unavailable the application switches to a read-only
\* mode. It leaves that mode by itself: once the server stays reachable, a store
\* that is offline is online again, whatever loads, checks and writes overlap.
RecoversFromOutage ==
  <>[]server.reachable => (store.status = "offline" ~> store.status = "online")

\* Once the server stays reachable the store is not left checking for good.
FirstLoadIsRetried == <>[]server.reachable => <>(store.status # "checking")

\* A closing that is not marked as changed sums up the entries as they are.
ClosingSumsUpEntries ==
  server.closing # Nothing /\ ~server.closing.changed =>
    server.closing.summary = server.entries

\* Data that was on the server s, or has been written over since.
Past(s, data) ==
  /\ data.entries <= s.entries
  /\ data.monthClosures # Nothing =>
       /\ s.closing # Nothing
       /\ s.closing.summary = data.monthClosures.summary
       /\ data.monthClosures.changed => s.closing.changed

\* The application shows, and its loads bring, what was on the server at some
\* time; a closing it shows is there with the same summary, and with the mark
\* it shows. A closing sums up entries the server had (reloadInternal,
\* closeMonth).
ShowsThePast ==
  /\ Past(server, store.data)
  /\ \A l \in Loads : Past(server, load[l].got)
  /\ write.step \in {"sent", "done"} /\ write.kind = "close" => write.summary <= server.entries
  /\ server.closing # Nothing => server.closing.summary <= server.entries

\* While the application is loading, and refuses every write, a load is under
\* way whose end ends this (reloadInternal, reload).
LoadingIsEnded == store.loading => \E l \in Loads : load[l].step # "idle" /\ ~load[l].silent

\* What is written on the server leaves a closing its summary and its mark.
Kept(s, t) ==
  s.closing # Nothing =>
    /\ t.closing # Nothing
    /\ t.closing.summary = s.closing.summary
    /\ s.closing.changed => t.closing.changed

\* A month is closed once: whatever is written, loaded or lost, its closing
\* keeps its summary and its mark (closeMonth, performWrite), unless data are
\* erased or replaced as a whole, which this module leaves out.
ClosingsStay == [][Kept(server, server')]_vars
=============================================================================
