------------------------------ MODULE OfflineShell ------------------------------
(***************************************************************************)
(* The service worker of the browser application (src/public/sw.js), the   *)
(* code of the pages that registers and removes it (src/src/lib/           *)
(* serviceWorker.ts, pwaInstall.ts, store/AppStore.tsx), and what the      *)
(* server answers them (src/server/index.ts). Releases are deployed, the   *)
(* session ends, the network goes and comes back meanwhile. Of the fixed   *)
(* files only the page is modelled, not the icons and the manifest.        *)
(***************************************************************************)
EXTENDS Integers

CONSTANTS
  Releases, First,  \* releases of the application; the one deployed first
  CacheName,        \* CACHE_NAME of each release's worker
  Tabs,
  Nothing           \* absent value

ReleaseAssumption == First \in Releases /\ Nothing \notin {CacheName[r] : r \in Releases}

VARIABLES
  server,      \* its release, whether the browser has a session and a network
  worker,      \* registered worker, by its cache's name, and an installing one
  cache,       \* the caches, of each what is stored under which key
  tab,         \* the pages
  late,        \* puts that nothing waits for
  marker,      \* PWA_STORAGE_ACTIVATED_KEY
  subscribed   \* the registration has a push subscription

vars == <<server, worker, cache, tab, late, marker, subscribed>>

Names == {CacheName[r] : r \in Releases}

\* "/index.html", and the asset of each release: its name has the hash.
Keys == {<<"page", First>>} \cup ({"asset"} \X Releases)

PageKey == <<"page", First>>

\* What an answer holds, and whether it may be stored.
Answers == [what : {"app", "asset", "other"}, of : Releases, ok : BOOLEAN]

Failed == [what |-> "other", of |-> First, ok |-> FALSE]

Closed == [step |-> "closed", of |-> First, control |-> Nothing, found |-> [worker |-> FALSE, push |-> FALSE]]

Empty == [n \in Names |-> [k \in Keys |-> Nothing]]

\* A browser that was never here, or one where an earlier release registered
\* its worker unasked.
Init ==
  /\ server = [release |-> First, session |-> TRUE, online |-> TRUE]
  /\ worker \in [active : {Nothing, CacheName[First]}, installing : {Nothing}]
  /\ cache = IF worker.active = Nothing THEN Empty
             ELSE [Empty EXCEPT ![worker.active][PageKey] = [what |-> "app", of |-> First, ok |-> TRUE]]
  /\ tab = [t \in Tabs |-> Closed]
  /\ late = {}
  /\ marker = FALSE /\ subscribed = FALSE

-----------------------------------------------------------------------------
(* The server                                                              *)

\* A signed-out visitor of the application is sent to the login, whose answer
\* is opaque; the legal pages are everybody's.
PageServed(path) ==
  IF path = "legal" THEN [what |-> "other", of |-> server.release, ok |-> TRUE]
  ELSE IF server.session THEN [what |-> "app", of |-> server.release, ok |-> TRUE]
  ELSE Failed

\* Seeded fault: a file that does not exist is answered with the page too.
FallbackServed(r) ==
  IF r = server.release THEN [what |-> "asset", of |-> r, ok |-> TRUE]
  ELSE [what |-> "app", of |-> server.release, ok |-> TRUE]

\* A file is served to everybody; one of another release is not found.
AssetServed(r) ==
  IF r = server.release THEN [what |-> "asset", of |-> r, ok |-> TRUE] ELSE Failed

Deploy(r) ==
  /\ r > server.release
  /\ server' = [server EXCEPT !.release = r]
  /\ UNCHANGED <<worker, cache, tab, late, marker, subscribed>>

SessionOrNetworkChanges ==
  /\ \/ server' = [server EXCEPT !.session = ~@]
     \/ server' = [server EXCEPT !.online = ~@]
  /\ UNCHANGED <<worker, cache, tab, late, marker, subscribed>>

-----------------------------------------------------------------------------
(* The worker                                                              *)

\* caches.match looks into every cache.
Matches(key) == {cache[n][key] : n \in Names} \ {Nothing}

IsNetworkOnly(path) == path = "legal"

\* isCacheableNavigationResponse.
IsCacheablePage(path, answer) == ~IsNetworkOnly(path) /\ answer.ok

\* A navigation: through the worker if one is registered, which then controls
\* the page. It goes to the network first and stores the page.
Navigate(t, path) ==
  /\ LET by == worker.active
         Shown(answer) ==
           tab' = [tab EXCEPT ![t] =
             [Closed EXCEPT !.step = IF answer.what = "app" THEN "loading" ELSE "other",
                            !.of = answer.of,
                            !.control = IF answer.ok THEN by ELSE Nothing]]
     IN
       IF server.online
       THEN /\ Shown(PageServed(path))
            /\ cache' = IF by # Nothing /\ IsCacheablePage(path, PageServed(path))
                        THEN [cache EXCEPT ![by][PageKey] = PageServed(path)] ELSE cache
       ELSE /\ IF by = Nothing \/ IsNetworkOnly(path) \/ Matches(PageKey) = {} THEN Shown(Failed)
               ELSE \E answer \in Matches(PageKey) : Shown(answer)
            /\ UNCHANGED cache
  /\ UNCHANGED <<server, worker, late, marker, subscribed>>

\* The page asks for its asset: from a cache, or from the network; then it is
\* stored, and nothing waits for that.
LoadAsset(t) ==
  LET key == <<"asset", tab[t].of>>
      by == tab[t].control
      Got(answer) ==
        tab' = [tab EXCEPT ![t].step = IF answer.what = "asset" THEN "running" ELSE "other"]
  IN
    /\ tab[t].step = "loading"
    /\ IF by # Nothing /\ Matches(key) # {}
       THEN (\E answer \in Matches(key) : Got(answer)) /\ UNCHANGED late
       ELSE LET answer == IF server.online THEN AssetServed(tab[t].of) ELSE Failed IN
              /\ Got(answer)
              /\ late' = IF by # Nothing /\ answer.ok
                         THEN late \cup {[cache |-> by, key |-> key, answer |-> answer]} ELSE late
    /\ UNCHANGED <<server, worker, cache, marker, subscribed>>

Put(p) ==
  /\ p \in late
  /\ late' = late \ {p}
  /\ cache' = [cache EXCEPT ![p.cache][p.key] = p.answer]
  /\ UNCHANGED <<server, worker, tab, marker, subscribed>>

\* install, skipWaiting and activate: the page is stored, other caches of the
\* application are deleted, and the open pages get the worker.
Install ==
  LET n == worker.installing IN
    /\ n # Nothing
    /\ IF server.online
       THEN /\ worker' = [active |-> n, installing |-> Nothing]
            /\ cache' = [m \in Names |->
                 IF m = n
                 THEN [cache[n] EXCEPT ![PageKey] = [what |-> "app", of |-> server.release, ok |-> TRUE]]
                 ELSE [k \in Keys |-> Nothing]]
            /\ tab' = [t \in Tabs |-> IF tab[t].step = "closed" THEN tab[t]
                                      ELSE [tab[t] EXCEPT !.control = n]]
       ELSE worker' = [worker EXCEPT !.installing = Nothing] /\ UNCHANGED <<cache, tab>>
    /\ UNCHANGED <<server, late, marker, subscribed>>

\* The browser looks for another worker after a navigation.
UpdateWorker ==
  /\ worker.active # Nothing /\ server.online
  /\ worker.installing = Nothing /\ CacheName[server.release] # worker.active
  /\ worker' = [worker EXCEPT !.installing = CacheName[server.release]]
  /\ UNCHANGED <<server, cache, tab, late, marker, subscribed>>

-----------------------------------------------------------------------------
(* The pages                                                               *)

\* register: resolves before the worker is installed; of a worker that is
\* registered already nothing happens.
Registers ==
  /\ server.online
  /\ worker' = IF CacheName[server.release] \in {worker.active, worker.installing} THEN worker
               ELSE [worker EXCEPT !.installing = CacheName[server.release]]
  /\ marker' = TRUE

\* initializeOptionalServiceWorker, when the page has loaded: as a standalone
\* application or with the marker it registers, otherwise it looks for
\* registrations and their subscriptions.
Initialize(t) ==
  /\ tab[t].step = "running"
  /\ \/ Registers /\ tab' = [tab EXCEPT ![t].step = "open"]
     \/ /\ ~marker
        /\ tab' = [tab EXCEPT ![t].step = "checked",
             ![t].found = [worker |-> worker.active # Nothing \/ worker.installing # Nothing,
                           push |-> subscribed]]
        /\ UNCHANGED <<worker, marker>>
     \/ ~server.online /\ tab' = [tab EXCEPT ![t].step = "open"] /\ UNCHANGED <<worker, marker>>
  /\ UNCHANGED <<server, cache, late, subscribed>>

\* With a subscription the marker is made up for; without one the
\* registrations found go, and the caches. Pages keep the worker they have.
Finish(t) ==
  /\ tab[t].step = "checked"
  /\ IF tab[t].found.push
     THEN marker' = TRUE /\ UNCHANGED <<worker, cache, subscribed>>
     ELSE /\ cache' = Empty
          /\ IF tab[t].found.worker
             THEN worker' = [active |-> Nothing, installing |-> Nothing] /\ subscribed' = FALSE
             ELSE UNCHANGED <<worker, subscribed>>
          /\ UNCHANGED marker
  /\ tab' = [tab EXCEPT ![t].step = "open", ![t].found = Closed.found]
  /\ UNCHANGED <<server, late>>

\* promptPwaInstall, appinstalled and registerPushSubscription.
Activate(t) ==
  /\ tab[t].step \in {"running", "checked", "open"}
  /\ ~marker
  /\ Registers
  /\ UNCHANGED <<server, cache, tab, late, subscribed>>

Subscribe(t) ==
  /\ tab[t].step \in {"running", "checked", "open"}
  /\ marker /\ worker.active # Nothing /\ ~subscribed /\ server.online
  /\ subscribed' = TRUE
  /\ UNCHANGED <<server, worker, cache, tab, late, marker>>

\* The browser loses the page's storage, or refuses it.
LoseMarker ==
  /\ marker
  /\ marker' = FALSE
  /\ UNCHANGED <<server, worker, cache, tab, late, subscribed>>

-----------------------------------------------------------------------------
Next ==
  \/ \E r \in Releases : Deploy(r)
  \/ SessionOrNetworkChanges
  \/ \E p \in late : Put(p)
  \/ Install \/ UpdateWorker \/ LoseMarker
  \/ \E t \in Tabs :
       \/ \E path \in {"app", "legal"} : Navigate(t, path)
       \/ LoadAsset(t) \/ Initialize(t) \/ Finish(t) \/ Activate(t) \/ Subscribe(t)

Spec == Init /\ [][Next]_vars

-----------------------------------------------------------------------------
TypeOK ==
  /\ server \in [release : Releases, session : BOOLEAN, online : BOOLEAN]
  /\ worker \in [active : Names \cup {Nothing}, installing : Names \cup {Nothing}]
  /\ cache \in [Names -> [Keys -> Answers \cup {Nothing}]]
  /\ tab \in [Tabs -> [step : {"closed", "loading", "running", "checked", "open", "other"},
                       of : Releases, control : Names \cup {Nothing},
                       found : [worker : BOOLEAN, push : BOOLEAN]]]
  /\ late \subseteq [cache : Names, key : Keys, answer : Answers]
  /\ marker \in BOOLEAN /\ subscribed \in BOOLEAN

\* A cache holds as page the application's, never a login, a legal page or an
\* error, and as an asset what it is named for, whatever is deployed, signed
\* out or cut off between a request and its put (isCacheableNavigationResponse,
\* responseAllowsStorage, isSpaFallbackRequest).
OnlyTheAppIsCached ==
  \A n \in Names : \A k \in Keys :
    cache[n][k] # Nothing =>
      IF k = PageKey THEN cache[n][k].what = "app"
      ELSE cache[n][k].what = "asset" /\ cache[n][k].of = k[2]

\* "Once activated, the service worker provides an offline frontend shell."
\* (README.md:418) Not so: the assets the first page loaded are not stored.
ActivatedWorksOffline ==
  marker /\ worker.active # Nothing =>
    \E r \in Releases :
      /\ \E answer \in Matches(PageKey) : answer.of = r
      /\ Matches(<<"asset", r>>) # {}

\* "Ordinary browser visits do not create an application cache."
\* (README.md:416) A page that keeps a removed worker does.
CacheOnlyOfWorkers ==
  (\E n \in Names : \E k \in Keys : cache[n][k] # Nothing) => worker.active # Nothing

\* "Existing automatic registrations without that preference or an active Push
\* subscription are removed." (docs/security.md:404) So is one for which the
\* preference is recorded while the subscriptions are looked up.
SubscriptionsRemain == [][subscribed => subscribed']_vars
=============================================================================
