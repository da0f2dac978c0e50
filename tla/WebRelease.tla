------------------------------ MODULE WebRelease ------------------------------
(***************************************************************************)
(* Updates of the web application: the service worker downloads the        *)
(* deployed release into a cache of its own, has one page start from it as *)
(* a candidate, and makes it the active release once that page confirms.   *)
(* The worker's state is in IndexedDB and Cache Storage.  Every event is a *)
(* task that awaits between its reads and its writes, so that tasks run    *)
(* interleaved; the browser may stop the worker between any two steps.     *)
(* The generation of a download is left out: a released lease is deleted,  *)
(* so that it starts at 1 again and again, and only tells a download from  *)
(* the one of a worker that stopped; the nonce of a page tells them all.   *)
(* An identifier nothing mentions any more stands for a new one.           *)
(***************************************************************************)
EXTENDS Naturals

CONSTANTS
    Releases, Clients,
    Nonces,          \* crypto.randomUUID of a page
    Tasks,
    Resources,       \* resources of a release
    Absent

ASSUME ReleaseAssumption == Absent \notin Clients /\ Resources \in Nat \ {0}

VARIABLES
    deployed,        \* the release the server has
    active,          \* ACTIVE_KEY: the release pages start from, or None
    ran,             \* history: what the page that confirmed it was started from
    candidate,       \* CANDIDATE_KEY, or None
    lease,           \* DOWNLOAD_LEASE_KEY: "held", "expired" or None
    manifests,       \* releases with a manifest in the database
    cache,           \* release -> resources in its cache
    task,            \* the events being handled
    page,            \* client -> what is open in it
    timedOut,         \* nonces whose validation has timed out
    raced            \* history: the activation met another task on its release

releaseVars == <<deployed, active, ran, candidate, lease, manifests, cache, task, page, timedOut, raced>>
pages == <<page, timedOut>>
pointers == <<active, ran, raced>>

Idle == [at |-> "idle"]
Unopened == [status |-> "unopened", runs |-> Absent, context |-> Absent, ready |-> Absent, reload |-> Absent]

ReleaseInit ==
    /\ deployed \in Releases /\ active = Absent /\ ran = Absent
    /\ candidate = Absent /\ lease = Absent
    /\ manifests = {} /\ cache = [r \in Releases |-> 0]
    /\ task = [t \in Tasks |-> Idle]
    /\ page = [c \in Clients |-> Unopened]
    /\ timedOut = {} /\ raced = FALSE

Is(t, at) == task[t].at = at
Goes(t, state) == task' = [task EXCEPT ![t] = state]
Moves(t, at) == task' = [task EXCEPT ![t].at = at]
Open(c) == page[c].status = "open"
Works(t, at, release) == Goes(t, [at |-> at, release |-> release])
Fails(t, release) == Works(t, "fail_read", release)
Validating(record) == record # Absent /\ record.nonce # Absent /\ record.nonce \notin timedOut

Mentions(record, x) == \E f \in DOMAIN record : record[f] = x
Fresh(x) ==
    /\ candidate # Absent => ~Mentions(candidate, x)
    /\ \A c \in Clients, f \in {"context", "reload"} : page[c][f] # Absent => ~Mentions(page[c][f], x)
    /\ \A t \in Tasks :
          /\ ~Mentions(task[t], x)
          /\ \A f \in {"context", "read"} \cap DOMAIN task[t] : ~Mentions(task[t][f], x)

\* caches.delete: what still holds the cache writes into one nobody finds.
Deleted(r) == [cache EXCEPT ![r] = 0]
Cut(t, state, r) ==
    [u \in Tasks |-> IF u = t THEN state
        ELSE IF "whole" \in DOMAIN task[u] /\ task[u].release = r THEN [task[u] EXCEPT !.whole = FALSE]
        ELSE task[u]]

-----------------------------------------------------------------------------
(* The environment                                                         *)

Deploy == deployed' \in Releases \ {deployed} /\ UNCHANGED <<pointers, candidate, lease, manifests, cache, task, pages>>

\* The browser stops the worker: what it keeps in memory is gone.
WorkerStops ==
    /\ \E t \in Tasks : task[t] # Idle
    /\ task' = [t \in Tasks |-> Idle]
    /\ page' = [c \in Clients |-> IF Open(c) THEN page[c] ELSE Unopened]
    /\ UNCHANGED <<deployed, pointers, candidate, lease, manifests, cache, timedOut>>

\* UPDATE_ACTIVATED, UPDATE_FAILED and UPDATE_CANCELLED in the pages.
PagesForget ==
    page' = [c \in Clients |-> IF Open(c) THEN [page[c] EXCEPT !.context = Absent] ELSE page[c]]

\* 15 s after VALIDATE_CANDIDATE.
ValidationExpires(n) ==
    /\ n \notin timedOut /\ timedOut' = timedOut \cup {n}
    /\ \/ candidate # Absent /\ candidate.nonce = n
       \/ \E t \in Tasks : "read" \in DOMAIN task[t] /\ task[t].read.nonce = n
    /\ UNCHANGED <<deployed, pointers, candidate, lease, manifests, cache, task, page>>

CloseClient(c) ==
    /\ Open(c) /\ page' = [page EXCEPT ![c] = Unopened]
    /\ UNCHANGED <<deployed, pointers, candidate, lease, manifests, cache, task, timedOut>>

-----------------------------------------------------------------------------
(* downloadCandidate                                                       *)

Loading == {"manifest", "clear", "resource", "publish", "drop", "forget", "release"}
Downloads(t) == task[t].at \in Loading

\* A download ends within 60 s and its lease takes 75 s: only the lease of a
\* worker that stopped expires.
LeaseExpires ==
    /\ lease = "held" /\ \A t \in Tasks : ~Downloads(t)
    /\ lease' = "expired"
    /\ UNCHANGED <<deployed, pointers, candidate, manifests, cache, task, pages>>

\* START_UPDATE and acquireDownloadLease: one download at a time, and none
\* beside a lease that has not expired.
StartUpdate(t, c) ==
    /\ Is(t, "idle") /\ Open(c) /\ \A u \in Tasks : ~Downloads(u)
    /\ lease # "held" /\ lease' = "held"
    /\ Moves(t, "manifest")
    /\ UNCHANGED <<deployed, pointers, candidate, manifests, cache, pages>>

\* Mutant: the release in use is downloaded again.
IsCurrentNever(release) == FALSE
IsCurrent(release) == active = release

FetchManifest(t) ==
    /\ Is(t, "manifest")
    /\ Goes(t, IF IsCurrent(deployed) THEN [at |-> "release"] ELSE [at |-> "clear", release |-> deployed])
    /\ UNCHANGED <<deployed, pointers, candidate, lease, manifests, cache, pages>>

InitializeCache(t) ==
    /\ Is(t, "clear")
    /\ LET r == task[t].release
       IN  /\ cache' = Deleted(r)
           /\ task' = Cut(t, [at |-> "resource", release |-> r, count |-> 0, whole |-> TRUE], r)
    /\ UNCHANGED <<deployed, pointers, candidate, lease, manifests, pages>>

\* The digest of a resource of another release does not match.
FetchResource(t) ==
    /\ Is(t, "resource")
    /\ IF task[t].release # deployed
       THEN Works(t, "drop", task[t].release) /\ UNCHANGED cache
       ELSE /\ cache' = IF task[t].whole THEN [cache EXCEPT ![task[t].release] = @ + 1] ELSE cache
            /\ IF task[t].count + 1 = Resources
               THEN Works(t, "publish", task[t].release)
               ELSE Goes(t, [task[t] EXCEPT !.count = @ + 1])
    /\ UNCHANGED <<deployed, pointers, candidate, lease, manifests, pages>>

\* CANCEL_UPDATE, the 60 s timeout, a fetch or a write that fails.
DownloadFails(t) ==
    /\ \/ Is(t, "manifest") /\ Works(t, "forget", Absent)
       \/ Is(t, "clear") /\ Works(t, "forget", task[t].release)
       \/ task[t].at \in {"resource", "publish"} /\ Works(t, "drop", task[t].release)
    /\ UNCHANGED <<deployed, pointers, candidate, lease, manifests, cache, pages>>

Ends(t) == Goes(t, [at |-> "release"])

PublishCandidate(t) ==
    /\ Is(t, "publish")
    /\ LET r == task[t].release
       IN  /\ manifests' = manifests \cup {r}
           /\ candidate' = [release |-> r, client |-> Absent, nonce |-> Absent, source |-> Absent]
           /\ page' = [c \in Clients |-> IF Open(c) THEN [page[c] EXCEPT !.ready = r] ELSE page[c]]
    /\ Ends(t)
    /\ UNCHANGED <<deployed, pointers, lease, cache, timedOut>>

DropCache(t) ==
    /\ Is(t, "drop")
    /\ cache' = Deleted(task[t].release)
    /\ task' = Cut(t, [at |-> "forget", release |-> task[t].release], task[t].release)
    /\ UNCHANGED <<deployed, pointers, candidate, lease, manifests, pages>>

\* Whatever candidate there is by now, it is forgotten.
ForgetDownload(t) ==
    /\ Is(t, "forget")
    /\ candidate' = Absent
    /\ manifests' = manifests \ {task[t].release}
    /\ PagesForget
    /\ Ends(t)
    /\ UNCHANGED <<deployed, pointers, lease, cache, timedOut>>

ReleaseDownloadLease(t) ==
    /\ Is(t, "release") /\ lease' = Absent /\ Goes(t, Idle)
    /\ UNCHANGED <<deployed, pointers, candidate, manifests, cache, pages>>

-----------------------------------------------------------------------------
(* Validation of the candidate by a page                                   *)

\* handleMessage of UPDATE_READY in the page: VALIDATE_CANDIDATE.
UpdateReady(t, c, n) ==
    /\ Is(t, "idle") /\ Open(c) /\ page[c].ready # Absent /\ Fresh(n)
    /\ LET context == [nonce |-> n, release |-> page[c].ready]
       IN  /\ page' = [page EXCEPT ![c].context = context, ![c].ready = Absent]
           /\ Goes(t, [at |-> "validate", client |-> c, context |-> context])
    /\ timedOut' = timedOut \ {n}
    /\ UNCHANGED <<deployed, pointers, candidate, lease, manifests, cache>>

Matches(record, context) ==
    record # Absent /\ record.release = context.release

MayValidate(t) ==
    /\ Matches(candidate, task[t].context)
    /\ candidate.source \in {Absent, task[t].client} \/ ~Validating(candidate)

ReadForValidation(t) ==
    /\ Is(t, "validate")
    /\ \/ ~MayValidate(t) /\ Goes(t, Idle)
       \/ MayValidate(t) /\ Goes(t, [at |-> "verify", read |-> candidate,
                                   client |-> task[t].client, context |-> task[t].context])
    /\ UNCHANGED <<deployed, pointers, candidate, lease, manifests, cache, pages>>

VerifyManifest(t) ==
    /\ Is(t, "verify")
    /\ IF task[t].read.release \in manifests THEN Moves(t, "reload") ELSE Fails(t, task[t].read.release)
    /\ UNCHANGED <<deployed, pointers, candidate, lease, manifests, cache, pages>>

WriteValidation(t) ==
    /\ Is(t, "reload")
    /\ candidate' = [task[t].read EXCEPT !.nonce = task[t].context.nonce, !.source = task[t].client]
    /\ page' = IF Open(task[t].client)
               THEN [page EXCEPT ![task[t].client].reload = task[t].context] ELSE page
    /\ Goes(t, Idle)
    /\ UNCHANGED <<deployed, pointers, lease, manifests, cache, timedOut>>

-----------------------------------------------------------------------------
(* Navigation: which release a page starts from                            *)

\* A new tab (c = d), or the tab of c loads again and becomes client d; the
\* page that was asked to reload brings its nonce.  clientId is the page that
\* navigates or "", replacesClientId the page replaced or "", and undefined
\* (Absent) in a browser that does not have it.
Navigate(t, c, d) ==
    /\ Is(t, "idle") /\ page[d] = Unopened /\ Fresh(d)
    /\ c # d => Open(c)
    /\ \E query \in {Absent} \cup (IF c # d /\ page[c].reload # Absent /\ page[c].reload = page[c].context
                                 THEN {page[c].reload.nonce} ELSE {}) :
       \E from \in {""} \cup {e \in Clients : Open(e)} :
       \E replaces \in {Absent, IF c = d THEN "" ELSE c} :
          Goes(t, [at |-> "navigate", from |-> from, replaces |-> replaces, to |-> d, query |-> query])
    /\ page' = [e \in Clients |->
          IF e = d THEN [page[d] EXCEPT !.status = "loading", !.context = page[c].context]
          ELSE IF e = c THEN Unopened ELSE page[e]]
    /\ UNCHANGED <<deployed, pointers, candidate, lease, manifests, cache, timedOut>>

\* Once a page took the candidate its source is undefined, as replacesClientId
\* may be: then any navigation takes it over.
StartsCandidate(t) ==
    /\ Validating(candidate) /\ cache[candidate.release] > 0
    /\ task[t].query = candidate.nonce \/ candidate.source \in {task[t].from, task[t].replaces}

\* The candidate's page loads again: it is not the candidate's client any more.
StaysWithCandidate(t) ==
    /\ Validating(candidate) /\ candidate.client = task[t].from

Loaded(c, release) == page' = [page EXCEPT ![c].status = "open", ![c].runs = release]

ReadForNavigation(t) ==
    /\ Is(t, "navigate")
    /\ IF StartsCandidate(t)
       THEN Goes(t, [at |-> "assign", read |-> candidate, to |-> task[t].to]) /\ UNCHANGED page
       ELSE IF ~StaysWithCandidate(t) THEN Goes(t, [at |-> "active", to |-> task[t].to]) /\ UNCHANGED page
       ELSE IF cache[candidate.release] > 0
       THEN Loaded(task[t].to, candidate.release) /\ Goes(t, Idle)
       ELSE Fails(t, candidate.release) /\ page' = [page EXCEPT ![task[t].to] = Unopened]
    /\ UNCHANGED <<deployed, pointers, candidate, lease, manifests, cache, timedOut>>

AssignClient(t) ==
    /\ Is(t, "assign")
    /\ candidate' = [task[t].read EXCEPT !.client = task[t].to, !.source = Absent]
    /\ Loaded(task[t].to, task[t].read.release)
    /\ Goes(t, Idle)
    /\ UNCHANGED <<deployed, pointers, lease, manifests, cache, timedOut>>

\* The network answers when the cache does not.
RespondFromActive(t) ==
    /\ Is(t, "active")
    /\ Loaded(task[t].to, IF active # Absent /\ cache[active] > 0 THEN active ELSE Absent)
    /\ Goes(t, Idle)
    /\ UNCHANGED <<deployed, pointers, candidate, lease, manifests, cache, timedOut>>

-----------------------------------------------------------------------------
(* Confirmation and failure of the candidate                               *)

\* Mutant: any page that has the nonce may confirm.
ConfirmsUnassigned(t) ==
    Matches(candidate, task[t].context) /\ candidate.nonce = task[t].context.nonce
Confirms(t) == ConfirmsUnassigned(t) /\ candidate.client = task[t].client

\* confirmCandidateStartup: STARTUP_CONFIRMED.
ConfirmStartup(t, c) ==
    /\ Is(t, "idle") /\ Open(c) /\ page[c].context # Absent
    /\ Goes(t, [at |-> "promote", client |-> c, context |-> page[c].context, ran |-> page[c].runs])
    /\ UNCHANGED <<deployed, pointers, candidate, lease, manifests, cache, pages>>

ReadForPromotion(t) ==
    /\ Is(t, "promote")
    /\ \/ ~Confirms(t) /\ Goes(t, Idle)
       \/ Confirms(t) /\ ~Validating(candidate) /\ Fails(t, candidate.release)
       \/ /\ Confirms(t) /\ Validating(candidate)
          /\ Goes(t, [at |-> "inspect", release |-> candidate.release, whole |-> TRUE, ran |-> task[t].ran])
    /\ UNCHANGED <<deployed, pointers, candidate, lease, manifests, cache, pages>>

\* The manifest, the API's version and the number of cached resources.
InspectCandidate(t) ==
    /\ Is(t, "inspect")
    /\ \/ /\ task[t].release \in manifests /\ cache[task[t].release] = Resources
          /\ Moves(t, "activate")
       \/ Fails(t, task[t].release)
    /\ UNCHANGED <<deployed, pointers, candidate, lease, manifests, cache, pages>>

\* Another task works on the release, or is about to write the candidate it
\* read back.
AtWork(u, r) ==
    \/ "release" \in DOMAIN task[u] /\ task[u].release = r
    \/ "read" \in DOMAIN task[u] /\ task[u].read.release = r

Activate(t) ==
    /\ Is(t, "activate")
    /\ LET r == task[t].release
       IN  /\ active' = r /\ ran' = task[t].ran
           /\ raced' = (~task[t].whole \/ \E u \in Tasks \ {t} : AtWork(u, r))
    /\ candidate' = Absent
    /\ PagesForget
    /\ Goes(t, Idle)
    /\ UNCHANGED <<deployed, lease, manifests, cache, timedOut>>

\* scheduleCandidateTimeout: FAIL_CANDIDATE.
CandidateTimesOut(t, c) ==
    /\ Is(t, "idle") /\ Open(c) /\ page[c].context # Absent
    /\ Goes(t, [at |-> "fail", client |-> c, context |-> page[c].context])
    /\ page' = [page EXCEPT ![c].context = Absent]
    /\ UNCHANGED <<deployed, pointers, candidate, lease, manifests, cache, timedOut>>

ReadForFailure(t) ==
    /\ Is(t, "fail")
    /\ IF Confirms(t) THEN Fails(t, candidate.release) ELSE Goes(t, Idle)
    /\ UNCHANGED <<deployed, pointers, candidate, lease, manifests, cache, pages>>

\* A page of the candidate asks for a resource that is not in its cache.
ResourceMissing(t, c) ==
    /\ Is(t, "idle") /\ Open(c) /\ Validating(candidate) /\ candidate.client = c
    /\ cache[candidate.release] < Resources
    /\ Fails(t, candidate.release)
    /\ UNCHANGED <<deployed, pointers, candidate, lease, manifests, cache, pages>>

\* failCandidate: of the candidate there is now, not of the one that failed.
FailRead(t) ==
    /\ Is(t, "fail_read")
    /\ Goes(t, IF candidate = Absent THEN Idle ELSE [at |-> "fail_delete", release |-> candidate.release])
    /\ UNCHANGED <<deployed, pointers, candidate, lease, manifests, cache, pages>>

FailDelete(t) ==
    /\ Is(t, "fail_delete")
    /\ cache' = Deleted(task[t].release)
    /\ task' = Cut(t, [at |-> "fail_write", release |-> task[t].release], task[t].release)
    /\ UNCHANGED <<deployed, pointers, candidate, lease, manifests, pages>>

FailWrite(t) ==
    /\ Is(t, "fail_write")
    /\ candidate' = Absent /\ manifests' = manifests \ {task[t].release}
    /\ PagesForget
    /\ Goes(t, Idle)
    /\ UNCHANGED <<deployed, pointers, lease, cache, timedOut>>

-----------------------------------------------------------------------------
ReleaseNext ==
    \/ Deploy \/ WorkerStops \/ LeaseExpires
    \/ \E n \in Nonces : ValidationExpires(n)
    \/ \E c \in Clients : CloseClient(c)
    \/ \E t \in Tasks :
          \/ FetchManifest(t) \/ InitializeCache(t) \/ FetchResource(t)
          \/ DownloadFails(t) \/ PublishCandidate(t) \/ DropCache(t) \/ ForgetDownload(t)
          \/ ReleaseDownloadLease(t) \/ ReadForValidation(t) \/ VerifyManifest(t) \/ WriteValidation(t)
          \/ ReadForNavigation(t) \/ AssignClient(t) \/ RespondFromActive(t)
          \/ ReadForPromotion(t) \/ InspectCandidate(t) \/ Activate(t)
          \/ ReadForFailure(t) \/ FailRead(t) \/ FailDelete(t) \/ FailWrite(t)
    \/ \E t \in Tasks, c \in Clients :
          StartUpdate(t, c) \/ ConfirmStartup(t, c) \/ CandidateTimesOut(t, c) \/ ResourceMissing(t, c)
    \/ \E t \in Tasks, c \in Clients, n \in Nonces : UpdateReady(t, c, n)
    \/ \E t \in Tasks, c, d \in Clients : Navigate(t, c, d)

ReleaseSpec == ReleaseInit /\ [][ReleaseNext]_releaseVars

-----------------------------------------------------------------------------
(* Properties                                                              *)

\* A release becomes active only on the word of a page that was itself started
\* from it: not of a page of the release before that happens to have the nonce,
\* however downloads, validations and navigations write the candidate back.
ActivatedRan == active # Absent => ran = active

\* The active release keeps its whole cache through every later download,
\* failure, cancellation and stop of the worker, unless another event was being
\* handled for that release at the moment of its activation.
ActiveKeepsCache == active # Absent /\ ~raced => cache[active] = Resources
=============================================================================
