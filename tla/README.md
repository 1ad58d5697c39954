# A verification of napplet-portal

napplet-portal is a server (Deno, Fresh) that runs *napplets*, small sandboxed web
applications, in the tabs of a browser.  The server keeps the account, the keys, the
catalog of installed napplets, the capabilities of each window, shared media playback and
all network access; a tab is a shell around one napplet and talks to the server over a
websocket.  The interesting part is on the server: one event loop, many sockets, and
handlers that wait for relays, signers and files between reading state and using it.

This directory holds TLA+ modules of that part, the TLC configurations that check them,
and proofs.  Paths below are relative to the repository.

## Inventory

| Component | State | Operations | Hard part |
|---|---|---|---|
| Media authority: `runtime/media_reducer.ts`, `runtime/media_sessions.ts` | sessions, active session per account, generation counter, listeners per account, command queue | create, update, destroy, state, capabilities, route, transfer, stop, owner loss, origin expiry, account change, shutdown | a delivery that throws re-enters the coordinator; two tabs must never both play |
| Connection registry: `runtime/connections.ts` | connections, tokens, windows, relay subscriptions, grace timers | attach, detach, createWindow, register, trackSubscription, remove, expire | a socket replaced before it closed; a return within the grace period; an end after it |
| Websocket route: `routes/api/runtime.ts` | session of each connection, intent correlations of each socket | upgrade, open, close, message (start, sign-out, media, catalog, intents, relay, transfers) | every `await` in the message handler: the socket may be stale afterwards |
| Portal runtime: `runtime/portal_runtime.ts` | active account, windows, send functions, launch authorities | openWindow and its bridge, signIn, signOut, destroyWindow, destroy | connects all of the above; some paths check again after an await and some do not |
| Intent service: `runtime/intent.ts` | catalog generation, candidates, pending invocations, tickets, timers | reserve, claim, acknowledge, abortWindow, rebuild, destroy | reservation, launch, claim and acknowledgement meet in any order; exactly one answer |
| Expiring registry: `runtime/expiring_registry.ts` | entries with timers | add, set, take, delete, clear | an entry taken as its timer fires |
| Catalog: `runtime/catalog.ts` | list event, entries and their enrichment, mutation queue | load, project, preview, approve, launch, uninstall, account reset | mutations over several relays; enrichment that finishes for a list that is gone |
| Catalog synchronisation: `runtime/event_runtime.ts` | owner generation | start, replace, stop | a synchronisation of the previous account that finishes late |
| NAP dispatcher: `runtime/nap_dispatcher.ts` | active operations, window generations | authorizeWindow, dispatch, abortWindow, destroy | an operation that finishes after its window was aborted or reauthorized |
| Storage: `runtime/storage.ts`, `runtime/storage_store.ts`, `runtime/atomic_file.ts` | snapshot of all namespaces, mutation queue, file | get, set, remove, keys | quotas across queued writes; authority lost during the write; crashes |
| Accounts and signer: `runtime/accounts.ts`, `runtime/account_store.ts`, `runtime/signer_service.ts` | accounts, attempt, authority generation | add, activate, restore, retry, sign out | a cancelled attempt that completes; a stale retry |
| Settings: `runtime/settings.ts`, `runtime/settings_store.ts`, `routes/settings.tsx` | settings, save queue, file | load, save, destroy | a failed save among queued ones |
| Blossom transfers: `runtime/blossom_transfer.ts`, `runtime/blossom_cache.ts` | uploads, retained status, blobs | upload, status, cancel, clearOwner | an upload that ends after its owner was cleared |
| Resource service: `runtime/resource_service.ts`, `runtime/resource_policy.ts`, `runtime/pinned_fetch.ts` | requests in flight | bytes, bytesMany, cancel | candidates, redirects, two deadlines and a cancel in any order |
| Common service: `runtime/common.ts` | operations, a queue per account, loads per window | follow, unfollow, react, report, load, abort | two changes of one list; an account that changes before its change is signed |
| Outbox, relays: `runtime/outbox.ts`, `runtime/relay_adapter.ts`, `runtime/relay_policy.ts`, `runtime/relay_cache.ts` | streams by key, cache writes, cache health | subscribe, close, store, publish | a local relay that fails or hangs in the middle; a key used again |
| Browser connection: `shell/connection.ts` | socket, token, attempt, timer, phase | start, retry, stop, online, visible, socket events | several triggers of one retry; late events of a socket let go of |
| Media shell: `MediaShellController` in `islands/NappletShell.tsx` | last snapshot, pending grant | connect, snapshot, grant, request, command | stale snapshots and grants |
| Stateless or I/O: `runtime/transport.ts`, `runtime/binary_transport.ts`, `runtime/media_contract.ts`, `runtime/artifacts.ts`, `runtime/nap_contract_registry.ts`, `runtime/config.ts`, `main.ts`, pages and components | - | decode, encode, download, render | none that needs a model |

Interaction: a socket event enters the route, which calls the connection registry, then
the window's bridge in the portal runtime, which calls media, intents, catalog or the
dispatcher.  The way back is the send function of the window: from a service through the
portal runtime to the connection registry, which writes to the socket it has attached.
Callbacks run against that direction: a failed send detaches media, an expired connection
destroys its window in the route and in the runtime, a catalog change fails invocations.

What makes each correct:

- media: at most one live session per account and one tab that plays; ownership is taken
  by a request of one's own that is current; everyone who listens is told;
- connections: the newest socket is the one that is served; registry, route and runtime
  know the same windows; what a window had ends with it; a lost connection ends;
- intents: one answer for each invocation, always; a handler is opened at most once, for
  the account and the catalog it was selected from;
- catalog: nothing is shown or launched that the account's newest accepted list does not
  contain; nothing is lost by two mutations;
- dispatcher: no answer, event or byte reaches a napplet other than the one that asked;
- storage, accounts, settings: what was acknowledged is on disk, quotas hold, the last
  decision of the user wins.

## Modules

| Module | Models | Runs | Proofs |
|---|---|---|---|
| `MediaAuthority` | reducer, coordinator, the runtime's media seam, delivery to a tab | `media_tabs`, `media_accounts` | `MediaAuthority_proofs` |
| `ConnectionRegistry` | registry, sockets, launches, relay subscriptions, the runtime's windows | `connections`, `portal_progress`, `late_catalog_launch` | `Connections_proofs` |
| `IntentContract` | what an invocation is promised | (implemented by `IntentService`) | `IntentService_proofs` |
| `IntentService` | invocations, tickets, timers and the route's correlations | `intents` | `IntentService_proofs` |
| `CatalogService` | installed catalog, its jobs, changes and launches; the owner of its subscription | `catalog_lists`, `catalog_changes`, `reads_change_nothing`, `changes_of_an_account` | `CatalogService_proofs` |
| `StorageTable` | what napplet storage promises | (implemented by `NappletStorage`) | `DurableState_proofs` |
| `NappletStorage` | storage service, store, durable file, crashes | `portal_parts`, `portal_progress` | `DurableState_proofs` |
| `SettingsService` | settings page, service, file | `portal_parts`, `portal_progress` | `DurableState_proofs` |
| `SignerAccounts` | sign-in attempts, accounts, account file, restore of `main.ts` | `portal_parts`, `portal_progress` | `DurableState_proofs` |
| `NapDispatcher` | window authorities of the runtime, operations of napplets | `portal_parts`, `portal_progress` | `NapOperations_proofs` |
| `BlossomTransfer` | uploads to required servers and the local cache | `portal_parts`, `portal_progress` | `BlobTransfers_proofs` |
| `ResourceReads` | reads of https bodies and blobs, from napplets and the artifact resolver | `portal_parts`, `portal_progress`, `local_is_first` | `BlobTransfers_proofs` |
| `CommonActions` | follows, notes, their queue and publication, loads | `portal_parts`, `portal_progress` | `NapOperations_proofs` |
| `RelaySubscriptions` | streams over memory, local relay and upstream; the cache's writes | `portal_parts`, `portal_progress` | `NapOperations_proofs` |
| `ConnectionController` | the browser's side of a connection | `portal_parts`, `portal_progress` | `Connections_proofs` |
| `PortalParts` | the parts above that share no state, side by side | `portal_parts`, `portal_progress` | `PortalParts_proofs` |

`MCMediaAuthority`, `MCConnectionRegistry`, `MCIntentService` and `MCCatalogService` add
what an instance needs: symmetry sets, the keys of the accounts, the lists that arrive, the
order in which interchangeable things are first used.

Composition: `ConnectionRegistry` holds the registry, the route and the runtime's windows
in one module, since one callback crosses all three; `MediaAuthority`, `IntentService` and
`CatalogService` each include the part of the route and the runtime that calls them.
Between these modules an account change, the loss of a window and a change of the catalog
are inputs that may come at any time.

Properties are conjunctions of named parts; each part is defined and commented in its
module, and the conjunction is what a configuration lists.

### MediaAuthority

An actor is a `(connection, window)` pair.  `sessions`, `activeByAccount` and
`nextGeneration` are the reducer's state, `eligible` and `queue` the coordinator's,
`account` and `destroyed` the runtime's.  A reducer command is one action: it changes the
state and puts its effects in `effects`, as the code computes them before the first is
delivered.  Each delivery is an action.  Three things can happen to it: it is sent (and
lost if the socket is closed: the portal's send callback ignores the registry's `false`),
it is refused (`MayRefuse`: the window has no send function), or `socket.send` throws,
which on a socket that is not open yet calls `detach` inside the dispatch.  That nested
call drops the actor from the listeners at once and waits in `queue` for its owner loss.
A call from outside needs an `Idle` coordinator, as the event loop guarantees.  A refused
recipient is handled by `RecoverFailed` after the other deliveries.

Commands over all sessions (`Sweep`) take them in the order of the sessions Map: the n-th
affected session gets the n-th new generation.  `tab`, `enacting` and `seen` record what a
tab knows; `enacting` is the tabs that believe they may play, following
`MediaShellController`.

- `media_tabs` (3 tabs, 1 account, 2 session ids, 3 request ids of which a session
  remembers 2, calls up to generation 4): one live session per account, the one on record
  (`OneLiveSession`); `TabsFollow`: at no moment, in delivery order, may two connected tabs
  play, after a call only the owner may, and a listener misses no change; `SessionsAreHeld`:
  generations are distinct, the owner has a socket and hears of changes or its revocation
  is queued, and a session ends with its creator's window.
- `media_accounts` (2 accounts, 2 tabs, 3 request ids, refusing deliveries, generation 3):
  only the signed-in account has a live session; `GenerationFence`: a change of owner or an
  ending takes a generation above all others, and a transfer or stop is carried out only
  against the ownership it was made for, at most one for each (`OneRequestEach`, for which a
  session remembers of each request the generation it was carried out against; an old
  request whose id was forgotten is stopped by its generation alone);
  `OwnershipIsTaken`: a resumed tab does not get back what it lost; `DispatchEnds`.

Three tabs are what is needed for one that owns, one that takes over and one that only
listens; four generations allow create, transfer, loss and another transfer; two session
ids allow a replaced session.  The only fairness is that of the dispatcher (`WF(Dispatch)`):
a synchronous loop runs on.

### ConnectionRegistry

A socket is `new`, `connecting` (upgraded), `open`, `closed`, or `refused` (the upgrade
threw).  `connections`, `windows`, `subscriptions` are the registry's maps, `sessions` the
route's, `opened` and `authorities` the runtime's.  `Expire` is the grace timer with every
callback it makes.  The two launch commands await: `launches` holds the handlers that wait,
with what they captured.  `runtime.start` asks after its awaits whether its socket is still
current (`Restored`, `ArtifactResolved`); `catalog.launch` does not (`CatalogLaunched`).
A token is not modelled: a tab that was told of its connection (`greeted`) may resume it.

- `connections` (2 connections, 2 windows, 3 sockets, a subscription id, 2 handles,
  `runtime.start` launches): exactly the newest live socket of a connection is served;
  `RecordsAgree`: a connection without a socket has its timer set and no other has, and the
  three maps of windows agree; each running subscription is tracked once, under its window's
  owner; an authority belongs to a window that is open.  Three sockets for two connections
  cover a resume, a replacement and a fresh connection at once.
- `portal_progress` with `catalog.launch` instead: no authority survives a sign-out, even
  through a launch that was waiting (`SignedOutHoldsNothing`), and a record whose socket is
  lost is resumed or removed (`DetachedEnds`), given that each grace timer fires.
- `late_catalog_launch` is a disagreement, see below.

`ConnectRefused` models the upgrade whose requested window is taken: `attach` has made a
record that nothing removes.  `DetachedIsArmed` names the exception.

### IntentService and IntentContract

`service` holds what settling changes: the pending map, the invocations, timers, tickets
and the answers; `Settled` is `#settle` applied to a set.  `reserved` and `held` are the
route's two correlations, `launching` the `reserve()` calls that wait for `catalog.launch`,
with a flag that says whether their socket is still there (its correlations are cleared
when it closes).  A rebuild of the candidates (`Rebuild`) is any change of the catalog.
Whether a handler is selected and the policy allows it is an input (`allowed`).

- `intents` (2 accounts, 2 tabs, 2 invocations over 1 reservation id, `maxPending` 1, 2
  catalog generations): `CallsAreWaiting`: a call is unanswered exactly as long as it is
  pending under its id and its timer runs, it is answered once, and a ticket belongs to a
  pending, current, unclaimed call; `OpenedIsAuthorized`: what is opened belongs to the
  account and the catalog it was selected for.  `KeepsContract`: `IntentService` implements
  `IntentContract` under the mapping `StatusOf`/`opened`, liveness included (every accepted
  call is answered).  A single reservation id is the hard case: a late timer or
  acknowledgement of one invocation must not hit the next.  `MCIntentService` keeps this
  instance small in two ways: the first invocation is reserved by the first tab (tabs and
  invocations are interchangeable), and the second account signs in only while that tab
  alone is open.  Fairness: timers fire.  Nothing is assumed of launches, targets or tabs.

### CatalogService

An account's installed napplets are one signed, replaceable event.  `identity` is what the
accounts answer, `store` the newest list of each key, `projection` and `verified` what the
service shows and has at hand.  A job is a record of the list, the coordinate and the
manifest it was started for; `running` jobs hold a slot, `waiting` ones do not, and
`#inflight` is both.  `Refresh` is `#refresh` with the jobs it asks for: every read
(`Project`), retry, delivered list and finished change ends in it.  `sync` is the one live
subscription of `CatalogSyncOwner`; `Replace` ends it and clears the projection when the
key changed.  A change waits in `queue` and then passes three awaits (`mutating.awaits`:
the artifact, the signature, the relays), after each of which `MutationAuthority` asks
whether the account and the list are still the same; `MutationFails` is that question
answered no, and any failure.  `launch` has one await and its own question
(`StillAccepted`).  The event store is external: of two lists of the same second it keeps
the one it has.

- `catalog_lists` (2 accounts, lists of 1 or 2 entries at 2 times, 1 job slot):
  `CardsAreServed`: a pending card has a job in flight, a ready one its artifact, the
  projection belongs to the account signed in, jobs are shared, never more than the slots,
  and none waits beside a free slot; `TruthRetained`: errors and reconnects do not clear a
  list; `PendingResolves`: every pending card is settled or leaves the screen.  One slot
  makes lists of two accounts and two times compete for it.
- `catalog_changes` (1 account with 3 states of its signer, 2 changes, 1 launch, a list of
  another device at 2 times): a stored change is the edit of the very list it replaces and
  newer than it; an approval changes the list that was reviewed; a released artifact is
  accepted by the newest list of the account that asked.  Two changes are needed for one
  that waits for another, two napplets for a change that would lose one.
- `reads_change_nothing`, `changes_of_an_account` are disagreements, see below.

Fairness (`JobsSettle`): a resolution of each entry that holds a slot ends.  The code has
no timer around it: that a load ends with the relays' answers and a download with an answer
or an error is an assumption on the libraries that make them.  Nothing is assumed of users,
signers, relays that publish, or the subscription.

Limits: `retry` and `reconnect` are modelled and have no caller in the program; a listener
that reads inside a notification is a read right after it; the branch of `#refresh` for a
malformed list in the store is not reached, since `load` decodes first.

### PortalParts: the parts that share no state

Nine parts (and, for one more instance, `ConnectionRegistry`) read nothing of each other's
state: where one uses another, the other's answer is an input.  Their product would have
every interleaving of independent steps and show nothing new, so `PortalParts` lets a
behaviour be one of one part, chosen at the start, while the others rest in an initial
state.  The state space is the sum of the parts', and every invariant and every action
property of a part is checked on each of its steps.  `portal_parts` has the larger
instances and the safety properties; `portal_progress` has smaller ones and liveness.

**ConnectionController** (`shell/connection.ts`; in the runs 3 socket objects, which are
reused when they can report nothing more).  `ready` is what each socket object may still
report: an error or a close can come after the controller let go of it.  `timer` is the one
timer with what it does when it fires; `noticed` says whether a lifecycle event was
delivered yet.  `ConnectionIsKept`: one live socket; a phase that says connected is one of
an open socket; a shown page without a socket has its retry due; the timer belongs to the
attempt in hand.  Three sockets are one in use and two let go of.

**NappletStorage and StorageTable** (2 namespaces, 2 keys, sizes 1 and 2, quotas of 1 key
and size 2, 2 queued mutations).  `stored` is the snapshot in memory, `files` everything the
file may be after a crash (a rename whose directory is not synced may be taken back),
`writing` how far the write is.  A caller's authority is tested when its mutation starts and
again before the rename; `held = "late"` is the one that loses it after that.  `KeepsTable`:
the service implements `StorageTable`.  `CrashIsSurvived`: quotas hold in memory and in
every file, a crash takes back or brings back one entry, what was answered is in the file,
and nothing is written for a caller without authority.

**SettingsService** (2 relays of which one is blocked, 2 pages).  `SettingsAreKept`: memory
and file agree except between the two; the runtime authenticates only to relays it uses
that are not blocked; a page that says saved shows what it sent.

**SignerAccounts** (2 accounts, one of them with a private key, 2 sign-ins;
`portal_progress` has one account).  An attempt
reads the file, connects, is activated and saved; a cancelled one may connect all the same.
`restored` is the promise `main.ts` keeps of the account file; a sign-out may forget one
that is still being read.  A reading takes effect some time after it found what the file
said: `found` and `strayRead` are the accounts the file has named since the reading began.
`OneAttemptRuns`: the attempt on record is the one that is not aborted.  `FileIsNewest`: when
nothing is queued the file names the active account; `behind` marks the two exceptions the
code has, a failed write and a reading that takes effect beside a queued write or after one
that it did not see.

**NapDispatcher** (1 window, 1 release, 2 accounts, 3 requests, up to 2 launches).  An
operation keeps the authority its bridge closed over; whether its window was aborted or
reauthorized since is a flag.  `AnswersAreDue`: what is answered late reaches the launch
that asked; storage and `common.*` answer only for the signed-in account and a release it
accepts; a window has no more operations than its bounds.  Three requests exceed a bound of
two; the same release in two launches is the hard case.

**BlossomTransfer** (1 upload, 3 required servers, 2 workers, 2 statuses kept).
`UploadsAreTrue`: "complete" means every required server took the blob; the local cache is
offered nothing else; workers are never idle while a server waits and never too many.
Three servers are one more than the workers.

**ResourceReads** (2 items of a request, 2 upstream servers besides the local cache, 1
redirect).  `BlobsAreServed`: a blob handed out is the one asked for, and one reported
missing was asked of every candidate.  `local_is_first` is a disagreement, see below.

**CommonActions** (1 user who may leave and come back, 2 people, 2 operations).  Two lists
of an account are told apart: `contacts`, of the event store, which is in memory and empty
until a refresh or an accepted change fills it, and `relayLists`, the newest a relay has,
which may be there from before the start.  `#contacts` builds a change on the first;
`RelaysTake`, `SendingFails` and `AllRelaysAccept` say what becomes of the second, other
clients publish to it (`ListPublished`), and a refresh brings it or first an older one
(`ListArrives`).  `ChangesAreTheAskers`, in the order of its conjuncts:

- `FollowsAreKept`, of the store alone: no accepted change is undone by another one of the
  same portal.  `intended` is what the accepted changes make of the list that the last
  refresh left, one after the other; `overtaken` is an account whose list another one
  replaced while a change was under way.
- `RelaysAgree`: when no change of an account is under way the relays' list is the store's,
  unless `unseen`: they have a list that the store was never given.
- `UnfollowsTakeOff`: but for such a list, and for one that was overtaken, a person leaves
  the relays' list only by an unfollow of that person.
- `PublishedForTheAsker`: what is published is published for the identity that asked, while
  it is active.

`unseen` is the exception the code has, and it is no small one: it is set from the start if
the relays have a list, by other clients, and by a send that fails after a relay took the
list.  What a follow does then is under Disagreements.  `portal_progress` has one person.

**RelaySubscriptions** (2 keys, 2 streams, 2 events, 2 cache writes).  `StreamsAreLive`: the
map and the running streams agree; a closed subscription hears nothing more, also when its
key is used again; a healthy cache has, or is about to have, what memory has.

**Progress.**  A liveness property of a part has its fairness as a hypothesis
(`XFairness => ...`), since `PartsSpec` itself assumes none:

| Property | Promise | Fairness and its reason |
|---|---|---|
| `ReconnectsAgain` | a lost tab tries again | timers fire, lifecycle events are delivered, a closing socket reports its close: the browser's event loop |
| `DetachedEnds` | a detached record is resumed or removed | grace timers fire |
| `QueueRecovers`, `SavesAreAnswered` | storage mutations and saves are answered | a file call ends, in success or failure |
| `SignInsEnd` | sign-ins end | file calls end, relays answer or fail, the wait for approval has a timeout; that a connected signer answers `getPublicKey` is assumed, the code has no timer there |
| `PlacesAreReturned` | operations give their place back | the service called answers (each has a deadline of its own, checked below, or is the file) |
| `UploadsEnd`, `ReadsEnd` | uploads and reads end | deadlines fire; a fetch that is aborted fails |
| `ChangesEnd` | follows and notes end | the signer and the relays answer or fail; the code has no timer there |
| `UpstreamIsReached` | a stream reaches upstream | the local relay ends its answer or its timeout fires |

Users, remote servers that could still answer, and the change of accounts are never fair.

## Proofs

Each theorem holds for all values of the constants that satisfy the module's named
assumption.  A module's proofs are laid out alike: the inductive invariant, one lemma per
action, a lemma that `Next` keeps it, and the theorems.
Eight modules hold the proofs, each those of components that belong together;
`PortalParts_proofs` carries the results over to the composition.

### MediaAuthority_proofs

- `TypeCorrect`: `Spec => []TypeOK`.  `TypeInv` adds that the known sessions are a finite
  set: the generations of a sweep are counted with `Cardinality`.
- `OneSessionPlays`: `Spec => [](OneLiveSession /\ OnlySignedInPlays /\
  GenerationsAreDistinct)`, and `OnlySignedInEverPlays`.  The three need each other: that a
  create ends the account's only live session uses `OneLiveSession`, and that the next
  session's generation is new uses that none is above the counter.  `SafeInv` is their
  conjunction with `TypeInv` and "a terminal session has no owner".
- `GenerationsFence` and `OwnershipIsEarned`, the two action properties: ownership changes
  with a new generation, by a request made against the one before, and goes to a tab that
  asked and is there.  `SafeInv` holds the requests of a session in the order of their
  generations (`OneRequestEach`).  That a forgotten id lets nothing through is shown for
  every `MaxRequests` by the proof; the run has few ids to forget.
- `OwnersAreThere`: `Spec => []SessionsAreHeld`, from `HeldInv`: what is live after a step
  was live before or was just taken by a tab whose socket is there, and a tab's loss leaves
  its sessions lost or their revocation queued, also when the loss comes out of a delivery.
- `TabsAlwaysFollow`: `Spec => []TabsFollow` where `MayRefuse = FALSE`.  `ListenInv` says
  that who listens has a socket and that the recipients of a queued detach are those of its
  moment; `PlayInv` that every snapshot still to be delivered agrees with the state
  (`SnapshotsAgree`), that a tab that believes it plays owns the live session or has a stop
  on its way before any grant (`PlayersStop`), that a listener that was told of the session
  knows its generation or will (`Follow`), and that a tab that does not listen was told of
  nothing (`DeafSeeNothing`).  The assumption excludes a window
  without a send function, for which `deliver` answers false: the portal's own callback
  passes no `false` of `connections.send` on (`portal_runtime.ts`), and with such a refusal
  the failed recipients are revoked after the others were told.  `media_accounts` has
  refusals and checks what holds with them.

The lemmas on `Rank` (distinct, between 1 and the number of affected sessions) carry the
sweeps.  Used: `ConstantsAssumption`.

### Connections_proofs

- `ConnectionHolds`: `ControllerSpec => []ConnectionIsKept`.  `FieldsInv` says that a socket
  in hand is connecting or open, that its attempt is not over and the controller started,
  and that only a started controller has a timer: a late event of another socket then ends
  nobody's attempt.
- `TypesAreKept`, `NewestSocketIsServed`, `RecordsAlwaysAgree`, `NoSubscriptionLeaks` of
  ConnectionRegistry, from one invariant `RegistryInv`: a record is attached to a socket of
  its connection that has the highest generation and is alive, or to none (`Attachments`);
  registry, route and runtime know the same windows (`WindowsAgree`, `SessionsServe`); and
  `SubscriptionsAreOwned`, which is needed with them, since `remove` finds the subscriptions
  of a connection through its windows.
- `SignOutClears`: `Spec => []SignedOutHoldsNothing`, on top of `RegistryInv`.
- `LateLaunchesGrantNothing`: `LaunchKinds \subseteq {"start"}` implies
  `Spec => []AuthorityHasWindow`.  Of the two commands that wait before they grant an
  authority, `runtime.start` asks again whether its socket is current, `catalog.launch` does
  not; the hypothesis leaves the second out, and `late_catalog_launch` shows that it must.
  `LateInv`: a waiting launch names the window its connection has.

### IntentService_proofs

- `TypesAreKept`, `CallsAlwaysWait` (`CallsAreWaiting`), `HandedOutIsAuthorized`
  (`OpenedIsAuthorized`).
- `ContractIsKept`: every step is a step or a stutter of `IntentContract` under the mapping
  of the module.  This is the safety part of `KeepsContract`; that every accepted call is
  answered is liveness and stays with TLC.

`IntentInv` is about the settling state (`ServiceOK`: pending, unanswered, timed and ticketed
calls agree over the four maps that hold them), its calls against the catalog of the moment
(`CallsOf`), and the route around it: a launch that is under way has no ticket yet
(`LaunchesPrecedeTickets`), an id is fresh when reserved (`ReservedAreNew`), and a call is
opened exactly if it was claimed (`ClaimedIsOpened`).  Without the last, the count of the
openings could not be bounded by the state.  `Settled` is treated by one lemma for all
handlers that call it.

### CatalogService_proofs

- `TypesAreKept`, `CardsAreAlwaysServed`, `ReleasesAreAccepted`, and the action properties
  `UpdatesAreNotLost`, `ApprovalsAreAsReviewed`, `TruthIsRetained`, for any number of
  accounts, queued changes, lists and job slots.

`CatalogInv` is the conjunction of what the store holds (`StoreOK`), of the projection, the
artifacts and the jobs (`CardsOK`), of the change in progress (`ChangesOK`), of the launches
(`LaunchesOK`) and of `ReleasedIsAccepted`.  `ChangesOK` carries the argument for
`NoLostUpdate`: what a change has signed is the edit of the list it started from, under the
account it started with, which the question after the last await compares with the store's.  `CardsOK` carries that for `CardsAreServed`: whatever
replaced the list, a pending card has a job of its own list, because `Refresh` asks for one
before the handler returns and a job that ends late starts the next that waits.

### DurableState_proofs

- `StorageImplementsTable`: `StorageSpec => KeepsTable`, and `StorageSurvivesCrashes`:
  `T!InQuota(T!Empty) /\ StorageSpec => CrashIsSurvived`.  `StorageInv`: what is being
  written, and every file a crash may leave, is the snapshot in memory or one accepted
  mutation away from it (`OneStep`).  It is needed because a failed write leaves its file
  behind: only that the next write starts from memory, and not from the file, keeps files
  within one mutation and within the quotas.  That an empty table is within the quotas is a
  hypothesis, since the size of a table is a recursive sum the provers cannot unfold; TLC
  evaluates it in the initial state.
- `SettingsHold`: `SettingsSpec => SettingsAreKept`.  `SettingsInv` adds what a failed save
  must leave alone: every queued save is eligible, its page waits for it with the values it
  sent, and no page has two.
- `SignersHold`: `SignerSpec => [](SignerTypeOK /\ OneAttemptRuns /\ FileIsNewest)`.
  `SignerInv`: the fields (`SignerFields`); the store's queue, whose last snapshot, or the
  file when it is empty, names the active account unless `behind` (`QueueOK`); and the
  sign-ins, of which at most one, the attempt on record, is under way and not aborted
  (`SignInsOK`).

### BlobTransfers_proofs

- `UploadsAreAlwaysTrue`: `TransferSpec => [](TransferTypeOK /\ UploadsAreTrue)`.
  `TransferInv` says of each upload that what a server accepted it holds, that the local
  cache is asked when all have, and that as many workers are under way as there may be while
  a server waits; of each owner, that the statuses kept are bounded and true of what the
  servers hold.
- `BlobsAreAlwaysServed`: `ReadsSpec => [](ReadsTypeOK /\ BlobsAreServed)`.  The
  property holds read by read and is inductive with the types (`ReadsInv`): a read
  that failed, but for its decoding or a cancel, is at its last candidate, and a body is
  checked against the hash before it is handed out.

### NapOperations_proofs

- `AnswersHold`: `DispatcherSpec => []AnswersAreDue`, with bounds of which that of transfers
  is the smaller (2 and 8 in the code).  An authority is that of its window's last launch
  (`LaunchesInv`), and an operation that is not void is of its window's last launch
  (`OpsInv`).  The bounds are counted with the theorems on finite sets.
- `ChangesStayTheAskers`: `CommonSpec => ChangesAreTheAskers`, and `CommonTypes`.
  `CommonInv`: each change that waits or runs is once in the queue of its account, the
  running one first (`QueueOf`), and a running change is built on the list the store still
  has, at a later time, unless another list overtook it (`BuiltOn`).  That nothing else of
  the portal may publish between is what makes the two together say that no change is lost.
  `RelaysInv` adds what the relays have: the store's list, or already that of the change
  being sent, unless `unseen` (`Agrees`).
- `StreamsStayLive`: `RelaySpec => StreamsAreLive`, and `RelayTypes`.  `RelayInv`: a stream
  runs exactly if the map has it under its key, one not yet running has heard nothing, a
  shut one does not run; the cache has or is about to have what memory has while healthy.

### PortalParts_proofs

A behaviour of `PartsSpec` is, for each part, a behaviour of that part (`ControllerPart`,
`StoragePart`, ... one lemma each).  The `...Safe` lemmas of the other modules state their
results for `Init /\ [][Next]_vars`, without fairness, and so hold here too:

- `PartsTypes`: `PartsSpec => []PartsTypeOK`;
- `PartsAreSafe`: the invariants `ConnectionIsKept`, `OneAttemptRuns`, `FileIsNewest`,
  `AnswersAreDue`, `UploadsAreTrue`, `BlobsAreServed`;
- `PartsKeepTheirWord`: `KeepsTable`, `SettingsAreKept`, `ChangesAreTheAskers`,
  `StreamsAreLive`.

### Checked only

- Every liveness property, and with it the second half of `KeepsContract`: fairness and
  `ENABLED` are out of the prover's reach.
- That the empty table is within the quotas (above): the sum is recursive.
- `TabsFollow` with a delivery that is refused: not promised there, see above.

Every other invariant and action property that a passing run checks is stated by a theorem.

## Disagreements

Shown by a run:

- `late_catalog_launch`: "late completion ... cannot revive stale browser authority"; a
  `catalog.launch` that completes after its window expired registers one.
- `reads_change_nothing`: the tests say that reads emit no change and that EOSE leaves a
  loaded catalog ready.  Every read refreshes: it replaces the ready status by one that is
  sent as loading and, with a list, calls the listeners, one of which reads again.
- `changes_of_an_account`: "stale capability, catalog, identity, and signer requests" are
  to have "zero effects"; a change that waits in the queue takes the identity of the moment
  it starts, so an uninstall of one account can be made to the list of the next.
- `local_is_first`: RES-03 promises the local cache before upstream sources; `main.ts` builds
  the napplets' resource service without a policy that knows the cache, so that each read
  of it is refused and the upstream servers are asked.

Met while modelling, without a run of their own:

- MED-03 (`.planning/milestones/v1.1-REQUIREMENTS.md:48`) says every connected tab receives
  the current media state; a tab opened before the sign-in listens only from its own first
  media message on.  The model has it: such a tab is not in `eligible`.
- `.planning/milestones/v1.1-phases/06-common-data-and-durable-storage/06-03-PLAN.md:114`
  has follow and unfollow "preserve current contact-list metadata/tags"; `common.ts:219`
  takes the list of the event store as the current one.  Before a refresh has brought the
  account's list that is an empty one, and a follow then publishes a list of one person over
  the one the relays have.  The model has the step (`Changed` under `unseen`).
- `tests/common_runtime_integration_test.ts:129` says "publication failure is stable and
  records no successful mutation"; `outbox.ts:188` sends to all relays at once, and those
  that accepted the list keep it though the napplet is told that the change failed.  The
  next change is built on the store's, without it.  The model has the step (`SendingFails`).
- `tests/signer_service_test.ts:153` says "cancel clears state and blocks late activation";
  an attempt cancelled after its signer connected, while its account is being activated,
  activates it.  The model has the step.
- `shell/connection.ts:299`: a page that is hidden while its socket connects cancels the
  connect timeout, and `:311` does not set it again when the page is shown: that attempt
  has no deadline any more.  `ReconnectsAgain` asks for nothing of a socket that hangs.
- `runtime/resource_service.ts:626`: an https body cut off by its deadline is returned as a
  complete one.  `BlobsAreGenuine` is about blobs, which have a hash.
- `runtime/relay_adapter.ts:180`: the close handle of a superseded subscription closes its
  successor under the same key; the cache's health, once degraded, never returns to healthy;
  an error of the upstream relay has no handler.
- D-26 says that `relay.close` ends a subscription, and no branch of the message handler
  takes the message (`closeSubscription` has no caller).

## Abstractions and limits

Payloads, fingerprints, metadata, formatting and logging are left out.  Timers may fire at
any time after they are set, which covers every duration.  Bounds stop inputs and never
what answers them: `MaxGeneration` stops new calls (MediaAuthority) or catalog changes
(IntentService), `MaxTime`, `MaxRequests` and `MaxLaunches` in CatalogService are the last
time of a list and the changes and launches users ask for, `MaxMutations`, `MaxSnapshots`
and `MaxCacheWrites` the lengths of queues, `MaxSwitches` the account changes, `MaxSeconds`
the clock of an event; `MaxFiles` (NappletStorage) bounds the snapshots that failed writes
leave behind.  Sockets, ids and handles are finite sets that are used up, or reused where
the module says so.

`CHECK_DEADLOCK FALSE` is set for all but CatalogService: with all sockets used, the bounds
reached and everything asked for answered the modelled system has nothing left to do.

### Not modelled

- `media_contract.ts`, `transport.ts`, `binary_transport.ts`, `relay_policy.ts`, the NIP-19
  conversions and the catalog's decoding of declarations: stateless; what they let through
  is the input of the models.
- `artifacts.ts`: download and hashes, pure I/O and cryptography.
- `nap_contract_registry.ts`, `contract_report.ts`: static tables.
- `islands/`, `components/` and the pages but the settings form and the media controller:
  presentation.
- Code without a caller: `retryOffline`, `closeSubscription`, `PendingCorrelations`.
  `BackendRelayAdapter`, `RelayCache` and `OutboxAdapter.subscribe` are modelled as the tests
  compose them, since `main.ts` builds the deterministic `TracerRelayAdapter`, which is not;
  the publish of `BackendRelayAdapter` is not either.
- The intent service's availability messages (`subscribe`, `#lastGood`) and the answers the
  dispatcher gives without waiting: nothing later depends on them.

## Plan

Done: every component of the inventory that has state is modelled, and every safety property
of the passing runs is proved.  Left, in this order:

1. An abstract specification of playback (a single owner, who is revoked before another is
   granted) implemented by MediaAuthority, with `PlayInv` as the invariant of the mapping.
2. The launch of ConnectionRegistry and the authorities of NapDispatcher in one module, so
   that `AuthorityHasWindow` speaks of what an operation may still answer.
3. Availability messages of intents (`subscribe`, `#lastGood`).
4. An abstract specification of the catalog (one list per account, changed by edits of the
   newest) implemented by CatalogService; `UpdatesAreNotLost` is its step.
