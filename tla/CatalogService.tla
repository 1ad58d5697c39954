---------------------------- MODULE CatalogService ----------------------------
(***************************************************************************)
(* The installed catalog of src/runtime/catalog.ts and the owner of its    *)
(* relay subscription, CatalogSyncOwner of src/runtime/event_runtime.ts.   *)
(*                                                                         *)
(* An account's installed napplets are one signed replaceable event.  The  *)
(* service projects the newest one for the tabs, resolves the artifact of  *)
(* each accepted entry with a few jobs at a time, replaces the list when   *)
(* the user approves or uninstalls a napplet, and releases an accepted     *)
(* artifact to a launch.  The first part of a handler, up to its await, is *)
(* one action and what follows the await is another: identity, store and   *)
(* projection may all have changed between the two.                        *)
(*                                                                         *)
(* Abstracted: an event is its author, its time and its entries, so its id *)
(* is the event itself; artifacts are the key they are kept under; error   *)
(* texts and relay addresses are left out.  Every stored list was decoded  *)
(* before it was added, so the branches for a malformed one do not arise.  *)
(* Listeners are left out: what one does to the catalog is to read it      *)
(* again, which is a read of its own here.                                 *)
(***************************************************************************)
EXTENDS Integers, FiniteSets, Sequences, Functions

CONSTANTS
  Accounts,     \* account records of the signer accounts
  Keys,         \* public keys
  KeyOf,        \* the public key of each account
  Coordinates,  \* named napplets
  Manifests,    \* manifest event ids
  RelayLists,   \* entries of the lists the account's other devices publish
  MaxTime,      \* bound: the last created_at
  MaxJobs,      \* artifact resolutions at a time: 4 in the code
  MaxRequests,  \* bound: catalog changes requested
  MaxLaunches,  \* bound: launches waiting at a time
  None

Entry == [coordinate : Coordinates, manifest : Manifests]

\* Entries never repeat a coordinate: parseContent refuses a list that does.
IsList(s) == /\ s \in Seq(Entry)
             /\ \A i, j \in DOMAIN s : s[i].coordinate = s[j].coordinate => i = j

ListEvent == [pubkey : Keys, at : 1..MaxTime, entries : Seq(Entry)]

\* None, the code's null, is no account, no key and no event.
ASSUME ConstantsAssumption ==
  /\ KeyOf \in [Accounts -> Keys]
  /\ None \notin Accounts \cup Keys
  /\ None \notin ListEvent
  /\ \A s \in RelayLists : IsList(s)
  /\ MaxTime \in Nat /\ MaxRequests \in Nat /\ MaxLaunches \in Nat
  /\ MaxJobs \in Nat \ {0}

VARIABLES
  identity,    \* signerAccounts.identity
  store,       \* the event store: the newest list of each key
  projection,  \* CatalogService.#projection
  verified,    \* CatalogService.#verified: the keys of its map
  running,     \* jobs that hold a slot; with those waiting, #inflight
  waiting,     \* CatalogService.#queue
  sync,        \* the relay subscription of CatalogSyncOwner
  queue,       \* changes #mutationTail has not reached
  mutating,    \* the change #mutate is working on
  requests,    \* changes requested so far
  reviewed,    \* the list the last install preview was made on
  launches,    \* launches waiting for their artifact
  released     \* output: the launch the last step gave its artifact to

shown == <<projection, verified>>
jobs == <<running, waiting>>
changes == <<queue, mutating, requests, reviewed>>
vars == <<identity, store, shown, jobs, sync, changes, launches, released>>

UNAVAILABLE == [accountId |-> None, pubkey |-> None, status |-> "unavailable"]

Identities ==
  {UNAVAILABLE} \cup
  { [accountId |-> a, pubkey |-> KeyOf[a], status |-> s] :
      a \in Accounts, s \in {"active", "offline"} }

EMPTY == [event |-> None, entries |-> <<>>, status |-> "idle"]

-------------------------------------------------------------------------------
(* Reading the store.                                                        *)

CurrentCatalogEvent ==
  IF identity.pubkey = None THEN None ELSE store[identity.pubkey]

EntriesOf(event) == IF event = None THEN <<>> ELSE event.entries

Accepts(event, c, m) ==
  \E e \in Range(EntriesOf(event)) : e.coordinate = c /\ e.manifest = m

\* What the event store keeps when it is given a list: the newer one, and of two
\* of the same second the one it has.
Kept(event) ==
  LET held == store[event.pubkey]
  IN  IF held # None /\ held.at >= event.at THEN held ELSE event

-------------------------------------------------------------------------------
(* Artifact jobs.                                                            *)

JobKey(event, entry) ==
  [event |-> event, coordinate |-> entry.coordinate, manifest |-> entry.manifest]

\* #drain: jobs start in order while a slot is free.
Drain(held, line) ==
  LET free == MaxJobs - Cardinality(held)
      n    == IF Len(line) < free THEN Len(line) ELSE free
  IN  /\ running' = held \cup Range(SubSeq(line, 1, n))
      /\ waiting' = SubSeq(line, n + 1, Len(line))

\* The jobs `keys` of a list, in the order of its entries.
InOrder(event, keys) ==
  LET Precedes(k, l) == \E i, j \in DOMAIN event.entries :
                          /\ i < j
                          /\ k = JobKey(event, event.entries[i])
                          /\ l = JobKey(event, event.entries[j])
  IN  { line \in [1..Cardinality(keys) -> keys] :
          /\ Range(line) = keys
          /\ \A i, j \in DOMAIN line : i < j => Precedes(line[i], line[j]) }

\* #enqueue, for each entry in turn: work already in flight is shared.
Enqueue(event, entries) ==
  LET fresh == {JobKey(event, e) : e \in entries} \ (running \cup Range(waiting))
  IN  \E line \in InOrder(event, fresh) : Drain(running, waiting \o line)

\* What is known of an entry: kept from the projection of the same list.
Resolution(event, entry, force) ==
  LET held == { p \in Range(projection.entries) :
                  /\ projection.event = event /\ ~force
                  /\ p.coordinate = entry.coordinate
                  /\ p.manifest = entry.manifest }
  IN  IF held = {} THEN "pending" ELSE (CHOOSE p \in held : TRUE).resolution

\* Mutant: a forced refresh asks only for what is new or failed.
WantedUnforced(event, force) ==
  {e \in Range(event.entries) : Resolution(event, e, FALSE) # "ready"}

\* The entries #refresh asks a job for.
Wanted(event, force) ==
  {e \in Range(event.entries) : Resolution(event, e, force) # "ready"}

\* #refresh, `event` being the list of the signed-in account.
Refresh(event, force) ==
  \/ /\ event = None
     /\ projection' = EMPTY
     /\ UNCHANGED jobs
  \/ /\ event # None
     /\ projection' =
          [ event   |-> event,
            entries |-> [ i \in DOMAIN event.entries |->
                            [ coordinate |-> event.entries[i].coordinate,
                              manifest   |-> event.entries[i].manifest,
                              resolution |->
                                Resolution(event, event.entries[i], force) ] ],
            status  |-> "refreshing" ]
     /\ Enqueue(event, Wanted(event, force))

\* The two places a result is dropped: another account, another list.
StaleResult(k) ==
  identity.pubkey # k.event.pubkey \/ projection.event # k.event

\* Mutant: a job ends and starts no other.
FreeSlotIdle(k) == /\ running' = running \ {k}
                   /\ UNCHANGED waiting

\* The slot of a job that ended goes to the next one.
FreeSlot(k) == Drain(running \ {k}, waiting)

\* A job's artifact is verified (ok) or not available, and is applied to the
\* entry it was asked for.
JobEnds(k, ok) ==
  /\ k \in running
  /\ FreeSlot(k)
  /\ IF StaleResult(k)
     THEN UNCHANGED shown
     ELSE LET entries ==
                [ i \in DOMAIN projection.entries |->
                    IF JobKey(k.event, projection.entries[i]) = k
                    THEN [ projection.entries[i] EXCEPT !.resolution =
                             IF ok THEN "ready" ELSE "unavailable" ]
                    ELSE projection.entries[i] ]
              settled == \A e \in Range(entries) : e.resolution # "pending"
          IN  /\ projection' =
                   [ event   |-> k.event,
                     entries |-> entries,
                     status  |-> IF settled THEN "ready" ELSE "refreshing" ]
              /\ verified' = IF ok THEN verified \cup {k} ELSE verified \ {k}
  /\ released' = None
  /\ UNCHANGED <<identity, store, sync, changes, launches>>

-------------------------------------------------------------------------------
(* Reads and the retry.                                                      *)

\* project and acceptsManifest both begin with a refresh.
Project ==
  /\ Refresh(CurrentCatalogEvent, FALSE)
  /\ released' = None
  /\ UNCHANGED <<identity, store, verified, sync, changes, launches>>

Retry ==
  /\ Refresh(CurrentCatalogEvent, TRUE)
  /\ released' = None
  /\ UNCHANGED <<identity, store, verified, sync, changes, launches>>

-------------------------------------------------------------------------------
(* The relay subscription.                                                   *)

\* resetAccount, when the key changed.
AccountChanges(i) == i.pubkey # identity.pubkey

\* Mutant: a reconnect clears the list as another account does.
ReplaceClears(i, accountSignal, held) ==
  /\ projection' = IF i.pubkey = None THEN EMPTY
                   ELSE [EMPTY EXCEPT !.status = "refreshing"]
  /\ verified' = {}
  /\ sync' = IF i.pubkey = None THEN "off" ELSE "open"

\* #replace: the account or the relays changed, or a reconnect.  The old
\* subscription ends and one for the account of `i` begins.
Replace(i, accountSignal, held) ==
  LET reset == accountSignal /\ AccountChanges(i)
      kept  == IF reset THEN EMPTY ELSE held
  IN  /\ projection' = IF i.pubkey = None THEN kept
                       ELSE [kept EXCEPT !.status = "refreshing"]
      /\ verified' = IF reset THEN {} ELSE verified
      /\ sync' = IF i.pubkey = None THEN "off" ELSE "open"

\* The accounts or the relay settings emit: sign-in, sign-out, a signer found
\* offline or back, another set of relays.
SourcesEmit(i) ==
  /\ i \in Identities
  /\ identity' = i
  /\ Replace(i, TRUE, projection)
  /\ released' = None
  /\ UNCHANGED <<store, jobs, changes, launches>>

\* markStale, then #replace with what was latest.
Reconnect ==
  /\ Replace(identity, FALSE, [projection EXCEPT !.status = "stale"])
  /\ released' = None
  /\ UNCHANGED <<identity, store, jobs, changes, launches>>

\* load: a list of the signed-in account; a foreign one fails to decode.  A
\* list the store already has, or an older one, may or may not refresh.
RelayDelivers(event) ==
  /\ sync = "open"
  /\ event.pubkey = identity.pubkey
  /\ store' = [store EXCEPT ![event.pubkey] = Kept(event)]
  /\ \/ Refresh(Kept(event), FALSE)
     \/ /\ Kept(event) = store[event.pubkey]
        /\ UNCHANGED <<projection, jobs>>
  /\ released' = None
  /\ UNCHANGED <<identity, verified, sync, changes, launches>>

\* EOSE: markReady.  A relay error: markError.
SyncEnds(how) ==
  /\ sync = "open"
  /\ sync' = how
  /\ projection' = [projection EXCEPT
                      !.status = IF how = "complete" THEN "ready" ELSE "error"]
  /\ released' = None
  /\ UNCHANGED <<identity, store, verified, jobs, changes, launches>>

-------------------------------------------------------------------------------
(* Changes of the list: approve and uninstall.                               *)

Change ==
  [ op     : {"approve", "uninstall"},
    entry  : Entry,                    \* only its coordinate, to uninstall
    source : ListEvent \cup {None},    \* the list the user reviewed
    by     : Keys \cup {None} ]        \* history: the account that asked while
                                       \* another change was being made

\* The list without the entry of a napplet, of which it has one at most.
Removed(entries, c) ==
  LET at == {i \in DOMAIN entries : entries[i].coordinate = c}
      i  == CHOOSE i \in at : TRUE
  IN  IF at = {} THEN entries
      ELSE SubSeq(entries, 1, i - 1) \o SubSeq(entries, i + 1, Len(entries))

\* Mutant: an approval leaves the entry it replaces.
EditedTwice(change, entries) ==
  IF change.op = "approve" THEN Append(entries, change.entry)
  ELSE Removed(entries, change.entry.coordinate)

\* The list with the change made: an approved entry goes last.
Edited(change, entries) ==
  LET rest == Removed(entries, change.entry.coordinate)
  IN  IF change.op = "approve" THEN Append(rest, change.entry) ELSE rest

\* previewInstall, once its artifact is verified, names the list of that moment
\* (bound: while a change can still be requested).
PreviewInstall ==
  /\ requests < MaxRequests
  /\ reviewed' = CurrentCatalogEvent
  /\ released' = None
  /\ UNCHANGED <<identity, store, shown, jobs, sync, queue, mutating, requests,
                 launches>>

\* approveManifestUpdate and uninstallNapplet: #serialize queues the change.
Request(op, entry) ==
  /\ requests < MaxRequests
  /\ requests' = requests + 1
  /\ queue' = Append(queue, [ op |-> op, entry |-> entry, source |-> reviewed,
                              by |-> IF mutating = None THEN None
                                     ELSE identity.pubkey ])
  /\ released' = None
  /\ UNCHANGED <<identity, store, shown, jobs, sync, mutating, reviewed, launches>>

\* Mutant: an approval is made on whatever list is newest.
SourceUnchecked(change) == TRUE

\* An approval is of the list the user reviewed.
SourceIsCurrent(change) ==
  change.op = "approve" => change.source = CurrentCatalogEvent

\* #mutate up to its first await.  It answers at once when no signer is active
\* and when the reviewed list is no longer the newest.
StartMutation ==
  /\ mutating = None
  /\ queue # <<>>
  /\ queue' = Tail(queue)
  /\ mutating' =
       IF identity.status = "active" /\ SourceIsCurrent(Head(queue))
       THEN [ change |-> Head(queue), identity |-> identity,
              base |-> CurrentCatalogEvent, awaits |-> "update", event |-> None ]
       ELSE None
  /\ released' = None
  /\ UNCHANGED <<identity, store, shown, jobs, sync, requests, reviewed, launches>>

\* Mutant: only the account is checked after an await.
MutationAuthorityAccount ==
  /\ identity.status = "active"
  /\ identity.accountId = mutating.identity.accountId
  /\ identity.pubkey = mutating.identity.pubkey

\* #assertMutationAuthority: nobody else signed in, nothing else was stored.
MutationAuthority ==
  /\ identity.status = "active"
  /\ identity.accountId = mutating.identity.accountId
  /\ identity.pubkey = mutating.identity.pubkey
  /\ CurrentCatalogEvent = mutating.base

EndMutation ==
  /\ mutating' = None
  /\ UNCHANGED <<queue, requests, reviewed>>

QuietStep ==
  /\ released' = None
  /\ UNCHANGED <<identity, store, shown, jobs, sync, launches>>

\* An await of #mutate is answered and the authority is gone, or it fails: the
\* artifact, the signer, or a relay that refuses the event.
MutationFails ==
  /\ mutating # None
  /\ EndMutation
  /\ QuietStep

\* The artifact is verified: ask for a signature, newer than the list replaced.
UpdateAnswered ==
  /\ mutating # None
  /\ mutating.awaits = "update"
  /\ MutationAuthority
  /\ \E at \in 1..MaxTime :
       /\ mutating.base # None => at > mutating.base.at
       /\ mutating' =
            [ mutating EXCEPT
                !.awaits = "signature",
                !.event = [ pubkey  |-> mutating.identity.pubkey,
                            at      |-> at,
                            entries |-> Edited(mutating.change,
                                               EntriesOf(mutating.base)) ] ]
  /\ UNCHANGED <<queue, requests, reviewed>>
  /\ QuietStep

\* The event is signed: publish it.
SignatureAnswered ==
  /\ mutating # None
  /\ mutating.awaits = "signature"
  /\ MutationAuthority
  /\ mutating' = [mutating EXCEPT !.awaits = "publish"]
  /\ UNCHANGED <<queue, requests, reviewed>>
  /\ QuietStep

\* Every relay accepted it: store and show it.
PublishAnswered ==
  /\ mutating # None
  /\ mutating.awaits = "publish"
  /\ MutationAuthority
  /\ store' = [store EXCEPT ![mutating.event.pubkey] = Kept(mutating.event)]
  /\ Refresh(Kept(mutating.event), FALSE)
  /\ EndMutation
  /\ released' = None
  /\ UNCHANGED <<identity, verified, sync, launches>>

-------------------------------------------------------------------------------
(* Launch of an accepted napplet.                                            *)

\* launch up to its await, for selectors that name an accepted entry of the
\* newest list; any other selectors are refused at once.
Launch(entry) ==
  /\ Cardinality(launches) < MaxLaunches
  /\ Accepts(CurrentCatalogEvent, entry.coordinate, entry.manifest)
  /\ launches' = launches \cup {[ identity |-> identity,
                                  event    |-> CurrentCatalogEvent,
                                  entry    |-> entry ]}
  /\ released' = None
  /\ UNCHANGED <<identity, store, shown, jobs, sync, changes>>

\* Mutant: only the account is checked after the await.
StillSignedIn(l) == identity = l.identity

StillAccepted(l) ==
  /\ identity = l.identity
  /\ CurrentCatalogEvent = l.event
  /\ Accepts(CurrentCatalogEvent, l.entry.coordinate, l.entry.manifest)

\* The artifact is verified, and released if nothing changed meanwhile; or it
\* is not available.
LaunchAnswered(l, ok) ==
  /\ l \in launches
  /\ launches' = launches \ {l}
  /\ released' = IF ok /\ StillAccepted(l) THEN l ELSE None
  /\ UNCHANGED <<identity, store, shown, jobs, sync, changes>>

-------------------------------------------------------------------------------
Init ==
  /\ identity = UNAVAILABLE
  /\ store = [k \in Keys |-> None]
  /\ projection = EMPTY
  /\ verified = {}
  /\ running = {} /\ waiting = <<>>
  /\ sync = "off"
  /\ queue = <<>> /\ mutating = None /\ requests = 0 /\ reviewed = None
  /\ launches = {}
  /\ released = None

Next ==
  \/ \E i \in Identities : SourcesEmit(i)
  \/ Reconnect
  \/ \E k \in Keys, at \in 1..MaxTime, s \in RelayLists :
       RelayDelivers([pubkey |-> k, at |-> at, entries |-> s])
  \/ \E how \in {"complete", "error"} : SyncEnds(how)
  \/ \E k \in running, ok \in BOOLEAN : JobEnds(k, ok)
  \/ Project
  \/ Retry
  \/ PreviewInstall
  \/ \E op \in {"approve", "uninstall"}, entry \in Entry : Request(op, entry)
  \/ StartMutation
  \/ MutationFails
  \/ UpdateAnswered
  \/ SignatureAnswered
  \/ PublishAnswered
  \/ \E entry \in Entry : Launch(entry)
  \/ \E l \in launches, ok \in BOOLEAN : LaunchAnswered(l, ok)

\* A resolution that started settles: its loads end with the relays' EOSE and
\* its downloads with the servers' answers.  Nothing else need happen.
JobsSettle ==
  \A entry \in Entry :
    WF_vars(\E k \in running, ok \in BOOLEAN :
              /\ k.coordinate = entry.coordinate
              /\ k.manifest = entry.manifest
              /\ JobEnds(k, ok))

Spec == Init /\ [][Next]_vars

FairSpec == Spec /\ JobsSettle

-------------------------------------------------------------------------------
(* Correctness.                                                              *)

\* Type invariant.
TypeOK ==
  /\ identity \in Identities
  /\ \A k \in Keys : store[k] # None => /\ store[k] \in ListEvent
                                        /\ store[k].pubkey = k
                                        /\ IsList(store[k].entries)
  /\ projection.event \in ListEvent \cup {None}
  /\ projection.entries \in
       Seq([ coordinate : Coordinates, manifest : Manifests,
             resolution : {"pending", "ready", "unavailable"} ])
  /\ projection.status \in {"idle", "refreshing", "ready", "stale", "error"}
  /\ \A k \in verified \cup running \cup Range(waiting) :
       k \in [event : ListEvent, coordinate : Coordinates, manifest : Manifests]
  /\ sync \in {"off", "open", "complete", "error"}
  /\ queue \in Seq(Change)
  /\ mutating # None =>
       mutating \in [ change : Change, identity : Identities,
                      base : ListEvent \cup {None}, event : ListEvent \cup {None},
                      awaits : {"update", "signature", "publish"} ]
  /\ requests \in 0..MaxRequests
  /\ reviewed \in ListEvent \cup {None}
  /\ launches \subseteq [ identity : Identities, event : ListEvent, entry : Entry ]
  /\ released \in launches \cup {None} \/ released.event \in ListEvent

\* An entry shown as pending has a job in flight that will settle it, whatever
\* was dropped, shared or replaced since (#refresh, #enqueue,
\* #applyEnrichment): no card waits for a job that does not exist.
PendingHasJob ==
  \A p \in Range(projection.entries) :
    p.resolution = "pending" =>
      JobKey(projection.event, p) \in running \cup Range(waiting)

\* The artifact of every entry shown as ready is at hand, so authoritySnapshot
\* leaves none of them out, across refreshes, retries and account changes.
ReadyHasArtifact ==
  \A p \in Range(projection.entries) :
    p.resolution = "ready" => JobKey(projection.event, p) \in verified

\* What the tabs are shown and the intent registry reads belongs to the account
\* signed in, also when lists, jobs and changes of another one are under way.
ProjectionIsOwn ==
  projection.event # None => projection.event.pubkey = identity.pubkey

\* Jobs in flight are distinct, at most MaxJobs run, and none waits while a slot
\* is free (#enqueue, #drain).
JobsAreShared ==
  /\ Cardinality(running) <= MaxJobs
  /\ waiting # <<>> => Cardinality(running) = MaxJobs
  /\ \A i, j \in DOMAIN waiting : waiting[i] = waiting[j] => i = j
  /\ running \cap Range(waiting) = {}

\* An artifact is released to a launch only while the account that asked is
\* signed in and its newest list is the one named and accepts that very
\* manifest (the second half of launch).
ReleasedIsAccepted ==
  released # None =>
    /\ released.identity = identity
    /\ released.event = CurrentCatalogEvent
    /\ Accepts(released.event, released.entry.coordinate, released.entry.manifest)

\* A step in which #mutate stores a list.
Stores == /\ mutating # None /\ mutating' = None /\ store' # store

\* A change is made to the list it replaces: nothing another device or an
\* earlier change stored is lost, for all the awaits in between (#serialize,
\* #mutate, #assertMutationAuthority).
NoLostUpdate ==
  [][ Stores =>
        LET k == mutating.event.pubkey
        IN  /\ store'[k].entries = Edited(mutating.change, EntriesOf(store[k]))
            /\ store[k] # None => store'[k].at > store[k].at ]_vars

\* An approval changes the list the user reviewed and no other, however long it
\* waited behind other changes.
ApprovedAsReviewed ==
  [][ Stores /\ mutating.change.op = "approve" =>
        mutating.change.source = store[mutating.event.pubkey] ]_vars

\* Relay errors, reconnects and refreshes keep the list shown: only another
\* account clears it (CatalogSyncOwner.#replace, #refresh).
TruthRetained ==
  [][ projection.event # None /\ projection'.event = None =>
        identity'.pubkey # identity.pubkey ]_vars

\* Every entry shown as pending is eventually ready, unavailable or no longer
\* shown, with a bounded number of jobs and every result that arrives late.
PendingResolves ==
  \A entry \in Entry :
    LET Pending == \E p \in Range(projection.entries) :
                     /\ p.coordinate = entry.coordinate
                     /\ p.manifest = entry.manifest
                     /\ p.resolution = "pending"
    IN  Pending ~> ~Pending

-------------------------------------------------------------------------------
(* What the tests and the plans of the repository say, and the code does not *)
(* do: each is the property of a run that finds it violated.                 *)

\* Reading a projection that is up to date changes nothing: one that EOSE made
\* ready, and of which no entry is pending, is read as ready.
ReadsChangeNothing ==
  [][ Project /\ projection.status = "ready" /\ sync = "complete"
              /\ (\A p \in Range(projection.entries) : p.resolution # "pending")
              /\ projection.event = CurrentCatalogEvent
      => projection' = projection ]_vars

\* A change one account asked for, and that waited for another change, is not
\* made to the list of the account signed in by then.
ChangesStayWithTheirAccount ==
  [][ Stores /\ mutating.change.by # None =>
        mutating.change.by = mutating.event.pubkey ]_vars

\* The cards shown are the account's own, the ready ones have their artifact and
\* the pending ones a job, of which there is one for all that wait for it.
CardsAreServed == PendingHasJob /\ ReadyHasArtifact /\ ProjectionIsOwn /\ JobsAreShared
===============================================================================
