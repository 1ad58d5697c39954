----------------------------- MODULE NapDispatcher -----------------------------
(***************************************************************************)
(* The requests of napplets: PortalRuntime (portal_runtime.ts) says which  *)
(* launch holds a window, NapDispatcher (nap_dispatcher.ts) runs the       *)
(* requests and decides, when one is done, whether it may still answer.    *)
(*                                                                         *)
(* Resource reads and uploads are transfers; they, common.* and storage.*  *)
(* are awaited, and the services that carry them out are external here.    *)
(* A request answered at once changes nothing and is left out, but for     *)
(* resource.cancel.  The operation's window generation and abort signal    *)
(* are one flag: both only ever make its result void.                      *)
(***************************************************************************)
EXTENDS Naturals, FiniteSets

CONSTANTS NapWindows, Releases,   \* a release: coordinate and accepted manifest event
          NapAccounts, Requests,
          MaxTransfers,           \* TRANSFER_POLICY.maxActivePerWindow
          MaxActive,              \* MAX_ACTIVE_COMMON_PER_WINDOW
          MaxLaunches,            \* bound: launches of a window
          Nothing                 \* no account, release or authority

ASSUME DispatcherAssumption ==
  /\ {MaxTransfers, MaxActive, MaxLaunches} \subseteq Nat \ {0} /\ MaxTransfers <= MaxActive
  /\ Nothing \notin NapAccounts \cup Releases

VARIABLES
  account,     \* the runtime's active account
  accepted,    \* releases the catalog of the account accepts
  openWindows,      \* windows in transferSends
  windowAuthorities, \* windowAuthorities
  launched,    \* windowAuthorityGenerations
  bridges,     \* what the window's bridge closed over: authority and verifiedNapplet
  revoked,     \* #revokedWindows
  operations,  \* operations under way: #active, and the storage requests
  answered,    \* what the last step sent a napplet that had been awaited, if anything
  ended        \* #destroyed

dispatcherVars == <<account, accepted, openWindows, windowAuthorities, launched, bridges, revoked,
                    operations, answered, ended>>
held == <<account, accepted, openWindows, windowAuthorities, launched, bridges, revoked, ended>>

Authority == [account : NapAccounts, release : Releases, launch : 1..MaxLaunches]
\* release and account: the owner the operation was dispatched for.
Operation == [window : NapWindows, kind : {"transfer", "common", "storage"},
              account : NapAccounts, release : Releases, launch : 0..MaxLaunches, valid : BOOLEAN]

Of(w) == {r \in DOMAIN operations : operations[r].window = w}
ActiveOf(w) == {r \in Of(w) : operations[r].kind # "storage"}

\* The authority validator of configureTransfers.
IsAuthorized(w, a) ==
  /\ windowAuthorities[w] = a /\ a # Nothing
  /\ account = a.account /\ a.release \in accepted

\* isCurrentTransferRecipient, of what an operation sends
MayReceive(op) ==
  /\ windowAuthorities[op.window] # Nothing
  /\ windowAuthorities[op.window].account = op.account
  /\ windowAuthorities[op.window].release = op.release

Quiet == answered' = {}

DispatcherInit ==
  /\ account = Nothing /\ accepted \in SUBSET Releases /\ openWindows = {} /\ revoked = {}
  /\ windowAuthorities = [w \in NapWindows |-> Nothing]
  /\ launched = [w \in NapWindows |-> 0]
  /\ bridges = [w \in NapWindows |-> [authority |-> Nothing, verified |-> Nothing]]
  /\ operations = [r \in {} |-> Nothing]
  /\ answered = {} /\ ended = FALSE

-----------------------------------------------------------------------------
(***************************************************************************)
(* Windows and launches.  A new launch and an abort void what is under     *)
(* way, the one by its generation, the other by its signal too.            *)
(***************************************************************************)
Voided(windows) == operations' =
  [r \in DOMAIN operations |->
     [operations[r] EXCEPT !.valid = @ /\ operations[r].window \notin windows]]

OpenNapWindow(w) ==
  /\ w \notin openWindows
  /\ openWindows' = openWindows \cup {w}
  /\ bridges' = [bridges EXCEPT ![w] = [authority |-> Nothing, verified |-> Nothing]]
  /\ Quiet
  /\ UNCHANGED <<account, accepted, windowAuthorities, launched, revoked, operations, ended>>

\* Mutant: the window keeps its generation.
AuthorizeWindowOnly(w) == revoked' = revoked \ {w} /\ UNCHANGED operations

AuthorizeWindow(w) == revoked' = revoked \ {w} /\ Voided({w})

(***************************************************************************)
(* registerLaunchAuthority, for runtime.start (which verified the release) *)
(* and for catalog.launch, which may come too late for its window.         *)
(***************************************************************************)
RegisterLaunch(w, release, start) ==
  /\ account # Nothing /\ ~ended /\ launched[w] < MaxLaunches
  /\ start => w \in openWindows
  /\ launched' = [launched EXCEPT ![w] = @ + 1]
  /\ windowAuthorities' = [windowAuthorities EXCEPT
       ![w] = [account |-> account, release |-> release, launch |-> launched'[w]]]
  /\ bridges' = [bridges EXCEPT
       ![w] = [authority |-> windowAuthorities'[w],
               verified |-> IF start THEN release ELSE @.verified]]
  /\ AuthorizeWindow(w)
  /\ Quiet
  /\ UNCHANGED <<account, accepted, openWindows, ended>>

\* abortWindow, of each of some windows
AbortWindows(windows) == revoked' = revoked \cup windows /\ Voided(windows)

Unauthorized(windows) ==
  windowAuthorities' =
    [w \in NapWindows |-> IF w \in windows THEN Nothing ELSE windowAuthorities[w]]

DestroyWindow(w) ==
  /\ w \in openWindows
  /\ openWindows' = openWindows \ {w}
  /\ Unauthorized({w})
  /\ AbortWindows({w})
  /\ Quiet
  /\ UNCHANGED <<account, accepted, launched, bridges, ended>>

NapSignIn(a) ==
  /\ account # a
  /\ account' = a
  /\ Quiet
  /\ UNCHANGED <<accepted, openWindows, windowAuthorities, launched, bridges, revoked, operations,
                 ended>>

NapSignOut ==
  /\ account # Nothing
  /\ account' = Nothing
  /\ Unauthorized(NapWindows)
  /\ AbortWindows(openWindows)
  /\ Quiet
  /\ UNCHANGED <<accepted, openWindows, launched, bridges, ended>>

\* The catalog is another, from a relay or by a command here.
CatalogIs(releases) ==
  /\ releases # accepted
  /\ accepted' = releases
  /\ Quiet
  /\ UNCHANGED <<account, openWindows, windowAuthorities, launched, bridges, revoked, operations,
                 ended>>

\* revokeObsoleteAuthorities, after an approval or an uninstall
RevokeObsolete(release) ==
  /\ release \notin accepted
  /\ LET windows == {w \in NapWindows : /\ windowAuthorities[w] # Nothing
                                        /\ windowAuthorities[w].release = release}
     IN  windows # {} /\ Unauthorized(windows) /\ AbortWindows(windows)
  /\ Quiet
  /\ UNCHANGED <<account, accepted, openWindows, launched, bridges, ended>>

DestroyDispatcher ==
  /\ ~ended
  /\ ended' = TRUE /\ openWindows' = {}
  /\ Unauthorized(NapWindows)
  /\ Voided(NapWindows)
  /\ Quiet
  /\ UNCHANGED <<account, accepted, launched, bridges, revoked>>

-----------------------------------------------------------------------------
(***************************************************************************)
(* Requests that are awaited; the others are refused at once.              *)
(***************************************************************************)
Dispatched(r, w, kind, a, release, launch) ==
  /\ operations' = [q \in DOMAIN operations \cup {r} |->
       IF q # r THEN operations[q]
       ELSE [window |-> w, kind |-> kind, account |-> a, release |-> release,
             launch |-> launch, valid |-> TRUE]]
  /\ Quiet
  /\ UNCHANGED held

MayAsk(w, r) == w \in openWindows /\ account # Nothing /\ r \notin DOMAIN operations

Full(w, kind, max) == Cardinality(ActiveOf(w)) >= max

\* The owner is the account of the moment with the release the bridge verified.
AskTransfer(r, w) ==
  /\ MayAsk(w, r) /\ bridges[w].verified # Nothing
  /\ ~Full(w, "transfer", MaxTransfers)
  /\ Dispatched(r, w, "transfer", account, bridges[w].verified, launched[w])

\* The owner is the launch the bridge registered.
AskCommonOrStorage(r, w, kind) ==
  LET a == bridges[w].authority
  IN  /\ MayAsk(w, r) /\ w \notin revoked /\ IsAuthorized(w, a)
      /\ kind = "common" => ~Full(w, kind, MaxActive)
      /\ Dispatched(r, w, kind, a.account, a.release, a.launch)

CancelTransfer(r) ==
  /\ r \in DOMAIN operations /\ operations[r].kind = "transfer" /\ operations[r].valid
  /\ operations' = [operations EXCEPT ![r].valid = FALSE]
  /\ Quiet
  /\ UNCHANGED held

(***************************************************************************)
(* An operation is done, with a result or an error: may it answer?         *)
(***************************************************************************)
LaunchOf(op) == [account |-> op.account, release |-> op.release, launch |-> op.launch]

MayAnswer(op) ==
  CASE op.kind = "transfer" -> op.valid /\ MayReceive(op)
    [] op.kind = "common" -> op.valid /\ IsAuthorized(op.window, LaunchOf(op))
    [] op.kind = "storage" -> op.window \notin revoked /\ IsAuthorized(op.window, LaunchOf(op))

\* Mutant: an aborted operation keeps its place.
DoneIfValid(r) ==
  /\ r \in DOMAIN operations /\ operations[r].valid
  /\ answered' = {operations[r]}
  /\ operations' = [q \in DOMAIN operations \ {r} |-> operations[q]]
  /\ UNCHANGED held

Done(r) ==
  /\ r \in DOMAIN operations
  /\ answered' = IF MayAnswer(operations[r]) /\ operations[r].window \in openWindows /\ ~ended
                 THEN {operations[r]} ELSE {}
  /\ operations' = [q \in DOMAIN operations \ {r} |-> operations[q]]
  /\ UNCHANGED held

-----------------------------------------------------------------------------
RuntimeStep ==
  \/ \E w \in NapWindows : \/ OpenNapWindow(w) \/ DestroyWindow(w)
                           \/ \E release \in Releases, start \in BOOLEAN :
                                RegisterLaunch(w, release, start)
  \/ \E a \in NapAccounts : NapSignIn(a)
  \/ NapSignOut
  \/ \E releases \in SUBSET Releases : CatalogIs(releases)
  \/ \E release \in Releases : RevokeObsolete(release)
  \/ DestroyDispatcher

RequestStep(r) ==
  \/ \E w \in NapWindows : AskTransfer(r, w) \/ \E kind \in {"common", "storage"} :
                                                   AskCommonOrStorage(r, w, kind)
  \/ CancelTransfer(r)

DispatcherNext == RuntimeStep \/ \E r \in Requests : RequestStep(r) \/ Done(r)

\* Every service ends what it was asked, with a result, an error or a timeout.
DispatcherFairness == \A r \in Requests : WF_dispatcherVars(Done(r))

DispatcherSpec == DispatcherInit /\ [][DispatcherNext]_dispatcherVars /\ DispatcherFairness

-----------------------------------------------------------------------------
(***************************************************************************)
(* Accounts, authorities, bridges and operations have their types; a       *)
(* window that holds an authority is not a revoked one.                    *)
(***************************************************************************)
DispatcherTypeOK ==
  /\ account \in NapAccounts \cup {Nothing} /\ accepted \subseteq Releases
  /\ openWindows \cup revoked \subseteq NapWindows
  /\ windowAuthorities \in [NapWindows -> Authority \cup {Nothing}]
  /\ launched \in [NapWindows -> 0..MaxLaunches]
  /\ bridges \in [NapWindows -> [authority : Authority \cup {Nothing},
                                 verified : Releases \cup {Nothing}]]
  /\ DOMAIN operations \subseteq Requests
  /\ answered \cup {operations[r] : r \in DOMAIN operations} \subseteq Operation
  /\ ended \in BOOLEAN
  /\ \A w \in revoked : windowAuthorities[w] = Nothing

(***************************************************************************)
(* What a service answers late reaches the launch that asked or nobody,    *)
(* however the window was aborted, reauthorized or launched again          *)
(* meanwhile, with the very same release even (nap_dispatcher.ts:255).     *)
(***************************************************************************)
AnswersTheLaunch ==
  \A op \in answered : /\ op.window \in openWindows /\ windowAuthorities[op.window] # Nothing
                       /\ windowAuthorities[op.window].launch = op.launch

(***************************************************************************)
(* Storage and common.* act for the signed-in account and a release its    *)
(* catalog accepts when they answer, not only when they are asked: the     *)
(* account may change, and the catalog, with no authority revoked.         *)
(***************************************************************************)
AnswersTheSignedIn ==
  \A op \in answered : op.kind # "transfer" => account = op.account /\ op.release \in accepted

(***************************************************************************)
(* The operations of a window stay within their bounds; those whose owner  *)
(* is gone count until they are done.                                      *)
(***************************************************************************)
OperationsAreBounded ==
  \A w \in NapWindows :
    /\ Cardinality({r \in ActiveOf(w) : operations[r].kind = "transfer"}) <= MaxTransfers
    /\ Cardinality(ActiveOf(w)) <= MaxActive

(***************************************************************************)
(* A window at its bound is not so for ever: aborted and cancelled         *)
(* operations give their place back.                                       *)
(***************************************************************************)
PlacesAreReturned ==
  DispatcherFairness => \A w \in NapWindows :
    Cardinality(ActiveOf(w)) = MaxActive ~> Cardinality(ActiveOf(w)) < MaxActive

(***************************************************************************)
(* What is answered is due to the launch and the account it reaches, and   *)
(* what is awaited is bounded, whatever was revoked meanwhile.             *)
(***************************************************************************)
AnswersAreDue == AnswersTheLaunch /\ AnswersTheSignedIn /\ OperationsAreBounded
===============================================================================
