-------------------------- MODULE ConnectionRegistry --------------------------
(***************************************************************************)
(* Reconnectable connections: the registry of src/runtime/connections.ts,  *)
(* the websocket route that drives it (src/routes/api/runtime.ts) and the  *)
(* per-window state PortalRuntime keeps for it                             *)
(* (src/runtime/portal_runtime.ts).                                        *)
(*                                                                         *)
(* A socket attaches to a new connection, or resumes one whose token its   *)
(* tab was told.  The close of the socket starts the grace timer of the    *)
(* connection; when it fires, everything the connection owns goes: its     *)
(* window, the route's session, the runtime's state for the window and the *)
(* relay subscriptions.  Each handler is synchronous up to its awaits; the *)
(* two launch handlers await, and what runs after an await is an action of *)
(* its own.                                                                *)
(*                                                                         *)
(* Abstracted: message payloads, and tokens (a tab that opened a socket of *)
(* a connection can resume it; a token the server forgot opens a new       *)
(* connection).                                                            *)
(***************************************************************************)
EXTENDS Integers, Functions

CONSTANTS
  Connections,  \* ids attach() hands out
  Windows,      \* window ids, fresh or requested by an intent target
  Sockets,      \* every websocket that will ever be upgraded
  SubIds,       \* subscription ids a tab chooses
  Handles,      \* relay subscriptions that can run at once
  LaunchKinds,  \* launch commands the tabs send
  NoConnection

ASSUME ConstantsAssumption ==
  /\ LaunchKinds \subseteq {"start", "catalog"}
  /\ NoConnection \notin Connections

VARIABLES
  connections,    \* ConnectionRegistry.#connections
  windows,        \* ConnectionRegistry.#windows: the connection owning each
  subscriptions,  \* ConnectionRegistry.#subscriptions
  running,        \* relay subscriptions not closed
  sessions,       \* the route's sessions: the window of each connection
  opened,         \* windows PortalRuntime knows: its own registry, transferSends
  authorities,    \* PortalRuntime's windowAuthorities: the connection in each
  signedIn,       \* accounts.active is set
  socket,         \* each socket and the attachment it was given
  greeted,        \* connections whose token reached a tab
  launches,       \* launch handlers waiting for an await
  used            \* connection ids handed out

registry == <<connections, windows, subscriptions, running>>
runtime == <<sessions, opened, authorities, signedIn>>
vars == <<registry, runtime, socket, greeted, launches, used>>

Connection ==
  [ attached   : BOOLEAN,  \* send is set
    armed      : BOOLEAN,  \* timer is set
    generation : Nat,
    windows    : SUBSET Windows ]

Socket ==
  [ state      : {"new", "connecting", "open", "closed", "refused"},
    connection : Connections \cup {NoConnection},
    generation : Nat ]

Launch ==
  [ socket     : Sockets,
    step       : {"restore", "artifact", "catalog"},
    connection : Connections,
    window     : Windows ]

Keys == Connections \X Windows \X SubIds

-------------------------------------------------------------------------------
(* Helpers.                                                                  *)

Without(f, S) == Restrict(f, DOMAIN f \ S)
With(f, x, y) == [z \in DOMAIN f \cup {x} |-> IF z = x THEN y ELSE f[z]]

Known == DOMAIN connections

\* isCurrentAttachment, the first thing a message handler asks.
IsCurrent(s) ==
  LET c == socket[s].connection
  IN  /\ c \in Known
      /\ connections[c].attached
      /\ connections[c].generation = socket[s].generation

\* The route handles a message of socket s.
Serves(s) == socket[s].state = "open" /\ IsCurrent(s)

WindowOf(s) == sessions[socket[s].connection]

\* Mutant: the socket is not told which connection it serves.
AttachedAnonymous(s, state, c, g) ==
  [socket EXCEPT ![s] = [state |-> state, connection |-> NoConnection, generation |-> g]]

\* A socket given the attachment of connection c.
Attached(s, state, c, g) ==
  [socket EXCEPT ![s] = [state |-> state, connection |-> c, generation |-> g]]

NewRecord(owned) ==
  [attached |-> TRUE, armed |-> FALSE, generation |-> 0, windows |-> owned]

-------------------------------------------------------------------------------
(* Sockets.                                                                  *)

\* Upgrade without a token the registry knows: attach, createWindow with the
\* requested or a fresh id, openWindow, and the route's session.
Connect(s, c, w) ==
  /\ socket[s].state = "new"
  /\ c \notin used
  /\ w \notin DOMAIN windows
  /\ connections' = With(connections, c, NewRecord({w}))
  /\ windows' = With(windows, w, c)
  /\ sessions' = With(sessions, c, w)
  /\ opened' = With(opened, w, c)
  /\ socket' = Attached(s, "connecting", c, 0)
  /\ used' = used \cup {c}
  /\ UNCHANGED <<subscriptions, running, authorities, signedIn, greeted, launches>>

\* createWindow throws because the requested window is owned.  attach has made
\* the record already and nothing removes it: the socket has no close handler.
ConnectRefused(s, c, w) ==
  /\ socket[s].state = "new"
  /\ c \notin used
  /\ w \in DOMAIN windows
  /\ connections' = With(connections, c, NewRecord({}))
  /\ socket' = Attached(s, "refused", c, 0)
  /\ used' = used \cup {c}
  /\ UNCHANGED <<windows, subscriptions, running, runtime, greeted, launches>>

\* Mutants: the timer keeps running; the generation stays.
ResumeArmed(s, c) ==
  /\ socket[s].state = "new"
  /\ c \in Known \cap greeted
  /\ connections' = [connections EXCEPT ![c].attached = TRUE,
                                        ![c].generation = @ + 1]
  /\ socket' = Attached(s, "connecting", c, connections[c].generation + 1)
  /\ UNCHANGED <<windows, subscriptions, running, runtime, greeted, launches, used>>
ResumeSameGeneration(s, c) ==
  /\ socket[s].state = "new"
  /\ c \in Known \cap greeted
  /\ connections' = [connections EXCEPT ![c].attached = TRUE, ![c].armed = FALSE]
  /\ socket' = Attached(s, "connecting", c, connections[c].generation)
  /\ UNCHANGED <<windows, subscriptions, running, runtime, greeted, launches, used>>

\* Upgrade with the token of a connection that is attached or in its grace
\* period: the new socket takes it over and its session stays.
Resume(s, c) ==
  /\ socket[s].state = "new"
  /\ c \in Known \cap greeted
  /\ connections' = [connections EXCEPT ![c].attached = TRUE,
                                        ![c].armed = FALSE,
                                        ![c].generation = @ + 1]
  /\ socket' = Attached(s, "connecting", c, connections[c].generation + 1)
  /\ UNCHANGED <<windows, subscriptions, running, runtime, greeted, launches, used>>

\* The open handler tells the tab its token.
Open(s) ==
  /\ socket[s].state = "connecting"
  /\ socket' = [socket EXCEPT ![s].state = "open"]
  /\ greeted' = greeted \cup {socket[s].connection}
  /\ UNCHANGED <<registry, runtime, launches, used>>

\* The close handler detaches; the registry ignores the close of a socket that
\* was superseded.
Close(s) ==
  LET c == socket[s].connection
  IN  /\ socket[s].state \in {"connecting", "open"}
      /\ socket' = [socket EXCEPT ![s].state = "closed"]
      /\ connections' =
           IF c \in Known /\ ~connections[c].armed
              /\ connections[c].generation = socket[s].generation
           THEN [connections EXCEPT ![c].attached = FALSE, ![c].armed = TRUE]
           ELSE connections
      /\ UNCHANGED <<windows, subscriptions, running, runtime, greeted, launches, used>>

\* The grace timer: remove() for each window, which closes its subscriptions
\* and through the destroyWindow callback ends the session and PortalRuntime's
\* state for the window; then the record and the token go.
Expire(c) ==
  LET gone == connections[c].windows
      subs == {k \in DOMAIN subscriptions : k[1] = c /\ k[2] \in gone}
  IN  /\ c \in Known
      /\ connections[c].armed
      /\ ~connections[c].attached
      /\ connections' = Without(connections, {c})
      /\ windows' = Without(windows, gone)
      /\ subscriptions' = Without(subscriptions, subs)
      /\ running' = running \ {subscriptions[k] : k \in subs}
      /\ sessions' = Without(sessions, {d \in DOMAIN sessions : sessions[d] \in gone})
      /\ opened' = Without(opened, gone)
      /\ authorities' = Without(authorities, gone)
      /\ UNCHANGED <<signedIn, socket, greeted, launches, used>>

-------------------------------------------------------------------------------
(* Messages.                                                                 *)

\* Mutant: the subscription that is replaced keeps running.
SubscribeOver(s, id, h) ==
  LET k == <<socket[s].connection, WindowOf(s), id>>
  IN  /\ Serves(s)
      /\ h \notin running
      /\ subscriptions' = With(subscriptions, k, h)
      /\ running' = running \cup {h}
      /\ UNCHANGED <<connections, windows, runtime, socket, greeted, launches, used>>

\* relay.subscribe: the new relay subscription replaces the one tracked under
\* the same id, which is closed.
Subscribe(s, id, h) ==
  LET k        == <<socket[s].connection, WindowOf(s), id>>
      previous == {subscriptions[j] : j \in {k} \cap DOMAIN subscriptions}
  IN  /\ Serves(s)
      /\ h \notin running
      /\ subscriptions' = With(subscriptions, k, h)
      /\ running' = (running \ previous) \cup {h}
      /\ UNCHANGED <<connections, windows, runtime, socket, greeted, launches, used>>

\* A handler that waits at a step of a launch.
Waiting(s, step) ==
  [ socket |-> s, step |-> step,
    connection |-> socket[s].connection, window |-> WindowOf(s) ]

\* runtime.start waits for signer.restore, catalog.launch for the catalog.
StartLaunch(s, kind) ==
  /\ Serves(s)
  /\ launches' = launches \cup
       {Waiting(s, IF kind = "start" THEN "restore" ELSE "catalog")}
  /\ UNCHANGED <<registry, runtime, socket, greeted, used>>

\* A launch handler ends without registering anything: the signer is not
\* active, the artifact or the catalog failed.
LaunchFails(l) ==
  /\ launches' = launches \ {l}
  /\ UNCHANGED <<registry, runtime, socket, greeted, used>>

\* signer.restore is done: a socket that is still current signs in and waits
\* for the artifact.
Restored(l) ==
  /\ l.step = "restore"
  /\ LET rest == launches \ {l}
     IN  IF IsCurrent(l.socket)
         THEN /\ signedIn' = TRUE
              /\ launches' = rest \cup {[l EXCEPT !.step = "artifact"]}
         ELSE /\ launches' = rest
              /\ UNCHANGED signedIn
  /\ UNCHANGED <<registry, sessions, opened, authorities, socket, greeted, used>>

\* Mutant: nobody need be signed in any more.
RegisterSignedOut(l) == authorities' = With(authorities, l.window, l.connection)

\* registerLaunchAuthority, in the name of whoever is signed in.
RegisterLaunchAuthority(l) ==
  authorities' = IF signedIn THEN With(authorities, l.window, l.connection)
                             ELSE authorities

\* Mutant: the socket is not looked at again.
ArtifactResolvedLate(l) ==
  /\ l.step = "artifact"
  /\ launches' = launches \ {l}
  /\ RegisterLaunchAuthority(l)
  /\ UNCHANGED <<registry, sessions, opened, signedIn, socket, greeted, used>>

\* The artifact is there: the launch counts if the socket is still open and
\* current.
ArtifactResolved(l) ==
  /\ l.step = "artifact"
  /\ launches' = launches \ {l}
  /\ IF Serves(l.socket) THEN RegisterLaunchAuthority(l) ELSE UNCHANGED authorities
  /\ UNCHANGED <<registry, sessions, opened, signedIn, socket, greeted, used>>

\* catalog.launch succeeded: the bridge registers without another look.
CatalogLaunched(l) ==
  /\ l.step = "catalog"
  /\ launches' = launches \ {l}
  /\ RegisterLaunchAuthority(l)
  /\ UNCHANGED <<registry, sessions, opened, signedIn, socket, greeted, used>>

\* The sign-in page and runtime.signout.
SignIn ==
  /\ ~signedIn
  /\ signedIn' = TRUE
  /\ UNCHANGED <<registry, sessions, opened, authorities, socket, greeted, launches, used>>

SignOut ==
  /\ signedIn
  /\ signedIn' = FALSE
  /\ authorities' = Without(authorities, DOMAIN authorities)
  /\ UNCHANGED <<registry, sessions, opened, socket, greeted, launches, used>>

-------------------------------------------------------------------------------

Init ==
  /\ connections = [c \in {} |-> {}]
  /\ windows = [w \in {} |-> {}]
  /\ subscriptions = [k \in {} |-> {}]
  /\ running = {}
  /\ sessions = [c \in {} |-> {}]
  /\ opened = [w \in {} |-> {}]
  /\ authorities = [w \in {} |-> {}]
  /\ signedIn = FALSE
  /\ socket = [s \in Sockets |->
                 [state |-> "new", connection |-> NoConnection, generation |-> 0]]
  /\ greeted = {}
  /\ launches = {}
  /\ used = {}

SocketStep(s) ==
  \/ \E c \in Connections, w \in Windows : Connect(s, c, w) \/ ConnectRefused(s, c, w)
  \/ \E c \in Connections : Resume(s, c)
  \/ Open(s)
  \/ Close(s)

MessageStep(s) ==
  \/ \E id \in SubIds, h \in Handles : Subscribe(s, id, h)
  \/ \E kind \in LaunchKinds : StartLaunch(s, kind)

LaunchStep(l) ==
  LaunchFails(l) \/ Restored(l) \/ ArtifactResolved(l) \/ CatalogLaunched(l)

Next ==
  \/ \E s \in Sockets : SocketStep(s) \/ MessageStep(s)
  \/ \E l \in launches : LaunchStep(l)
  \/ \E c \in Connections : Expire(c)
  \/ SignIn
  \/ SignOut

\* Timers fire.
ExpiryFairness == \A c \in Connections : WF_vars(Expire(c))

Spec == Init /\ [][Next]_vars /\ ExpiryFairness

-------------------------------------------------------------------------------
(* Properties.                                                               *)

\* Every variable has its type: the maps of the registry, the route and the
\* runtime, the sockets and the waiting launches.
TypeOK ==
  /\ Known \subseteq used /\ used \subseteq Connections
  /\ connections \in [Known -> Connection]
  /\ DOMAIN windows \subseteq Windows
  /\ windows \in [DOMAIN windows -> Connections]
  /\ DOMAIN subscriptions \subseteq Keys
  /\ subscriptions \in [DOMAIN subscriptions -> Handles]
  /\ running \subseteq Handles
  /\ DOMAIN sessions \subseteq Connections
  /\ sessions \in [DOMAIN sessions -> Windows]
  /\ DOMAIN opened \subseteq Windows
  /\ opened \in [DOMAIN opened -> Connections]
  /\ DOMAIN authorities \subseteq Windows
  /\ authorities \in [DOMAIN authorities -> Connections]
  /\ signedIn \in BOOLEAN
  /\ socket \in [Sockets -> Socket]
  /\ greeted \subseteq used
  /\ launches \subseteq Launch

Alive(s) == socket[s].state \in {"connecting", "open"}

\* The newest socket of a connection is the one whose messages are handled, as
\* long as it is not closed; no older one is, however late it closes or speaks.
NewestIsServed ==
  \A s \in Sockets : Alive(s) =>
    (IsCurrent(s) <=> \A t \in Sockets :
                        socket[t].connection = socket[s].connection =>
                          socket[t].generation <= socket[s].generation
                          /\ (t = s \/ socket[t].generation # socket[s].generation))

\* A connection without its newest socket has its timer set, one with it has
\* not: no tab loses its session while connected, and no session is kept for
\* ever after it left.
DetachedIsArmed ==
  \A c \in Known :
    /\ connections[c].armed <=> ~connections[c].attached
    /\ connections[c].attached =>
         \E s \in Sockets : /\ socket[s].state \in {"connecting", "open", "refused"}
                            /\ socket[s].connection = c
                            /\ socket[s].generation = connections[c].generation

\* The registry, the route and PortalRuntime know the same windows, one for
\* each connection that was given one.
WindowsAgree ==
  /\ opened = windows
  /\ DOMAIN sessions \subseteq Known
  /\ \A c \in Known : connections[c].windows = {w \in DOMAIN windows : windows[w] = c}
  /\ \A c \in DOMAIN sessions : connections[c].windows = {sessions[c]}
  /\ \A w \in DOMAIN windows : windows[w] \in DOMAIN sessions

\* Every relay subscription that runs is tracked once, under a window that its
\* connection owns: replacing, resuming and expiring leak none.
SubscriptionsAreOwned ==
  /\ running = {subscriptions[k] : k \in DOMAIN subscriptions}
  /\ \A j, k \in DOMAIN subscriptions : subscriptions[j] = subscriptions[k] => j = k
  /\ \A k \in DOMAIN subscriptions : k[2] \in DOMAIN windows /\ windows[k[2]] = k[1]

\* Capabilities are held only for a window that is open, by the connection that
\* has it: no launch that finishes late revives the authority of a window that
\* is gone.
AuthorityHasWindow ==
  \A w \in DOMAIN authorities : w \in DOMAIN windows /\ windows[w] = authorities[w]

\* Nobody signed in, nothing authorized: sign-out clears every authority, and a
\* launch that was waiting across it grants none.
SignedOutHoldsNothing == ~signedIn => DOMAIN authorities = {}

\* A connection that lost its socket is resumed or removed.
DetachedEnds ==
  ExpiryFairness => \A c \in Connections :
    (c \in Known /\ ~connections[c].attached) ~> (c \notin Known \/ connections[c].attached)

\* The records, their timers and the windows in all three places tell the same.
RecordsAgree == DetachedIsArmed /\ WindowsAgree
===============================================================================
