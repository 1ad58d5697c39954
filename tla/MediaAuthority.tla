---------------------------- MODULE MediaAuthority ----------------------------
(***************************************************************************)
(* Shared media playback: which browser tab may play, and what every tab   *)
(* is told about it.  The module covers the reducer                        *)
(* (src/runtime/media_reducer.ts), the coordinator that serializes it and  *)
(* delivers its effects (src/runtime/media_sessions.ts), the seam through  *)
(* which PortalRuntime drives both (src/runtime/portal_runtime.ts), and as *)
(* much of a tab's socket (src/routes/api/runtime.ts) as decides what a    *)
(* delivery does.                                                          *)
(*                                                                         *)
(* An actor is a (connectionId, windowId) pair.  Every call of the         *)
(* coordinator is synchronous: the reducer commits a new state, then the   *)
(* effects are delivered one by one.  A delivery can throw, and the        *)
(* handler of that failure calls back into the coordinator: the nested     *)
(* call waits in `queue'.  Deliveries are therefore steps of their own and *)
(* every call from outside needs an Idle coordinator.                      *)
(*                                                                         *)
(* Abstracted: metadata, capabilities, position and volume (they decide    *)
(* nothing), `transferable' (always ~terminal), and of request             *)
(* fingerprints all but the generation (an exact retry and a conflicting   *)
(* one both leave the state alone and have no effects).                    *)
(***************************************************************************)
EXTENDS Integers, Sequences, FiniteSets

CONSTANTS
  Accounts,       \* account public keys
  Actors,         \* (connection, window) pairs
  SessionIds,     \* canonical session ids
  RequestIds,     \* ids the tabs give their create, transfer and stop requests
  MaxRequests,    \* requests a session remembers (64 in the code)
  MaxGeneration,  \* bound: no call from outside at or above this generation
  MayRefuse,      \* whether the deliver callback may return false
  NoActor, NoSession, NoAccount

ASSUME ConstantsAssumption ==
  /\ MaxRequests \in Nat \ {0}
  /\ MaxGeneration \in Nat
  /\ MayRefuse \in BOOLEAN
  /\ NoActor \notin Actors
  /\ NoSession \notin SessionIds
  /\ NoAccount \notin Accounts

VARIABLES
  sessions,         \* every session ever created, by <<account, session id>>
  activeByAccount,  \* the account's active session
  nextGeneration,   \* the last generation handed out
  eligible,         \* per account, the actors that receive its snapshots
  queue,            \* nested detach calls waiting for the dispatcher
  effects,          \* effects of the running command not yet delivered
  failed,           \* recipients the running command could not deliver to
  recovering,       \* the effects in flight are those of a failed owner
  account,          \* PortalRuntime's accounts.active
  destroyed,        \* PortalRuntime's destroyed flag
  tab,              \* state of each actor's socket, seen from the server
  enacting,         \* history: tabs whose last message lets them play
  seen              \* history: generation each tab was last told of the
                    \* signed-in account's session, 0 if none

authority == <<sessions, activeByAccount, nextGeneration>>
dispatch  == <<queue, effects, failed, recovering>>
history   == <<enacting, seen>>
vars == <<authority, eligible, dispatch, account, destroyed, tab, history>>

Keys == Accounts \X SessionIds

\* A request that was carried out, and the generation it was made against: what
\* its recorded fingerprint says, but for the operation and the tab.
Request == [ id : RequestIds, generation : Nat ]

Session ==
  [ born       : Nat,   \* place in the sessions Map's insertion order
    generation : Nat,
    origin     : Actors,
    owner      : Actors \cup {NoActor},
    status     : {"stopped", "playing"},
    terminal   : BOOLEAN,
    requests   : Seq(Request) ]

Effect ==
  [ to         : Actors,
    kind       : {"stop", "route", "result", "grant", "snapshot"},
    key        : Keys,
    generation : Nat,
    owner      : Actors \cup {NoActor},
    terminal   : BOOLEAN ]

-------------------------------------------------------------------------------
(* The reducer's helpers.                                                    *)

Known == DOMAIN sessions
Live  == {k \in Known : ~sessions[k].terminal}

\* replace(): store the session, and make it the account's active one or not.
Stored(k, s) == [j \in Known \cup {k} |-> IF j = k THEN s ELSE sessions[j]]

\* terminal(): the session ends at generation g.
Ended(s, g) ==
  [s EXCEPT !.generation = g, !.owner = NoActor, !.status = "stopped",
            !.terminal = TRUE]

\* Mutants: the lost owner stays on record; the session falls back to the tab
\* that created it.
RevokedInName(s, g) == [s EXCEPT !.generation = g, !.status = "stopped"]
RevokedToOrigin(s, g) ==
  [s EXCEPT !.generation = g, !.owner = s.origin, !.status = "stopped"]

\* The ownerless session an owner loss leaves behind.
Revoked(s, g) ==
  [s EXCEPT !.generation = g, !.owner = NoActor, !.status = "stopped"]

\* The request map after one more entry; the oldest entry makes room.
Remember(requests, request) ==
  IF Len(requests) < MaxRequests
  THEN Append(requests, request)
  ELSE Append(Tail(requests), request)

Remembers(k, r) == \E i \in DOMAIN sessions[k].requests :
                     sessions[k].requests[i].id = r

\* One effect of the change that gave session k generation g.
Tell(to, kind, k, g, owner, terminal) ==
  [ to |-> to, kind |-> kind, key |-> k, generation |-> g,
    owner |-> owner, terminal |-> terminal ]

\* The stop command for the owner that session k loses, if it has one.
StopOwner(k, g) ==
  IF sessions[k].owner = NoActor THEN {}
  ELSE {Tell(sessions[k].owner, "stop", k, g, NoActor, FALSE)}

Broadcast(k, s, recipients) ==
  {Tell(a, "snapshot", k, s.generation, s.owner, s.terminal) : a \in recipients}

\* Commands over several sessions take them in insertion order; the n-th
\* affected one gets the n-th new generation.
Rank(affected, k) ==
  Cardinality({j \in affected : sessions[j].born <= sessions[k].born})

Latest(affected, a) ==
  CHOOSE k \in affected :
    /\ k[1] = a
    /\ \A j \in affected : j[1] = a => sessions[j].born <= sessions[k].born

SweptSession(affected, ends, k) ==
  LET g == nextGeneration + Rank(affected, k)
  IN  IF ends THEN Ended(sessions[k], g) ELSE Revoked(sessions[k], g)

\* The loop over state.sessions of owner-loss (ends = FALSE), origin-expiry,
\* shutdown and account-change (ends = TRUE).
SweptSessions(affected, ends) ==
  [k \in Known |-> IF k \in affected THEN SweptSession(affected, ends, k)
                                     ELSE sessions[k]]

\* Mutants: the map is rebuilt from the affected sessions only; an ended session
\* stays active.
SweptActiveRebuilt(affected, ends) ==
  [a \in {k[1] : k \in affected} |->
     IF ends THEN NoSession ELSE Latest(affected, a)[2]]
SweptActiveKept(affected, ends) ==
  [a \in Accounts |->
     IF \E k \in affected : k[1] = a THEN Latest(affected, a)[2]
                                     ELSE activeByAccount[a]]

SweptActive(affected, ends) ==
  [a \in Accounts |->
     IF ends
     THEN IF <<a, activeByAccount[a]>> \in affected THEN NoSession
                                                   ELSE activeByAccount[a]
     ELSE IF \E k \in affected : k[1] = a THEN Latest(affected, a)[2]
                                          ELSE activeByAccount[a]]

SweepEffects(affected, ends, recipients) ==
  UNION { LET s == SweptSession(affected, ends, k)
          IN  StopOwner(k, s.generation) \cup Broadcast(k, s, recipients[k[1]])
          : k \in affected }

Sweep(affected, ends, recipients) ==
  /\ sessions' = SweptSessions(affected, ends)
  /\ activeByAccount' = SweptActive(affected, ends)
  /\ nextGeneration' = nextGeneration + Cardinality(affected)
  /\ effects' = SweepEffects(affected, ends, recipients)

OwnedBy(a) == {k \in Live : sessions[k].owner = a}
CreatedBy(a) == {k \in Live : sessions[k].origin = a}
LiveOf(acct) == {k \in Live : k[1] = acct}

-------------------------------------------------------------------------------
(* The coordinator.                                                          *)

Idle == effects = {} /\ failed = <<>> /\ queue = <<>>

\* A call from outside may start: nothing is being dispatched.
MayCall == Idle /\ ~destroyed /\ nextGeneration < MaxGeneration

Listening(a) == [eligible EXCEPT ![account] = @ \cup {a}]
Deaf(a) == [acct \in Accounts |-> eligible[acct] \ {a}]

\* #run starts a command that no failure has touched yet.
Run == failed' = <<>> /\ recovering' = FALSE /\ UNCHANGED queue

\* What the tab does with a message: a stop command and a snapshot that names
\* another owner end its playback, a snapshot that names it allows it.
Receives(e) ==
  /\ enacting' = IF e.kind = "snapshot" /\ e.owner = e.to /\ ~e.terminal
                 THEN enacting \cup {e.to}
                 ELSE IF e.kind \in {"stop", "snapshot"}
                      THEN enacting \ {e.to}
                      ELSE enacting
  /\ seen' = IF e.kind = "snapshot" /\ e.key[1] = account
             THEN [seen EXCEPT ![e.to] = e.generation]
             ELSE seen

\* Mutant: the new owner is told before the old one is stopped.
PhaseGrantFirst == [kind \in {"stop", "route", "result", "grant", "snapshot"} |->
                      IF kind \in {"stop", "route"} THEN 4 ELSE 1]

Phase == [kind \in {"stop", "route", "result", "grant", "snapshot"} |->
            CASE kind \in {"stop", "route"} -> 0
              [] kind = "result"   -> 1
              [] kind = "grant"    -> 2
              [] kind = "snapshot" -> 3]

Before(e, f) ==
  \/ e.generation < f.generation
  \/ e.generation = f.generation /\ Phase[e.kind] < Phase[f.kind]

\* The effects are delivered in order; recipients of one broadcast in any.
NextEffects == {e \in effects : \A f \in effects : ~Before(f, e)}

\* The message reaches the tab.  Nothing is written to a closed socket, and
\* connections.send's false is not passed on by the portal's send callback.
DeliverSent(e) ==
  /\ e \in NextEffects
  /\ tab[e.to] # "connecting"
  /\ effects' = effects \ {e}
  /\ IF tab[e.to] = "open" THEN Receives(e) ELSE UNCHANGED history
  /\ UNCHANGED <<authority, eligible, queue, failed, recovering, account, destroyed, tab>>

\* deliver returns false; a recovering command ignores it.
DeliverRefused(e) ==
  /\ MayRefuse
  /\ e \in NextEffects
  /\ effects' = effects \ {e}
  /\ failed' = IF recovering THEN failed ELSE Append(failed, e.to)
  /\ UNCHANGED <<authority, eligible, queue, recovering, account, destroyed, tab, history>>

\* The send throws: the failure handler detaches the actor.  The nested call
\* drops it from every group at once and queues the owner loss, with the
\* recipients of this moment.
DeliverThrows(e) ==
  /\ e \in NextEffects
  /\ tab[e.to] = "connecting"
  /\ effects' = effects \ {e}
  /\ eligible' = Deaf(e.to)
  /\ queue' = Append(queue, [actor |-> e.to, recipients |-> Deaf(e.to)])
  /\ UNCHANGED <<authority, failed, recovering, account, destroyed, tab, history>>

\* Mutant: the failed recipient stays in the list.
RecoverFailedAgain ==
  /\ effects = {}
  /\ failed # <<>>
  /\ recovering' = TRUE
  /\ Sweep(OwnedBy(Head(failed)), FALSE, eligible)
  /\ UNCHANGED <<eligible, queue, failed, account, destroyed, tab, history>>

\* A refused recipient that owns a live session loses it.
RecoverFailed ==
  /\ effects = {}
  /\ failed # <<>>
  /\ failed' = Tail(failed)
  /\ recovering' = TRUE
  /\ Sweep(OwnedBy(Head(failed)), FALSE, eligible)
  /\ UNCHANGED <<eligible, queue, account, destroyed, tab, history>>

\* The next nested detach runs once its predecessor is done.
RunQueued ==
  /\ effects = {}
  /\ failed = <<>>
  /\ queue # <<>>
  /\ queue' = Tail(queue)
  /\ recovering' = FALSE
  /\ Sweep(OwnedBy(Head(queue).actor), FALSE, Head(queue).recipients)
  /\ UNCHANGED <<eligible, failed, account, destroyed, tab, history>>

Dispatch ==
  \/ \E e \in effects : DeliverSent(e) \/ DeliverRefused(e) \/ DeliverThrows(e)
  \/ RecoverFailed
  \/ RunQueued

-------------------------------------------------------------------------------
(* Commands of a tab.  The bridge first makes the tab a listener.            *)

\* A tab may call: its socket is the current attachment and someone is
\* signed in.
Commands(a) == MayCall /\ tab[a] = "open" /\ account # NoAccount

Commit(k, s, active, told) ==
  /\ sessions' = Stored(k, s)
  /\ activeByAccount' = active
  /\ effects' = told

Answers == {{"result"}, {"result", "grant"}}

\* media.session.create with a new id: the account's live session ends, its
\* owner is stopped, and the creator owns the new session.  With autoplay the
\* answers are the result and a grant, else the result alone.
Create(a, id, r, answers) ==
  LET k     == <<account, id>>
      prior == {j \in LiveOf(account) : j[2] = activeByAccount[account]}
      g     == nextGeneration + Cardinality(prior) + 1
      s     == [ born |-> g, generation |-> g, origin |-> a, owner |-> a,
                 status |-> "stopped", terminal |-> FALSE,
                 requests |-> <<[id |-> r, generation |-> 0]>> ]
  IN  /\ Commands(a)
      /\ k \notin Known
      /\ ~ \E j \in Known : sessions[j].origin = a /\ Remembers(j, r)
      /\ eligible' = Listening(a)
      /\ sessions' = [j \in Known \cup {k} |->
                        IF j = k THEN s
                        ELSE IF j \in prior
                             THEN Ended(sessions[j], nextGeneration + 1)
                             ELSE sessions[j]]
      /\ activeByAccount' = [activeByAccount EXCEPT ![account] = id]
      /\ nextGeneration' = g
      /\ effects' = (UNION {StopOwner(j, nextGeneration + 1) : j \in prior})
                    \cup {Tell(a, kind, k, g, a, FALSE) : kind \in answers}
                    \cup Broadcast(k, s, eligible'[account])
      /\ Run
      /\ UNCHANGED <<account, destroyed, tab, history>>

\* Mutant: a request made before the ownership last changed is carried out.
FencedLate(k, g, r) == k \in Live /\ k[1] = account /\ ~Remembers(k, r)

\* A fenced request: the session is live, the request new, the generation
\* current.
Fenced(k, g, r) ==
  /\ k \in Live
  /\ k[1] = account
  /\ ~Remembers(k, r)
  /\ g = sessions[k].generation

\* The session after transfer (owner = the requester) or stop (no owner).
Reassigned(k, owner, g, r) ==
  [sessions[k] EXCEPT !.generation = nextGeneration + 1, !.owner = owner,
                      !.status = "stopped",
                      !.requests = Remember(@, [id |-> r, generation |-> g])]

Transfer(a, k, g, r) ==
  LET s == Reassigned(k, a, g, r)
  IN  /\ Commands(a)
      /\ Fenced(k, g, r)
      /\ eligible' = Listening(a)
      /\ nextGeneration' = s.generation
      /\ Commit(k, s, [activeByAccount EXCEPT ![account] = k[2]],
                StopOwner(k, s.generation)
                \cup {Tell(a, "grant", k, s.generation, a, FALSE)}
                \cup Broadcast(k, s, eligible'[account]))
      /\ Run
      /\ UNCHANGED <<account, destroyed, tab, history>>

Stop(a, k, g, r) ==
  LET s == Reassigned(k, NoActor, g, r)
  IN  /\ Commands(a)
      /\ Fenced(k, g, r)
      /\ eligible' = Listening(a)
      /\ nextGeneration' = s.generation
      /\ Commit(k, s, [activeByAccount EXCEPT ![account] = k[2]],
                StopOwner(k, s.generation)
                \cup Broadcast(k, s, eligible'[account]))
      /\ Run
      /\ UNCHANGED <<account, destroyed, tab, history>>

\* media.session.destroy, for the origin only.  No stop command: the owner
\* learns it from the terminal snapshot.
Destroy(a, k) ==
  LET s == Ended(sessions[k], nextGeneration + 1)
  IN  /\ Commands(a)
      /\ k \in Live /\ k[1] = account
      /\ sessions[k].origin = a
      /\ eligible' = Listening(a)
      /\ nextGeneration' = s.generation
      /\ Commit(k, s,
                [activeByAccount EXCEPT ![account] =
                   IF @ = k[2] THEN NoSession ELSE @],
                Broadcast(k, s, eligible'[account]))
      /\ Run
      /\ UNCHANGED <<account, destroyed, tab, history>>

\* A report that keeps the generation; told is sent before the broadcast.
Report(a, k, s, told) ==
  /\ Commands(a)
  /\ k \in Live /\ k[1] = account
  /\ eligible' = Listening(a)
  /\ Commit(k, s, [activeByAccount EXCEPT ![account] = k[2]],
            told \cup Broadcast(k, s, eligible'[account]))
  /\ Run
  /\ UNCHANGED <<nextGeneration, account, destroyed, tab, history>>

ByOwner(a, k, g) == sessions[k].owner = a /\ sessions[k].generation = g

\* media.session.update: the origin changes the metadata.
Update(a, k) ==
  k \in Live /\ sessions[k].origin = a /\ Report(a, k, sessions[k], {})

\* media.state: the owner reports what it plays.
ReportState(a, k, g, status) ==
  /\ k \in Live /\ ByOwner(a, k, g)
  /\ Report(a, k, [sessions[k] EXCEPT !.status = status], {})

\* media.capabilities and media.command: the owner's message, the second sent
\* back to the owner.
ReportCapabilities(a, k, g) ==
  k \in Live /\ ByOwner(a, k, g) /\ Report(a, k, sessions[k], {})

Route(a, k, g) ==
  /\ k \in Live /\ ByOwner(a, k, g)
  /\ Report(a, k, sessions[k], {Tell(a, "route", k, g, NoActor, FALSE)})

\* Any other message: malformed, a retry, stale or not authorized.  The bridge
\* has made the tab a listener all the same.
Rejected(a) ==
  /\ Commands(a)
  /\ eligible' = Listening(a)
  /\ UNCHANGED <<authority, dispatch, account, destroyed, tab, history>>

-------------------------------------------------------------------------------
(* Sockets and accounts.                                                     *)

\* A socket attaches: a new window, a resumed one, or a second socket that
\* replaces the first without a detach.  openWindow makes a new window a
\* listener of the signed-in account.
Attach(a) ==
  /\ MayCall
  /\ tab[a] # "expired"
  /\ tab' = [tab EXCEPT ![a] = "connecting"]
  /\ eligible' = IF tab[a] = "unopened" /\ account # NoAccount
                 THEN Listening(a) ELSE eligible
  /\ UNCHANGED <<authority, dispatch, account, destroyed, history>>

\* The open event: the tab resets its player and gets the current session.
Open(a) ==
  LET current == {k \in Known : account # NoAccount
                                /\ k = <<account, activeByAccount[account]>>}
      owns    == \E k \in current : sessions[k].owner = a /\ ~sessions[k].terminal
  IN  /\ MayCall
      /\ tab[a] = "connecting"
      /\ tab' = [tab EXCEPT ![a] = "open"]
      /\ eligible' = IF account # NoAccount THEN Listening(a) ELSE eligible
      /\ enacting' = IF owns THEN enacting \cup {a} ELSE enacting \ {a}
      /\ seen' = [seen EXCEPT ![a] =
                    IF current = {} THEN 0
                    ELSE sessions[CHOOSE k \in current : TRUE].generation]
      /\ UNCHANGED <<authority, dispatch, account, destroyed>>

\* The current socket closes: the registry clears its send function and
\* detaches the actor.
Detach(a) ==
  /\ MayCall
  /\ tab[a] \in {"connecting", "open"}
  /\ tab' = [tab EXCEPT ![a] = "closed"]
  /\ eligible' = Deaf(a)
  /\ Sweep(OwnedBy(a), FALSE, eligible')
  /\ Run
  /\ seen' = [seen EXCEPT ![a] = 0]
  /\ UNCHANGED <<account, destroyed, enacting>>

\* The reconnect grace period ends: the sessions the window created end.
ExpireOrigin(a) ==
  /\ MayCall
  /\ tab[a] = "closed"
  /\ tab' = [tab EXCEPT ![a] = "expired"]
  /\ Sweep(CreatedBy(a), TRUE, eligible)
  /\ Run
  /\ UNCHANGED <<eligible, account, destroyed, history>>

\* Mutant: the sessions of the new account end, not those of the old one.
ChangeAccountLate(acct) ==
  /\ Sweep(IF acct = NoAccount THEN {} ELSE LiveOf(acct), TRUE, eligible)
  /\ account' = acct
  /\ Run
  /\ seen' = [a \in Actors |-> 0]
  /\ UNCHANGED <<eligible, destroyed, tab, enacting>>

ChangeAccount(acct) ==
  /\ Sweep(IF account = NoAccount THEN {} ELSE LiveOf(account), TRUE, eligible)
  /\ account' = acct
  /\ Run
  /\ seen' = [a \in Actors |-> 0]
  /\ UNCHANGED <<eligible, destroyed, tab, enacting>>

SignIn(acct) == MayCall /\ acct # account /\ ChangeAccount(acct)
SignOut == MayCall /\ account # NoAccount /\ ChangeAccount(NoAccount)

\* PortalRuntime.destroy: every session ends, then nobody listens any more.
Shutdown ==
  /\ MayCall
  /\ destroyed' = TRUE
  /\ Sweep(Live, TRUE, eligible)
  /\ eligible' = [acct \in Accounts |-> {}]
  /\ Run
  /\ UNCHANGED <<account, tab, history>>

-------------------------------------------------------------------------------

Init ==
  /\ sessions = [k \in {} |-> {}]
  /\ activeByAccount = [acct \in Accounts |-> NoSession]
  /\ nextGeneration = 0
  /\ eligible = [acct \in Accounts |-> {}]
  /\ queue = <<>>
  /\ effects = {}
  /\ failed = <<>>
  /\ recovering = FALSE
  /\ account = NoAccount
  /\ destroyed = FALSE
  /\ tab = [a \in Actors |-> "unopened"]
  /\ enacting = {}
  /\ seen = [a \in Actors |-> 0]

Command(a) ==
  \/ \E id \in SessionIds, r \in RequestIds, answers \in Answers :
       Create(a, id, r, answers)
  \/ \E k \in Live, g \in 1..nextGeneration, r \in RequestIds :
       Transfer(a, k, g, r) \/ Stop(a, k, g, r)
  \/ \E k \in Live : Destroy(a, k) \/ Update(a, k)
  \/ \E k \in Live, g \in 1..nextGeneration :
       \/ \E status \in {"stopped", "playing"} : ReportState(a, k, g, status)
       \/ ReportCapabilities(a, k, g)
       \/ Route(a, k, g)
  \/ Rejected(a)

Lifecycle(a) == Attach(a) \/ Open(a) \/ Detach(a) \/ ExpireOrigin(a)

Next ==
  \/ Dispatch
  \/ \E a \in Actors : Command(a) \/ Lifecycle(a)
  \/ \E acct \in Accounts : SignIn(acct)
  \/ SignOut
  \/ Shutdown

\* A call runs to completion on the event loop: dispatch steps do not stop.
Spec == Init /\ [][Next]_vars /\ WF_vars(Dispatch)

-------------------------------------------------------------------------------
(* Properties.                                                               *)

\* Every variable has its type: the maps of the reducer and the coordinator,
\* the commands in flight and the socket states.
TypeOK ==
  /\ Known \subseteq Keys
  /\ sessions \in [Known -> Session]
  /\ activeByAccount \in [Accounts -> SessionIds \cup {NoSession}]
  /\ nextGeneration \in Nat
  /\ eligible \in [Accounts -> SUBSET Actors]
  /\ queue \in Seq([actor : Actors, recipients : [Accounts -> SUBSET Actors]])
  /\ effects \subseteq Effect
  /\ failed \in Seq(Actors)
  /\ recovering \in BOOLEAN
  /\ account \in Accounts \cup {NoAccount}
  /\ destroyed \in BOOLEAN
  /\ tab \in [Actors -> {"unopened", "connecting", "open", "closed", "expired"}]
  /\ enacting \subseteq Actors
  /\ seen \in [Actors -> Nat]

\* An account never has two sessions that still play, and activeByAccount names
\* exactly the one it has: replace() keeps the two maps of the reducer in step
\* through every command.
OneLiveSession ==
  /\ \A k \in Live : activeByAccount[k[1]] = k[2]
  /\ \A acct \in Accounts : activeByAccount[acct] # NoSession =>
       <<acct, activeByAccount[acct]>> \in Live

\* Generations fence commands: no two sessions share one and none is ahead of
\* the counter the next command takes its own from.
GenerationsAreDistinct ==
  /\ \A k \in Known : sessions[k].generation \in 1..nextGeneration
  /\ \A j, k \in Known :
       sessions[j].generation = sessions[k].generation => j = k

\* The owner of a live session has a socket and hears of every change, or its
\* revocation is already queued: a detach, nested or not, never leaves a
\* session with an owner that is gone.
OwnerIsReachable ==
  \A k \in Live : sessions[k].owner # NoActor =>
    LET a == sessions[k].owner
    IN  /\ tab[a] \in {"connecting", "open"}
        /\ \/ a \in eligible[k[1]]
           \/ destroyed
           \/ \E i \in DOMAIN queue : queue[i].actor = a

\* Only the signed-in account has a live session: sign-out and account change
\* end the previous account's.
OnlySignedInPlays == \A k \in Live : k[1] = account

\* A session does not outlive the window that created it (expireMediaOrigin).
OriginsAreAlive == \A k \in Live : tab[sessions[k].origin] # "expired"

\* Revoke before grant: in the order in which messages reach the tabs there is
\* never a moment at which two connected tabs have both been told to play.
OnePlayer ==
  \A a, b \in enacting : tab[a] = "open" /\ tab[b] = "open" => a = b

\* Once a call is dispatched, a connected tab that believes it may play is the
\* owner the server has on record.
PlayersOwn ==
  Idle => \A a \in enacting : tab[a] = "open" =>
            \E k \in Live : sessions[k].owner = a

\* A listener that has been told of the account's session once is told of every
\* later change: no broadcast skips it, nested failures of others included.
ListenersFollow ==
  Idle /\ account # NoAccount /\ ~destroyed =>
    \A a \in eligible[account], k \in LiveOf(account) :
      seen[a] # 0 => seen[a] = sessions[k].generation

\* A session that changes owner or ends takes a generation above every one in
\* use, a terminal session never changes again, and a transfer or stop that is
\* carried out was made against the ownership it replaces.
FencedStep ==
  /\ nextGeneration' >= nextGeneration
  /\ \A k \in Known :
       /\ sessions[k].terminal => sessions'[k] = sessions[k]
       /\ \/ sessions'[k].owner # sessions[k].owner
          \/ sessions'[k].terminal # sessions[k].terminal
          => sessions'[k].generation > nextGeneration
       /\ sessions'[k].requests # sessions[k].requests
          => \E r \in RequestIds :
               sessions'[k].requests =
                 Remember(sessions[k].requests,
                          [id |-> r, generation |-> sessions[k].generation])

\* Of the requests that tabs make against one and the same ownership of a session
\* at most one is ever carried out, also when its id has long been forgotten.
OneRequestEach ==
  \A k \in Known :
    LET carriedOut == sessions[k].requests
    IN  /\ \A m, n \in DOMAIN carriedOut :
             m < n => carriedOut[m].generation < carriedOut[n].generation
        /\ \A n \in DOMAIN carriedOut : carriedOut[n].generation < sessions[k].generation

\* What generations are for: a request made against an ownership that is gone is
\* not carried out after it.
GenerationFence == [][FencedStep /\ OneRequestEach']_authority

\* Ownership is taken, never given back: the only way to become owner is a
\* create or transfer of one's own, so a tab that resumes its connection comes
\* back without what it lost.
OwnershipIsTaken ==
  [][ \A k \in DOMAIN sessions' :
        LET before == IF k \in Known THEN sessions[k].owner ELSE NoActor
            after  == sessions'[k].owner
        IN  after \notin {before, NoActor} =>
              /\ tab[after] = "open"
              /\ \E e \in effects' : e.to = after /\ e.key = k
                                     /\ e.kind \in {"grant", "result"}
    ]_sessions

\* Nested calls do not keep the dispatcher busy for ever: it always returns.
DispatchEnds == []<>Idle

\* What the tabs play and show is what the authority decided: at most one plays,
\* the owner on record, and the listeners know of the newest owner.
TabsFollow == OnePlayer /\ PlayersOwn /\ ListenersFollow

\* A live session has an owner that is there to play it, and the window that
\* created it.
SessionsAreHeld == OwnerIsReachable /\ OriginsAreAlive
===============================================================================
