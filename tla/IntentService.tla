----------------------------- MODULE IntentService -----------------------------
(***************************************************************************)
(* Intent invocations: a napplet asks for another napplet to be opened.    *)
(* The module covers IntentService (src/runtime/intent.ts) and the part of *)
(* the websocket route that feeds it (src/routes/api/runtime.ts).          *)
(*                                                                         *)
(* The tab of the caller reserves the navigation, the invocation follows;  *)
(* the service verifies the handler (an await), issues a single-use ticket *)
(* for a new target window and tells the caller's tab to open it.  The     *)
(* target claims the ticket, the tab acknowledges the navigation, in any   *)
(* order; both together answer the invocation "handled".  A timer, a       *)
(* catalog change, a window's end and sign-out answer it "failed".         *)
(*                                                                         *)
(* Abstracted: archetypes, actions and payloads (whether select() and      *)
(* policyAllows() accept a request is an input), availability messages,    *)
(* the route's limit of 32 correlations, and ids: a ticket and its target  *)
(* window are named by their invocation.                                   *)
(***************************************************************************)
EXTENDS Integers, Sequences, FiniteSets, Functions

CONSTANTS
  Accounts,
  Tabs,           \* windows of calling napplets
  Invocations,    \* every intent.invoke message
  Reservations,   \* reservation ids the tabs choose
  MaxPending,     \* options.maxPending, 32 in the code
  MaxGeneration,  \* bound: catalog changes stop at this generation
  NoAccount

ASSUME ConstantsAssumption ==
  /\ MaxPending \in Nat \ {0}
  /\ MaxGeneration \in Nat \ {0}
  /\ NoAccount \notin Accounts

VARIABLES
  service,     \* pending, call, timers, tickets and replies, see Service
  generation,  \* IntentService.#generation
  registry,    \* account of the verified candidates, NoAccount if none
  account,     \* PortalRuntime's accounts.active
  launching,   \* reserve() calls awaiting catalog.launch; TRUE while the
               \* socket they came from is there
  reserved,    \* the route's pendingIntentReservations
  held,        \* the route's pendingIntentAcks
  open,        \* tabs whose window exists
  destroyed,   \* the service is destroyed
  opened       \* history: successful claims of each invocation

world == <<generation, registry, account, destroyed>>
route == <<reserved, held>>
vars == <<service, world, launching, route, open, opened>>

Call ==
  [ caller      : Tabs,
    reservation : Reservations,
    account     : Accounts,
    generation  : Nat,
    ticketed    : BOOLEAN,  \* ticket is not null
    claimed     : BOOLEAN,
    committed   : BOOLEAN,
    terminal    : BOOLEAN ]

Outcomes == {"rejected", "failed", "handled"}

\* The state of the service that settling changes:
\*   pending   #pending, the invocation under each reservation id
\*   call      the PendingInvocation objects
\*   timers    calls whose timer is set
\*   tickets   #tickets
\*   replies   answers sent to the caller, in order
Service == {"pending", "call", "timers", "tickets", "replies"}

-------------------------------------------------------------------------------
(* Settling, as functions of the service's state.                            *)

Without(f, S) == Restrict(f, DOMAIN f \ S)
With(f, x, y) == [z \in DOMAIN f \cup {x} |-> IF z = x THEN y ELSE f[z]]

PendingCalls(v) == Range(v.pending)

Replied(v, S, outcome) ==
  [i \in Invocations |-> IF i \in S THEN Append(v.replies[i], outcome)
                                    ELSE v.replies[i]]

\* #settle for every call of S, once for each.
Settled(v, S, outcome) ==
  LET live == {i \in S : ~v.call[i].terminal}
  IN  [ pending |-> Without(v.pending, {v.call[i].reservation : i \in live}),
        call    |-> [i \in DOMAIN v.call |->
                       IF i \in live THEN [v.call[i] EXCEPT !.terminal = TRUE]
                                     ELSE v.call[i]],
        timers  |-> v.timers \ live,
        tickets |-> v.tickets \ live,
        replies |-> Replied(v, live, outcome) ]

\* acknowledge() takes the message of tab t: the pending call under r is the
\* named invocation, t's own, and still of this catalog and this account.
Accepts(v, t, r, i) ==
  /\ r \in DOMAIN v.pending
  /\ v.pending[r] = i
  /\ ~v.call[i].terminal
  /\ v.call[i].caller = t
  /\ v.call[i].generation = generation
  /\ v.call[i].account = account

Acknowledged(v, t, r, i, committed) ==
  IF ~Accepts(v, t, r, i) THEN v
  ELSE IF ~committed THEN Settled(v, {i}, "failed")
  ELSE LET w == [v EXCEPT !.call[i].committed = TRUE]
       IN  IF w.call[i].claimed THEN Settled(w, {i}, "handled") ELSE w

\* After reserve() the route replays the acknowledgement it held back.
Replayed(v, t, r) ==
  IF <<t, r>> \in DOMAIN held
  THEN Acknowledged(v, t, r, held[<<t, r>>].invocation, held[<<t, r>>].committed)
  ELSE v

-------------------------------------------------------------------------------
(* Messages of the caller's tab.                                             *)

\* intent.navigation.reserve waits in the route for its invocation.
Reserve(t, r, i) ==
  /\ t \in open
  /\ i \notin DOMAIN service.call /\ service.replies[i] = <<>>
  /\ \A e \in reserved : e.invocation # i
  /\ reserved' = reserved \cup {[tab |-> t, reservation |-> r, invocation |-> i]}
  /\ UNCHANGED <<service, world, launching, held, open, opened>>

NewCall(t, r) ==
  [ caller |-> t, reservation |-> r, account |-> account,
    generation |-> generation, ticketed |-> FALSE,
    claimed |-> FALSE, committed |-> FALSE, terminal |-> FALSE ]

\* intent.invoke of an invocation the tab has not reserved: it fails.
InvokeUnreserved(t, i) ==
  /\ t \in open
  /\ i \notin DOMAIN service.call /\ service.replies[i] = <<>>
  /\ \A e \in reserved : e.invocation # i
  /\ service' = [service EXCEPT !.replies = Replied(service, {i}, "rejected")]
  /\ UNCHANGED <<world, launching, route, open, opened>>

\* Mutant: the candidate may be that of an account signed out since.
AdmitsAnyone(r, allowed) ==
  /\ r \notin DOMAIN service.pending
  /\ Cardinality(DOMAIN service.pending) < MaxPending
  /\ registry # NoAccount
  /\ allowed

\* reserve() goes ahead: the reservation id is free, there is room, the handler
\* is a current candidate of the signed-in account.
Admits(r, allowed) ==
  /\ r \notin DOMAIN service.pending
  /\ Cardinality(DOMAIN service.pending) < MaxPending
  /\ registry # NoAccount
  /\ registry = account
  /\ allowed

Invoke(e, allowed) ==
  LET i == e.invocation
      r == e.reservation
  IN  /\ e.tab \in open
      /\ reserved' = reserved \ {e}
      /\ IF Admits(r, allowed)
         THEN /\ service' =
                   [service EXCEPT
                      !.pending = With(service.pending, r, i),
                      !.call    = With(service.call, i, NewCall(e.tab, r)),
                      !.timers  = service.timers \cup {i}]
              /\ launching' = With(launching, i, TRUE)
              /\ UNCHANGED held
         ELSE /\ service' =
                   Replayed([service EXCEPT !.replies =
                               Replied(service, {i}, "rejected")], e.tab, r)
              /\ held' = Without(held, {<<e.tab, r>>})
              /\ UNCHANGED launching
      /\ UNCHANGED <<world, open, opened>>

\* Mutant: the wait for the catalog is over, whatever happened in it.
TicketIssuedLate(i, ok) ==
  IF ~ok
  THEN Settled(service, {i}, "failed")
  ELSE [service EXCEPT !.call[i].ticketed = TRUE,
                       !.tickets = service.tickets \cup {i}]

\* The rest of reserve() after its await.
TicketIssued(i, ok) ==
  LET call == service.call[i]
  IN  IF ~ok \/ call.generation # generation \/ call.account # account
         \/ call.terminal
      THEN Settled(service, {i}, "failed")
      ELSE [service EXCEPT !.call[i].ticketed = TRUE,
                           !.tickets = service.tickets \cup {i}]

\* catalog.launch returns; the route of a socket that is still there replays
\* what it held back.
Launched(i, ok) ==
  LET call == service.call[i]
      id   == <<call.caller, call.reservation>>
  IN  /\ i \in DOMAIN launching
      /\ launching' = Without(launching, {i})
      /\ IF launching[i]
         THEN /\ service' = Replayed(TicketIssued(i, ok), id[1], id[2])
              /\ held' = Without(held, {id})
         ELSE /\ service' = TicketIssued(i, ok)
              /\ UNCHANGED held
      /\ UNCHANGED <<world, reserved, open, opened>>

\* intent.navigation.ack.  What the service does not take is held back.
Acknowledge(t, r, i, committed) ==
  /\ t \in open
  /\ service' = Acknowledged(service, t, r, i, committed)
  /\ held' = IF Accepts(service, t, r, i) \/ <<t, r>> \in DOMAIN held THEN held
             ELSE With(held, <<t, r>>, [invocation |-> i, committed |-> committed])
  /\ UNCHANGED <<world, launching, reserved, open, opened>>

\* The correlations of the route end after 15 seconds.
ReservationLapses(e) ==
  /\ reserved' = reserved \ {e}
  /\ UNCHANGED <<service, world, launching, held, open, opened>>

HeldLapses(id) ==
  /\ held' = Without(held, {id})
  /\ UNCHANGED <<service, world, launching, reserved, open, opened>>

-------------------------------------------------------------------------------
(* The target.                                                               *)

\* Mutants: the account is not looked at; the ticket can be used again.
ClaimAnyAccount(i) ==
  LET r == service.call[i].reservation
      p == service.pending[r]
      v == [service EXCEPT !.tickets = service.tickets \ {i},
                           !.call[p].claimed = TRUE]
  IN  /\ i \in service.tickets
      /\ r \in DOMAIN service.pending
      /\ ~service.call[p].terminal
      /\ service.call[i].generation = generation
      /\ service' = IF v.call[p].committed THEN Settled(v, {p}, "handled") ELSE v
      /\ opened' = [opened EXCEPT ![i] = @ + 1]
      /\ UNCHANGED <<world, launching, route, open>>
ClaimAgain(i) ==
  LET r == service.call[i].reservation
      p == service.pending[r]
      v == [service EXCEPT !.call[p].claimed = TRUE]
  IN  /\ i \in service.tickets
      /\ r \in DOMAIN service.pending
      /\ ~service.call[p].terminal
      /\ opened[i] < 2
      /\ service.call[i].account = account
      /\ service.call[i].generation = generation
      /\ service' = IF v.call[p].committed THEN Settled(v, {p}, "handled") ELSE v
      /\ opened' = [opened EXCEPT ![i] = @ + 1]
      /\ UNCHANGED <<world, launching, route, open>>

\* The target window claims ticket i and is given the napplet and the payload.
\* Any other claim is refused and changes nothing.
Claim(i) ==
  LET r == service.call[i].reservation
      p == service.pending[r]
      v == [service EXCEPT !.tickets = service.tickets \ {i},
                           !.call[p].claimed = TRUE]
  IN  /\ i \in service.tickets
      /\ r \in DOMAIN service.pending
      /\ ~service.call[p].terminal
      /\ service.call[i].account = account
      /\ service.call[i].generation = generation
      /\ service' = IF v.call[p].committed THEN Settled(v, {p}, "handled") ELSE v
      /\ opened' = [opened EXCEPT ![i] = @ + 1]
      /\ UNCHANGED <<world, launching, route, open>>

\* A claim after expiresAt, which lies after the timer: the timer is overdue.
ClaimExpired(i) ==
  LET r == service.call[i].reservation
  IN  /\ i \in service.tickets \cap service.timers
      /\ r \in DOMAIN service.pending
      /\ service' = Settled(service, {service.pending[r]}, "failed")
      /\ UNCHANGED <<world, launching, route, open, opened>>

-------------------------------------------------------------------------------
(* What ends invocations.                                                    *)

\* The timer settles whatever is pending under the reservation id by then.
Timeout(i) ==
  LET r == service.call[i].reservation
      v == [service EXCEPT !.timers = service.timers \ {i}]
  IN  /\ i \in service.timers
      /\ service' = IF r \in DOMAIN service.pending
                    THEN Settled(v, {service.pending[r]}, "failed") ELSE v
      /\ UNCHANGED <<world, launching, route, open, opened>>

\* The catalog changed: the candidates are those of its new snapshot, and every
\* call selected from the old ones fails.
Rebuild(acct) ==
  /\ ~destroyed
  /\ generation < MaxGeneration
  /\ generation' = generation + 1
  /\ registry' = acct
  /\ service' = Settled(service,
                        {i \in PendingCalls(service) :
                           service.call[i].generation # generation'}, "failed")
  /\ UNCHANGED <<account, destroyed, launching, route, open, opened>>

\* PortalRuntime.signIn does not touch the invocations, signOut aborts those of
\* every window that is open.
SignIn(acct) ==
  /\ acct # account
  /\ account' = acct
  /\ UNCHANGED <<service, generation, registry, destroyed, launching, route, open, opened>>

OfTab(t) == {i \in PendingCalls(service) : service.call[i].caller = t}

SignOut ==
  /\ account # NoAccount
  /\ account' = NoAccount
  /\ service' = Settled(service, UNION {OfTab(t) : t \in open}, "failed")
  /\ UNCHANGED <<generation, registry, destroyed, launching, route, open, opened>>

\* The route's correlations of tab t's socket are cleared.
Cleared(t) ==
  /\ reserved' = {e \in reserved : e.tab # t}
  /\ held' = Without(held, {id \in DOMAIN held : id[1] = t})
  /\ launching' = [i \in DOMAIN launching |->
                     launching[i] /\ service.call[i].caller # t]

\* The socket closes; the tab may come back with another one.
Disconnect(t) ==
  /\ t \in open
  /\ Cleared(t)
  /\ UNCHANGED <<service, world, open, opened>>

\* The grace period of the tab's connection ends: destroyWindow.
CloseWindow(t) ==
  /\ t \in open
  /\ open' = open \ {t}
  /\ Cleared(t)
  /\ service' = Settled(service, OfTab(t), "failed")
  /\ UNCHANGED <<world, opened>>

\* The target window of i was connected and its grace period ends.
CloseTarget(i) ==
  /\ i \in PendingCalls(service)
  /\ service.call[i].ticketed
  /\ service' = Settled(service, {i}, "failed")
  /\ UNCHANGED <<world, launching, route, open, opened>>

\* The runtime ends, or another catalog is configured.
Destroy ==
  /\ ~destroyed
  /\ destroyed' = TRUE
  /\ service' = Settled(service, PendingCalls(service), "failed")
  /\ UNCHANGED <<generation, registry, account, launching, route, open, opened>>

-------------------------------------------------------------------------------

Init ==
  /\ service = [ pending |-> [r \in {} |-> {}],
                 call    |-> [i \in {} |-> {}],
                 timers  |-> {},
                 tickets |-> {},
                 replies |-> [i \in Invocations |-> <<>>] ]
  /\ generation = 1
  /\ registry \in Accounts \cup {NoAccount}
  /\ account = registry
  /\ launching = [i \in {} |-> {}]
  /\ reserved = {}
  /\ held = [id \in {} |-> {}]
  /\ open = Tabs
  /\ destroyed = FALSE
  /\ opened = [i \in Invocations |-> 0]

FromCaller(t) ==
  \/ \E r \in Reservations, i \in Invocations :
       \/ Reserve(t, r, i)
       \/ \E committed \in BOOLEAN : Acknowledge(t, r, i, committed)
  \/ \E i \in Invocations : InvokeUnreserved(t, i)
  \/ Disconnect(t)
  \/ CloseWindow(t)

OfCall(i) ==
  \/ \E ok \in BOOLEAN : Launched(i, ok)
  \/ Claim(i)
  \/ ClaimExpired(i)
  \/ CloseTarget(i)

OfWorld ==
  \/ \E acct \in Accounts : SignIn(acct)
  \/ SignOut
  \/ \E acct \in Accounts \cup {NoAccount} : Rebuild(acct)
  \/ Destroy

Next ==
  \/ \E t \in Tabs : FromCaller(t)
  \/ \E e \in reserved, allowed \in BOOLEAN : Invoke(e, allowed)
  \/ \E e \in reserved : ReservationLapses(e)
  \/ \E id \in DOMAIN held : HeldLapses(id)
  \/ \E i \in DOMAIN service.call : OfCall(i)
  \/ \E i \in service.timers : Timeout(i)
  \/ OfWorld

\* Timers fire.  Nothing says that catalog.launch returns, that a target claims
\* or that a tab acknowledges.
Spec == Init /\ [][Next]_vars
        /\ \A i \in Invocations : WF_vars(i \in service.timers /\ Timeout(i))

-------------------------------------------------------------------------------
(* Properties.                                                               *)

\* Every variable has its type: the service's maps, the route's correlations,
\* the waiting launches.
TypeOK ==
  /\ DOMAIN service = Service
  /\ DOMAIN service.pending \subseteq Reservations
  /\ DOMAIN service.call \subseteq Invocations
  /\ service.call \in [DOMAIN service.call -> Call]
  /\ PendingCalls(service) \subseteq DOMAIN service.call
  /\ service.timers \subseteq DOMAIN service.call
  /\ service.tickets \subseteq DOMAIN service.call
  /\ service.replies \in [Invocations -> Seq(Outcomes)]
  /\ generation \in Nat
  /\ registry \in Accounts \cup {NoAccount}
  /\ account \in Accounts \cup {NoAccount}
  /\ DOMAIN launching \subseteq DOMAIN service.call
  /\ launching \in [DOMAIN launching -> BOOLEAN]
  /\ reserved \subseteq [tab : Tabs, reservation : Reservations, invocation : Invocations]
  /\ DOMAIN held \subseteq Tabs \X Reservations
  /\ held \in [DOMAIN held -> [invocation : Invocations, committed : BOOLEAN]]
  /\ open \subseteq Tabs
  /\ destroyed \in BOOLEAN
  /\ opened \in [Invocations -> Nat]

\* A call is unanswered as long as it is pending under its own reservation id
\* with its timer set; a timer never runs for a call that is gone, where it
\* would hit another call of the same id.
PendingIsWaiting ==
  \A i \in DOMAIN service.call :
    LET r == service.call[i].reservation
    IN  /\ ~service.call[i].terminal <=> i \in service.timers
        /\ ~service.call[i].terminal <=>
             r \in DOMAIN service.pending /\ service.pending[r] = i

\* The ticket of a call can be claimed only while the call is pending, is of the
\* current catalog generation, and has not been claimed.
TicketsArePending ==
  \A i \in service.tickets :
    /\ i \in PendingCalls(service)
    /\ service.call[i].generation = generation
    /\ ~service.call[i].claimed

\* A napplet is handed out with its payload only to the account that is signed
\* in and selected it, under the catalog it was selected from; the same holds
\* when "handled" is said.
OpenedIsAuthorized ==
  [][ \A i \in DOMAIN service.call :
        \/ opened'[i] # opened[i]
        \/ service'.replies[i] = Append(service.replies[i], "handled")
        => /\ service.call[i].account = account
           /\ service.call[i].generation = generation
           /\ ~service.call[i].terminal ]_<<service, opened>>

\* What the caller sees of an invocation.
StatusOf(i) ==
  IF i \notin DOMAIN service.call /\ service.replies[i] = <<>> THEN "idle"
  ELSE IF service.replies[i] = <<>> THEN "waiting"
  ELSE service.replies[i][Len(service.replies[i])]

Contract == INSTANCE IntentContract
              WITH status <- [i \in Invocations |-> StatusOf(i)],
                   handlers <- opened

\* The service keeps the contract: one answer, at most one opened handler,
\* "handled" only with it, and an answer always.
KeepsContract == Contract!Spec

\* No caller is answered twice.
AnsweredOnce == \A i \in Invocations : Len(service.replies[i]) <= 1

\* Pending calls, their timers, their tickets and their answers agree: a call is
\* waited for until it is answered, once, and can be claimed only as long.
CallsAreWaiting == PendingIsWaiting /\ TicketsArePending /\ AnsweredOnce
===============================================================================
