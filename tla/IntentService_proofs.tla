------------------------- MODULE IntentService_proofs --------------------------
(***************************************************************************)
(* IntentService, for any number of tabs, invocations and accounts: the    *)
(* pending calls, timers, tickets and answers agree, what is opened is     *)
(* authorized, and every step is one of IntentContract.                    *)
(*                                                                         *)
(* The invariant that CallsAreWaiting needs is about the whole of a call's *)
(* life.  An invocation the route has reserved is unknown to the service;  *)
(* a call awaiting its launch has no ticket; a call was claimed exactly if *)
(* its handler was opened; and its answer is there exactly if it is        *)
(* terminal.  Most handlers settle calls, some after changing the state    *)
(* they settle in: what settling does is therefore proved once, of any     *)
(* state of the service.                                                   *)
(***************************************************************************)
EXTENDS IntentService, TLAPS

-------------------------------------------------------------------------------
(* The invariant.                                                            *)

IsService(v) ==
  v = [ pending |-> v.pending, call |-> v.call, timers |-> v.timers,
        tickets |-> v.tickets, replies |-> v.replies ]

CallsTyped(v) ==
  /\ DOMAIN v.call \subseteq Invocations
  /\ v.call \in [DOMAIN v.call -> Call]
  /\ \A i \in DOMAIN v.call : v.call[i].claimed => v.call[i].ticketed

\* Who is pending, has a timer, has a ticket.
PendingAgrees(v) ==
  /\ DOMAIN v.pending \subseteq Reservations
  /\ v.pending \in [DOMAIN v.pending -> DOMAIN v.call]
  /\ \A r \in DOMAIN v.pending : v.call[v.pending[r]].reservation = r
  /\ v.timers \subseteq DOMAIN v.call
  /\ v.tickets \subseteq DOMAIN v.call
  /\ \A i \in DOMAIN v.call :
       /\ ~v.call[i].terminal <=> i \in v.timers
       /\ ~v.call[i].terminal <=>
            /\ v.call[i].reservation \in DOMAIN v.pending
            /\ v.pending[v.call[i].reservation] = i
  /\ \A i \in v.tickets :
       ~v.call[i].terminal /\ v.call[i].ticketed /\ ~v.call[i].claimed

\* What each invocation was answered.
RepliesAgree(v) ==
  /\ v.replies \in [Invocations -> Seq(Outcomes)]
  /\ \A i \in DOMAIN v.call :
       \/ ~v.call[i].terminal /\ v.replies[i] = <<>>
       \/ v.call[i].terminal /\ v.replies[i] = <<"failed">>
       \/ v.call[i].terminal /\ v.call[i].claimed /\ v.replies[i] = <<"handled">>
  /\ \A i \in Invocations \ DOMAIN v.call :
       v.replies[i] = <<>> \/ v.replies[i] = <<"rejected">>

ServiceOK(v) == IsService(v) /\ CallsTyped(v) /\ PendingAgrees(v) /\ RepliesAgree(v)

\* A call that is pending was selected from catalog generation g.
CallsOf(v, g) == \A i \in DOMAIN v.call : ~v.call[i].terminal => v.call[i].generation = g

\* The route and the world around the service.
AroundTyped ==
  /\ generation \in Nat
  /\ registry \in Accounts \cup {NoAccount}
  /\ account \in Accounts \cup {NoAccount}
  /\ launching \in [DOMAIN launching -> BOOLEAN]
  /\ reserved \subseteq [tab : Tabs, reservation : Reservations, invocation : Invocations]
  /\ DOMAIN held \subseteq Tabs \X Reservations
  /\ held \in [DOMAIN held -> [invocation : Invocations, committed : BOOLEAN]]
  /\ open \subseteq Tabs
  /\ destroyed \in BOOLEAN

LaunchesPrecedeTickets ==
  \A i \in DOMAIN launching : i \in DOMAIN service.call /\ ~service.call[i].ticketed

ReservedAreNew ==
  /\ \A e \in reserved : /\ e.invocation \notin DOMAIN service.call
                         /\ service.replies[e.invocation] = <<>>
  /\ \A e, f \in reserved : e.invocation = f.invocation => e = f

ClaimedIsOpened ==
  opened = [i \in Invocations |->
              IF i \in DOMAIN service.call /\ service.call[i].claimed THEN 1 ELSE 0]

IntentInv ==
  /\ ServiceOK(service)
  /\ CallsOf(service, generation)
  /\ AroundTyped
  /\ LaunchesPrecedeTickets
  /\ ReservedAreNew
  /\ ClaimedIsOpened

-------------------------------------------------------------------------------
(* Settling.                                                                 *)

\* What handlers do to the calls they find: the state w is v with some pending
\* calls answered, "handled" only to the account and from the catalog they are of.
Keeps(v, w) ==
  /\ DOMAIN w.call = DOMAIN v.call
  /\ \A i \in DOMAIN v.call :
       /\ w.call[i].caller = v.call[i].caller
       /\ w.call[i].reservation = v.call[i].reservation
       /\ w.call[i].account = v.call[i].account
       /\ w.call[i].generation = v.call[i].generation
       /\ w.call[i].claimed = v.call[i].claimed
       /\ v.call[i].terminal => w.call[i].terminal
  /\ \A i \in Invocations :
       \/ w.replies[i] = v.replies[i]
       \/ /\ i \in DOMAIN v.call
          /\ ~v.call[i].terminal
          /\ w.replies[i] = <<"failed">>
       \/ /\ i \in DOMAIN v.call
          /\ ~v.call[i].terminal
          /\ w.replies[i] = <<"handled">>
          /\ v.call[i].account = account
          /\ v.call[i].generation = generation

SameTickets(v, w) == \A i \in DOMAIN v.call : w.call[i].ticketed = v.call[i].ticketed

LEMMA Answers ==
  /\ <<"failed">> # <<>> /\ <<"handled">> # <<>> /\ <<"rejected">> # <<>>
  /\ <<"failed">> # <<"handled">>
  /\ <<"rejected">> # <<"failed">>
  /\ <<"rejected">> # <<"handled">>
  OBVIOUS

LEMMA FirstAnswer ==
  ASSUME NEW o \in Outcomes
  PROVE  Append(<<>>, o) = <<o>> /\ <<o>> \in Seq(Outcomes)
  OBVIOUS

LEMMA KeepsItself ==
  ASSUME NEW v
  PROVE  Keeps(v, v) /\ SameTickets(v, v)
  BY DEF Keeps, SameTickets

LEMMA KeepsTwice ==
  ASSUME NEW v, NEW w, NEW x, ServiceOK(v), ServiceOK(w), ServiceOK(x),
         Keeps(v, w), Keeps(w, x)
  PROVE  Keeps(v, x)
<1>1. DOMAIN w.call = DOMAIN v.call /\ DOMAIN x.call = DOMAIN v.call
  BY DEF Keeps
<1>2. ASSUME NEW i \in DOMAIN v.call
      PROVE  /\ x.call[i].caller = v.call[i].caller
             /\ x.call[i].reservation = v.call[i].reservation
             /\ x.call[i].account = v.call[i].account
             /\ x.call[i].generation = v.call[i].generation
             /\ x.call[i].claimed = v.call[i].claimed
             /\ v.call[i].terminal => x.call[i].terminal
  BY <1>1, <1>2 DEF Keeps
<1>3. ASSUME NEW i \in DOMAIN v.call
      PROVE  /\ v.call[i].terminal <=> v.replies[i] # <<>>
             /\ w.call[i].terminal <=> w.replies[i] # <<>>
  BY <1>1, <1>3, Answers DEF ServiceOK, RepliesAgree
<1>4. ASSUME NEW i \in Invocations
      PROVE  \/ x.replies[i] = v.replies[i]
             \/ /\ i \in DOMAIN v.call
                /\ ~v.call[i].terminal
                /\ x.replies[i] = <<"failed">>
             \/ /\ i \in DOMAIN v.call
                /\ ~v.call[i].terminal
                /\ x.replies[i] = <<"handled">>
                /\ v.call[i].account = account
                /\ v.call[i].generation = generation
  <2>1. CASE x.replies[i] = w.replies[i]
    BY <2>1 DEF Keeps
  <2>2. CASE x.replies[i] # w.replies[i]
    <3>1. i \in DOMAIN v.call /\ ~w.call[i].terminal
      BY <1>1, <2>2 DEF Keeps
    <3>2. ~v.call[i].terminal
      BY <3>1 DEF Keeps
    <3>3. QED
      BY <1>1, <1>2, <2>2, <3>1, <3>2 DEF Keeps
  <2>3. QED
    BY <2>1, <2>2
<1>5. QED
  BY <1>1, <1>2, <1>4 DEF Keeps

\* Settling answers each pending call of S, once, and takes its reservation id,
\* timer and ticket with it.
LEMMA SettledKeeps ==
  ASSUME NEW v, ServiceOK(v), NEW S \in SUBSET (DOMAIN v.call),
         NEW outcome \in {"failed", "handled"},
         outcome = "handled" =>
           \A i \in S : /\ v.call[i].claimed
                        /\ v.call[i].account = account
                        /\ v.call[i].generation = generation
  PROVE  /\ ServiceOK(Settled(v, S, outcome))
         /\ Keeps(v, Settled(v, S, outcome))
         /\ SameTickets(v, Settled(v, S, outcome))
         /\ \A i \in S : Settled(v, S, outcome).call[i].terminal
         /\ \A i \in S : ~v.call[i].terminal => Settled(v, S, outcome).replies[i] = <<outcome>>
<1> DEFINE live == {i \in S : ~v.call[i].terminal}
           ended == {v.call[i].reservation : i \in live}
           w == Settled(v, S, outcome)
<1>1. /\ w.pending = Without(v.pending, ended)
      /\ w.call = [i \in DOMAIN v.call |->
                     IF i \in live THEN [v.call[i] EXCEPT !.terminal = TRUE] ELSE v.call[i]]
      /\ w.timers = v.timers \ live
      /\ w.tickets = v.tickets \ live
      /\ w.replies = Replied(v, live, outcome)
      /\ IsService(w)
  BY DEF Settled, IsService
<1>2. live \subseteq S /\ live \subseteq DOMAIN v.call
  OBVIOUS
<1>3. \A i \in S : i \in live <=> ~v.call[i].terminal
  OBVIOUS
<1>4. \A r : r \in ended <=> \E i \in live : r = v.call[i].reservation
  OBVIOUS
<1> HIDE DEF live, ended, w
<1>5. /\ DOMAIN w.call = DOMAIN v.call
      /\ \A i \in DOMAIN v.call :
           /\ w.call[i] \in Call
           /\ w.call[i].caller = v.call[i].caller
           /\ w.call[i].reservation = v.call[i].reservation
           /\ w.call[i].account = v.call[i].account
           /\ w.call[i].generation = v.call[i].generation
           /\ w.call[i].ticketed = v.call[i].ticketed
           /\ w.call[i].claimed = v.call[i].claimed
           /\ i \in live => w.call[i].terminal = TRUE
           /\ i \notin live => w.call[i] = v.call[i]
  <2>1. DOMAIN w.call = DOMAIN v.call
    BY <1>1
  <2>2. ASSUME NEW i \in DOMAIN v.call
        PROVE  /\ w.call[i] \in Call
               /\ w.call[i].caller = v.call[i].caller
               /\ w.call[i].reservation = v.call[i].reservation
               /\ w.call[i].account = v.call[i].account
               /\ w.call[i].generation = v.call[i].generation
               /\ w.call[i].ticketed = v.call[i].ticketed
               /\ w.call[i].claimed = v.call[i].claimed
               /\ i \in live => w.call[i].terminal = TRUE
               /\ i \notin live => w.call[i] = v.call[i]
    <3> DEFINE c == v.call[i]
    <3>1. c \in Call
      BY DEF ServiceOK, CallsTyped
    <3>2. w.call[i] = IF i \in live THEN [c EXCEPT !.terminal = TRUE] ELSE c
      BY <1>1
    <3> HIDE DEF c
    <3>3. w.call[i] \in Call
      BY <3>1, <3>2 DEF Call
    <3>4. /\ w.call[i].caller = c.caller
          /\ w.call[i].reservation = c.reservation
          /\ w.call[i].account = c.account
          /\ w.call[i].generation = c.generation
          /\ w.call[i].ticketed = c.ticketed
          /\ w.call[i].claimed = c.claimed
          /\ i \in live => w.call[i].terminal = TRUE
          /\ i \notin live => w.call[i] = c
      BY <3>1, <3>2 DEF Call
    <3>5. QED
      BY <3>3, <3>4 DEF c
  <2>3. QED
    BY <2>1, <2>2
<1>6. /\ DOMAIN w.pending = DOMAIN v.pending \ ended
      /\ \A r \in DOMAIN w.pending : w.pending[r] = v.pending[r]
      /\ w.pending \in [DOMAIN w.pending -> DOMAIN v.call]
  BY <1>1 DEF Without, Restrict, ServiceOK, PendingAgrees
<1>7. /\ w.replies \in [Invocations -> Seq(Outcomes)]
      /\ \A i \in Invocations : i \in live => w.replies[i] = <<outcome>>
      /\ \A i \in Invocations : i \notin live => w.replies[i] = v.replies[i]
  <2>1. w.replies = [i \in Invocations |->
                       IF i \in live THEN Append(v.replies[i], outcome) ELSE v.replies[i]]
    BY <1>1 DEF Replied
  <2>2. \A i \in live : v.replies[i] = <<>>
    BY <1>2, <1>3 DEF ServiceOK, RepliesAgree
  <2>3. /\ Append(<<>>, outcome) = <<outcome>>
        /\ <<outcome>> \in Seq(Outcomes)
    BY FirstAnswer DEF Outcomes
  <2>4. \A i \in Invocations : v.replies[i] \in Seq(Outcomes)
    BY DEF ServiceOK, RepliesAgree
  <2>5. \A i \in Invocations :
          w.replies[i] = IF i \in live THEN <<outcome>> ELSE v.replies[i]
    BY <2>1, <2>2, <2>3
  <2>6. w.replies = [i \in Invocations |-> w.replies[i]]
    BY <2>1
  <2>7. \A i \in Invocations : w.replies[i] \in Seq(Outcomes)
    BY <2>3, <2>4, <2>5
  <2>8. QED
    BY <2>5, <2>6, <2>7
<1>8. CallsTyped(w)
  <2>1. w.call \in [DOMAIN w.call -> Call]
    BY <1>1, <1>5
  <2>2. QED
    BY <1>5, <2>1 DEF ServiceOK, CallsTyped
<1>9. PendingAgrees(w)
  <2>1. \A r \in DOMAIN w.pending : w.call[w.pending[r]].reservation = r
    BY <1>5, <1>6 DEF ServiceOK, PendingAgrees
  <2>2. ASSUME NEW i \in DOMAIN v.call
        PROVE  /\ ~w.call[i].terminal <=> i \in w.timers
               /\ ~w.call[i].terminal <=>
                    /\ w.call[i].reservation \in DOMAIN w.pending
                    /\ w.pending[w.call[i].reservation] = i
    <3>1. CASE i \in live
      BY <1>1, <1>4, <1>5, <1>6, <3>1
    <3>2. CASE i \notin live
      <4>1. /\ w.call[i] = v.call[i]
            /\ i \in w.timers <=> i \in v.timers
        BY <1>1, <1>5, <3>2
      <4>2. ASSUME ~v.call[i].terminal
            PROVE  v.call[i].reservation \notin ended
        BY <1>2, <1>3, <1>4, <3>2, <4>2 DEF ServiceOK, PendingAgrees
      <4>3. QED
        BY <1>6, <4>1, <4>2 DEF ServiceOK, PendingAgrees
    <3>3. QED
      BY <3>1, <3>2
  <2>3. \A i \in w.tickets : ~w.call[i].terminal /\ w.call[i].ticketed /\ ~w.call[i].claimed
    BY <1>1, <1>5 DEF ServiceOK, PendingAgrees
  <2>4. w.timers \subseteq DOMAIN w.call /\ w.tickets \subseteq DOMAIN w.call
    BY <1>1, <1>5 DEF ServiceOK, PendingAgrees
  <2>5. DOMAIN w.pending \subseteq Reservations
    BY <1>6 DEF ServiceOK, PendingAgrees
  <2>6. QED
    BY <1>5, <1>6, <2>1, <2>2, <2>3, <2>4, <2>5 DEF PendingAgrees
<1>10. RepliesAgree(w)
  <2>1. ASSUME NEW i \in DOMAIN w.call
        PROVE  \/ ~w.call[i].terminal /\ w.replies[i] = <<>>
               \/ w.call[i].terminal /\ w.replies[i] = <<"failed">>
               \/ w.call[i].terminal /\ w.call[i].claimed /\ w.replies[i] = <<"handled">>
    <3>1. i \in Invocations /\ i \in DOMAIN v.call
      BY <1>5, <2>1 DEF ServiceOK, CallsTyped
    <3>2. CASE i \in live
      BY <1>2, <1>5, <1>7, <3>1, <3>2
    <3>3. CASE i \notin live
      BY <1>5, <1>7, <3>1, <3>3 DEF ServiceOK, RepliesAgree
    <3>4. QED
      BY <3>2, <3>3
  <2>2. \A i \in Invocations \ DOMAIN w.call : w.replies[i] = <<>> \/ w.replies[i] = <<"rejected">>
    BY <1>2, <1>5, <1>7 DEF ServiceOK, RepliesAgree
  <2>3. QED
    BY <1>7, <2>1, <2>2 DEF RepliesAgree
<1>11. Keeps(v, w)
  <2>1. ASSUME NEW i \in Invocations
        PROVE  \/ w.replies[i] = v.replies[i]
               \/ /\ i \in DOMAIN v.call
                  /\ ~v.call[i].terminal
                  /\ w.replies[i] = <<"failed">>
               \/ /\ i \in DOMAIN v.call
                  /\ ~v.call[i].terminal
                  /\ w.replies[i] = <<"handled">>
                  /\ v.call[i].account = account
                  /\ v.call[i].generation = generation
    BY <1>2, <1>3, <1>7
  <2>2. \A i \in DOMAIN v.call : v.call[i].terminal => w.call[i].terminal
    BY <1>5
  <2>3. QED
    BY <1>5, <2>1, <2>2 DEF Keeps
<1>12. \A i \in S : w.call[i].terminal
  BY <1>3, <1>5
<1>13. \A i \in S : ~v.call[i].terminal => w.replies[i] = <<outcome>>
  BY <1>3, <1>7 DEF ServiceOK, CallsTyped
<1>14. QED
  BY <1>1, <1>5, <1>8, <1>9, <1>10, <1>11, <1>12, <1>13 DEF ServiceOK, SameTickets, w

-------------------------------------------------------------------------------
(* Acknowledgements.                                                         *)

LEMMA CommittedIs ==
  ASSUME NEW v, IsService(v), NEW i
  PROVE  LET w == [v EXCEPT !.call[i].committed = TRUE]
         IN  /\ w.pending = v.pending /\ w.timers = v.timers /\ w.tickets = v.tickets
             /\ w.replies = v.replies
             /\ w.call = [v.call EXCEPT ![i].committed = TRUE]
             /\ IsService(w)
<1>1. LET w == [v EXCEPT !.call[i].committed = TRUE]
      IN  /\ w.pending = v.pending /\ w.timers = v.timers /\ w.tickets = v.tickets
          /\ w.replies = v.replies
  BY DEF IsService
<1>2. LET w == [v EXCEPT !.call[i].committed = TRUE]
      IN  w.call = [v.call EXCEPT ![i].committed = TRUE]
  BY DEF IsService
<1>3. LET w == [v EXCEPT !.call[i].committed = TRUE]
      IN  IsService(w)
  <2>1. ASSUME NEW x
        PROVE  IsService([v EXCEPT !.call = x])
    BY DEF IsService
  <2>2. [v EXCEPT !.call[i].committed = TRUE] =
          [v EXCEPT !.call = [v.call EXCEPT ![i].committed = TRUE]]
    OBVIOUS
  <2>3. QED
    BY <2>1, <2>2
<1>4. QED
  BY <1>1, <1>2, <1>3

LEMMA CommittedKeeps ==
  ASSUME NEW v, ServiceOK(v), NEW i \in DOMAIN v.call
  PROVE  LET w == [v EXCEPT !.call[i].committed = TRUE]
         IN  ServiceOK(w) /\ Keeps(v, w) /\ SameTickets(v, w)
<1> DEFINE w == [v EXCEPT !.call[i].committed = TRUE]
<1>1. /\ w.pending = v.pending /\ w.timers = v.timers /\ w.tickets = v.tickets
      /\ w.replies = v.replies
      /\ w.call = [v.call EXCEPT ![i].committed = TRUE]
      /\ IsService(w)
  BY CommittedIs DEF ServiceOK
<1> HIDE DEF w
<1>2. /\ DOMAIN w.call = DOMAIN v.call
      /\ w.call \in [DOMAIN v.call -> Call]
  <2>1. [v.call[i] EXCEPT !.committed = TRUE] \in Call
    BY DEF ServiceOK, CallsTyped, Call
  <2>2. w.call = [v.call EXCEPT ![i] = [v.call[i] EXCEPT !.committed = TRUE]]
    BY <1>1
  <2>3. QED
    BY <2>1, <2>2 DEF ServiceOK, CallsTyped
<1>3. \A j \in DOMAIN v.call :
        /\ w.call[j].caller = v.call[j].caller
        /\ w.call[j].reservation = v.call[j].reservation
        /\ w.call[j].account = v.call[j].account
        /\ w.call[j].generation = v.call[j].generation
        /\ w.call[j].ticketed = v.call[j].ticketed
        /\ w.call[j].claimed = v.call[j].claimed
        /\ w.call[j].terminal = v.call[j].terminal
  BY <1>1 DEF ServiceOK, CallsTyped, Call
<1>4. CallsTyped(w)
  BY <1>2, <1>3 DEF ServiceOK, CallsTyped
<1>5. PendingAgrees(w)
  BY <1>1, <1>2, <1>3 DEF ServiceOK, PendingAgrees
<1>6. RepliesAgree(w)
  BY <1>1, <1>2, <1>3 DEF ServiceOK, RepliesAgree
<1>7. Keeps(v, w) /\ SameTickets(v, w)
  BY <1>1, <1>2, <1>3 DEF Keeps, SameTickets
<1>8. QED
  BY <1>1, <1>4, <1>5, <1>6, <1>7 DEF ServiceOK, w

\* An acknowledgement answers at most the call that is pending under its id.
LEMMA AcknowledgedKeeps ==
  ASSUME NEW v, ServiceOK(v), NEW t, NEW r, NEW i, NEW committed
  PROVE  /\ ServiceOK(Acknowledged(v, t, r, i, committed))
         /\ Keeps(v, Acknowledged(v, t, r, i, committed))
         /\ SameTickets(v, Acknowledged(v, t, r, i, committed))
<1>1. CASE ~Accepts(v, t, r, i)
  BY <1>1, KeepsItself DEF Acknowledged
<1>2. CASE Accepts(v, t, r, i)
  <2>1. /\ i \in DOMAIN v.call
        /\ v.call[i].account = account
        /\ v.call[i].generation = generation
    BY <1>2 DEF Accepts, ServiceOK, PendingAgrees
  <2>2. CASE ~committed
    <3>1. Acknowledged(v, t, r, i, committed) = Settled(v, {i}, "failed")
      BY <1>2, <2>2 DEF Acknowledged
    <3>2. QED
      BY <2>1, <3>1, SettledKeeps
  <2>3. CASE committed
    <3> DEFINE w == [v EXCEPT !.call[i].committed = TRUE]
    <3>1. Acknowledged(v, t, r, i, committed) =
            IF w.call[i].claimed THEN Settled(w, {i}, "handled") ELSE w
      BY <1>2, <2>3 DEF Acknowledged
    <3>2. ServiceOK(w) /\ Keeps(v, w) /\ SameTickets(v, w)
      BY <2>1, CommittedKeeps
    <3> HIDE DEF w
    <3>3. /\ DOMAIN w.call = DOMAIN v.call
          /\ w.call[i].account = account
          /\ w.call[i].generation = generation
      BY <2>1, <3>2 DEF Keeps
    <3>4. CASE w.call[i].claimed
      <4>1. /\ ServiceOK(Settled(w, {i}, "handled"))
            /\ Keeps(w, Settled(w, {i}, "handled"))
            /\ SameTickets(w, Settled(w, {i}, "handled"))
        BY <2>1, <3>2, <3>3, <3>4, SettledKeeps
      <4>2. Keeps(v, Settled(w, {i}, "handled"))
        BY <3>2, <4>1, KeepsTwice
      <4>3. SameTickets(v, Settled(w, {i}, "handled"))
        BY <3>2, <3>3, <4>1 DEF SameTickets
      <4>4. QED
        BY <3>1, <3>4, <4>1, <4>2, <4>3
    <3>5. CASE ~w.call[i].claimed
      BY <3>1, <3>2, <3>5
    <3>6. QED
      BY <3>4, <3>5
  <2>4. QED
    BY <2>2, <2>3
<1>3. QED
  BY <1>1, <1>2

LEMMA ReplayedKeeps ==
  ASSUME NEW v, ServiceOK(v), NEW t, NEW r
  PROVE  /\ ServiceOK(Replayed(v, t, r))
         /\ Keeps(v, Replayed(v, t, r))
         /\ SameTickets(v, Replayed(v, t, r))
<1>1. CASE <<t, r>> \in DOMAIN held
  BY <1>1, AcknowledgedKeeps DEF Replayed
<1>2. CASE <<t, r>> \notin DOMAIN held
  BY <1>2, KeepsItself DEF Replayed
<1>3. QED
  BY <1>1, <1>2

-------------------------------------------------------------------------------
(* What a step does to one invocation.                                       *)

Current(i) == service.call[i].account = account /\ service.call[i].generation = generation

Unmoved(i) ==
  /\ opened'[i] = opened[i] /\ service'.replies[i] = service.replies[i]
  /\ i \in DOMAIN service'.call <=> i \in DOMAIN service.call

Taken(i) ==
  /\ opened'[i] = opened[i] /\ service.replies[i] = <<>>
  /\ i \notin DOMAIN service.call
  /\ \/ i \in DOMAIN service'.call /\ service'.replies[i] = <<>>
     \/ i \notin DOMAIN service'.call /\ service'.replies[i] = <<"rejected">>

\* A pending call is answered, and if "handled", it had been opened.
Answered(i) ==
  /\ opened'[i] = opened[i] /\ service.replies[i] = <<>>
  /\ i \in DOMAIN service.call /\ i \in DOMAIN service'.call
  /\ ~service.call[i].terminal
  /\ \/ service'.replies[i] = <<"failed">>
     \/ service'.replies[i] = <<"handled">> /\ opened[i] = 1 /\ Current(i)

HandedOut(i) ==
  /\ opened[i] = 0 /\ opened'[i] = 1 /\ service.replies[i] = <<>>
  /\ i \in DOMAIN service.call /\ i \in DOMAIN service'.call
  /\ ~service.call[i].terminal
  /\ Current(i)
  /\ service'.replies[i] \in {<<>>, <<"handled">>}

Moves == \A i \in Invocations : Unmoved(i) \/ Taken(i) \/ Answered(i) \/ HandedOut(i)

\* A call that was as it is now in v, from which the step went on, is answered or
\* is left alone.
LEMMA AnsweredOrNot ==
  ASSUME IntentInv, NEW v, ServiceOK(v), ServiceOK(service'), Keeps(v, service'),
         DOMAIN v.call = DOMAIN service.call,
         NEW i \in Invocations,
         i \in DOMAIN service.call => v.call[i] = service.call[i],
         v.replies[i] = service.replies[i],
         opened'[i] = opened[i]
  PROVE  Unmoved(i) \/ Answered(i)
<1>1. DOMAIN service'.call = DOMAIN service.call
  BY DEF Keeps
<1>2. CASE service'.replies[i] = service.replies[i]
  BY <1>1, <1>2 DEF Unmoved
<1>3. CASE service'.replies[i] # service.replies[i]
  <2>1. /\ i \in DOMAIN service.call
        /\ ~service.call[i].terminal
        /\ \/ service'.replies[i] = <<"failed">>
           \/ service'.replies[i] = <<"handled">> /\ Current(i)
    BY <1>3 DEF Keeps, Current
  <2>2. service.replies[i] = <<>>
    BY <2>1 DEF IntentInv, ServiceOK, RepliesAgree
  <2>3. ASSUME service'.replies[i] = <<"handled">>
        PROVE  service.call[i].claimed
    <3>1. service'.call[i].claimed
      BY <1>1, <2>1, <2>3, Answers DEF ServiceOK, RepliesAgree
    <3>2. QED
      BY <2>1, <3>1 DEF Keeps
  <2>4. ASSUME service'.replies[i] = <<"handled">>
        PROVE  opened[i] = 1
    BY <2>1, <2>3, <2>4 DEF IntentInv, ClaimedIsOpened
  <2>5. QED
    BY <1>1, <2>1, <2>2, <2>4 DEF Answered
<1>4. QED
  BY <1>2, <1>3

\* The steps of handlers that find their calls and open nothing.
LEMMA KeepingStep ==
  ASSUME IntentInv, AroundTyped', ServiceOK(service'), Keeps(service, service'),
         opened' = opened, reserved' \subseteq reserved,
         generation' = generation \/ CallsOf(service', generation'),
         \A i \in DOMAIN launching' :
           i \in DOMAIN launching /\ service'.call[i].ticketed = service.call[i].ticketed
  PROVE  IntentInv' /\ Moves
<1>1. DOMAIN service'.call = DOMAIN service.call
  BY DEF Keeps
<1>2. \A i \in DOMAIN service.call :
        /\ service'.call[i].generation = service.call[i].generation
        /\ service'.call[i].claimed = service.call[i].claimed
        /\ service.call[i].terminal => service'.call[i].terminal
  BY DEF Keeps
<1>3. CallsOf(service', generation')
  BY <1>1, <1>2 DEF IntentInv, CallsOf
<1>4. LaunchesPrecedeTickets'
  BY <1>1 DEF IntentInv, LaunchesPrecedeTickets
<1>5. ReservedAreNew'
  <2>1. ASSUME NEW e \in reserved'
        PROVE  e.invocation \notin DOMAIN service'.call /\ service'.replies[e.invocation] = <<>>
    <3>1. /\ e.invocation \in Invocations
          /\ e.invocation \notin DOMAIN service.call
          /\ service.replies[e.invocation] = <<>>
      BY <2>1 DEF IntentInv, AroundTyped, ReservedAreNew
    <3>2. QED
      BY <1>1, <3>1 DEF Keeps
  <2>2. QED
    BY <2>1 DEF IntentInv, ReservedAreNew
<1>6. ClaimedIsOpened'
  BY <1>1, <1>2 DEF IntentInv, ClaimedIsOpened
<1>7. \A i \in Invocations : Unmoved(i) \/ Answered(i)
  <2>1. ServiceOK(service)
    BY DEF IntentInv
  <2>2. QED
    BY <2>1, AnsweredOrNot
<1>8. QED
  BY <1>3, <1>4, <1>5, <1>6, <1>7 DEF IntentInv, Moves

-------------------------------------------------------------------------------
(* Handlers that settle.                                                     *)

LEMMA PendingAreCalls ==
  ASSUME IntentInv
  PROVE  /\ PendingCalls(service) \subseteq DOMAIN service.call
         /\ \A r \in DOMAIN service.pending : service.pending[r] \in DOMAIN service.call
         /\ \A i \in PendingCalls(service) : ~service.call[i].terminal
<1>1. \A r \in DOMAIN service.pending : /\ service.pending[r] \in DOMAIN service.call
                                        /\ service.call[service.pending[r]].reservation = r
  BY DEF IntentInv, ServiceOK, PendingAgrees
<1>2. \A r \in DOMAIN service.pending : ~service.call[service.pending[r]].terminal
  BY <1>1 DEF IntentInv, ServiceOK, PendingAgrees
<1>3. \A i \in PendingCalls(service) :
        \E r \in DOMAIN service.pending : i = service.pending[r]
  BY DEF PendingCalls, Range
<1>4. QED
  BY <1>1, <1>2, <1>3

\* A handler that does nothing but fail calls.
LEMMA FailingStep ==
  ASSUME IntentInv, AroundTyped', opened' = opened, reserved' \subseteq reserved,
         NEW S \in SUBSET (DOMAIN service.call),
         service' = Settled(service, S, "failed"),
         DOMAIN launching' \subseteq DOMAIN launching,
         \/ generation' = generation
         \/ \A i \in DOMAIN service.call :
              ~service.call[i].terminal => i \in S \/ service.call[i].generation = generation'
  PROVE  IntentInv' /\ Moves
<1>1. ServiceOK(service)
  BY DEF IntentInv
<1>2. /\ ServiceOK(service')
      /\ Keeps(service, service')
      /\ SameTickets(service, service')
      /\ \A i \in S : service'.call[i].terminal
  BY <1>1, SettledKeeps
<1>3. \A i \in DOMAIN launching' :
        i \in DOMAIN launching /\ service'.call[i].ticketed = service.call[i].ticketed
  BY <1>2 DEF SameTickets, IntentInv, LaunchesPrecedeTickets
<1>4. generation' = generation \/ CallsOf(service', generation')
  BY <1>2 DEF CallsOf, Keeps
<1>5. QED
  BY <1>2, <1>3, <1>4, KeepingStep

\* A step that leaves the service and what was opened alone.
LEMMA IdleStep ==
  ASSUME IntentInv, AroundTyped', opened' = opened, reserved' \subseteq reserved,
         service' = service, generation' = generation,
         DOMAIN launching' \subseteq DOMAIN launching
  PROVE  IntentInv' /\ Moves
<1>1. ServiceOK(service') /\ Keeps(service, service')
  BY KeepsItself DEF IntentInv
<1>2. QED
  BY <1>1, KeepingStep

\* The route's correlations of a tab are cleared.
LEMMA ClearedTyped ==
  ASSUME IntentInv, NEW t \in Tabs, Cleared(t)
  PROVE  /\ launching' \in [DOMAIN launching' -> BOOLEAN]
         /\ DOMAIN launching' = DOMAIN launching
         /\ reserved' \subseteq reserved
         /\ DOMAIN held' \subseteq DOMAIN held
         /\ held' \in [DOMAIN held' -> [invocation : Invocations, committed : BOOLEAN]]
<1>1. /\ DOMAIN launching' = DOMAIN launching
      /\ reserved' \subseteq reserved
  BY DEF Cleared
<1>2. launching' \in [DOMAIN launching' -> BOOLEAN]
  <2>1. \A i \in DOMAIN launching : (launching[i] /\ service.call[i].caller # t) \in BOOLEAN
    OBVIOUS
  <2>2. QED
    BY <2>1 DEF Cleared
<1>3. /\ DOMAIN held' \subseteq DOMAIN held
      /\ held' \in [DOMAIN held' -> [invocation : Invocations, committed : BOOLEAN]]
  BY DEF Cleared, Without, Restrict, IntentInv, AroundTyped
<1>4. QED
  BY <1>1, <1>2, <1>3

LEMMA TabLeaves ==
  ASSUME IntentInv, NEW t \in Tabs, Disconnect(t) \/ CloseWindow(t)
  PROVE  IntentInv' /\ Moves
<1>1. Cleared(t) /\ opened' = opened /\ world' = world /\ open' \subseteq open
  BY DEF Disconnect, CloseWindow
<1>2. /\ launching' \in [DOMAIN launching' -> BOOLEAN]
      /\ DOMAIN launching' = DOMAIN launching
      /\ reserved' \subseteq reserved
      /\ DOMAIN held' \subseteq DOMAIN held
      /\ held' \in [DOMAIN held' -> [invocation : Invocations, committed : BOOLEAN]]
  BY <1>1, ClearedTyped
<1>3. AroundTyped' /\ generation' = generation
  BY <1>1, <1>2 DEF IntentInv, AroundTyped, world
<1>4. CASE Disconnect(t)
  BY <1>1, <1>2, <1>3, <1>4, IdleStep DEF Disconnect
<1>5. CASE CloseWindow(t)
  <2>1. OfTab(t) \in SUBSET (DOMAIN service.call)
    BY PendingAreCalls DEF OfTab
  <2>2. QED
    BY <1>1, <1>2, <1>3, <1>5, <2>1, FailingStep DEF CloseWindow
<1>6. QED
  BY <1>4, <1>5

LEMMA WorldMoves ==
  ASSUME IntentInv, OfWorld
  PROVE  IntentInv' /\ Moves
<1>1. ASSUME NEW acct \in Accounts, SignIn(acct)
      PROVE  IntentInv' /\ Moves
  <2>1. AroundTyped'
    BY <1>1 DEF SignIn, IntentInv, AroundTyped, route
  <2>2. QED
    BY <1>1, <2>1, IdleStep DEF SignIn, route
<1>2. CASE SignOut
  <2>1. AroundTyped'
    BY <1>2 DEF SignOut, IntentInv, AroundTyped, route
  <2>2. UNION {OfTab(t) : t \in open} \in SUBSET (DOMAIN service.call)
    BY PendingAreCalls DEF OfTab
  <2>3. QED
    BY <1>2, <2>1, <2>2, FailingStep DEF SignOut, route
<1>3. ASSUME NEW acct \in Accounts \cup {NoAccount}, Rebuild(acct)
      PROVE  IntentInv' /\ Moves
  <2> DEFINE S == {i \in PendingCalls(service) : service.call[i].generation # generation'}
  <2>1. AroundTyped'
    BY <1>3 DEF Rebuild, IntentInv, AroundTyped, route
  <2>2. S \in SUBSET (DOMAIN service.call)
    BY PendingAreCalls
  <2>3. \A i \in DOMAIN service.call :
          ~service.call[i].terminal => i \in S \/ service.call[i].generation = generation'
    <3>1. ASSUME NEW i \in DOMAIN service.call, ~service.call[i].terminal
          PROVE  i \in PendingCalls(service)
      BY <3>1 DEF IntentInv, ServiceOK, PendingAgrees, PendingCalls, Range
    <3>2. QED
      BY <3>1
  <2>4. service' = Settled(service, S, "failed")
    BY <1>3 DEF Rebuild
  <2> HIDE DEF S
  <2>5. QED
    BY <1>3, <2>1, <2>2, <2>3, <2>4, FailingStep DEF Rebuild, route
<1>4. CASE Destroy
  <2>1. AroundTyped'
    BY <1>4 DEF Destroy, IntentInv, AroundTyped, route
  <2>2. PendingCalls(service) \in SUBSET (DOMAIN service.call)
    BY PendingAreCalls
  <2>3. QED
    BY <1>4, <2>1, <2>2, FailingStep DEF Destroy, route
<1>5. QED
  BY <1>1, <1>2, <1>3, <1>4 DEF OfWorld

-------------------------------------------------------------------------------
(* Messages, timers and launches.                                            *)

LEMMA SettlingSteps ==
  ASSUME IntentInv, NEW i \in DOMAIN service.call,
         ClaimExpired(i) \/ CloseTarget(i) \/ (i \in service.timers /\ Timeout(i))
  PROVE  IntentInv' /\ Moves
<1>1. AroundTyped' /\ generation' = generation /\ opened' = opened
      /\ UNCHANGED <<launching, reserved>>
  BY DEF ClaimExpired, CloseTarget, Timeout, IntentInv, AroundTyped, world, route
<1>2. ASSUME i \in service.timers
      PROVE  /\ service.call[i].reservation \in DOMAIN service.pending
             /\ service.pending[service.call[i].reservation] = i
  BY <1>2 DEF IntentInv, ServiceOK, PendingAgrees
<1>3. service' = Settled(service, {i}, "failed")
  <2>1. CASE ClaimExpired(i)
    BY <1>2, <2>1 DEF ClaimExpired
  <2>2. CASE CloseTarget(i)
    BY <2>2 DEF CloseTarget
  <2>3. CASE i \in service.timers /\ Timeout(i)
    <3> DEFINE v == [service EXCEPT !.timers = service.timers \ {i}]
    <3>1. service' = Settled(v, {i}, "failed")
      BY <1>2, <2>3 DEF Timeout
    <3>2. /\ v.pending = service.pending /\ v.call = service.call
          /\ v.tickets = service.tickets /\ v.replies = service.replies
          /\ v.timers = service.timers \ {i}
      BY DEF IntentInv, ServiceOK, IsService
    <3> HIDE DEF v
    <3>3. ~service.call[i].terminal
      BY <2>3 DEF IntentInv, ServiceOK, PendingAgrees
    <3>4. {j \in {i} : ~service.call[j].terminal} = {i}
      BY <3>3
    <3>5. v.timers \ {i} = service.timers \ {i}
      BY <3>2
    <3>6. Settled(v, {i}, "failed") = Settled(service, {i}, "failed")
      BY <3>2, <3>4, <3>5 DEF Settled, Replied
    <3>7. QED
      BY <3>1, <3>6
  <2>4. QED
    BY <2>1, <2>2, <2>3
<1>4. QED
  BY <1>1, <1>3, FailingStep

LEMMA AcknowledgeStep ==
  ASSUME IntentInv, NEW t \in Tabs, NEW r \in Reservations, NEW i \in Invocations,
         NEW committed \in BOOLEAN, Acknowledge(t, r, i, committed)
  PROVE  IntentInv' /\ Moves
<1>1. /\ DOMAIN held' \subseteq Tabs \X Reservations
      /\ held' \in [DOMAIN held' -> [invocation : Invocations, committed : BOOLEAN]]
  BY DEF Acknowledge, With, IntentInv, AroundTyped
<1>2. AroundTyped' /\ generation' = generation /\ opened' = opened
      /\ UNCHANGED <<launching, reserved>>
  BY <1>1 DEF Acknowledge, IntentInv, AroundTyped, world
<1>3. /\ ServiceOK(service')
      /\ Keeps(service, service')
      /\ SameTickets(service, service')
  BY AcknowledgedKeeps DEF Acknowledge, IntentInv
<1>4. \A j \in DOMAIN launching' :
        j \in DOMAIN launching /\ service'.call[j].ticketed = service.call[j].ticketed
  BY <1>2, <1>3 DEF SameTickets, IntentInv, LaunchesPrecedeTickets
<1>5. QED
  BY <1>2, <1>3, <1>4, KeepingStep

LEMMA LapseSteps ==
  ASSUME IntentInv,
         \/ \E e \in reserved : ReservationLapses(e)
         \/ \E id \in DOMAIN held : HeldLapses(id)
  PROVE  IntentInv' /\ Moves
<1>1. /\ DOMAIN held' \subseteq DOMAIN held
      /\ held' \in [DOMAIN held' -> [invocation : Invocations, committed : BOOLEAN]]
      /\ reserved' \subseteq reserved
      /\ UNCHANGED <<service, world, launching, open, opened>>
  BY DEF ReservationLapses, HeldLapses, Without, Restrict, IntentInv, AroundTyped
<1>2. AroundTyped'
  BY <1>1 DEF IntentInv, AroundTyped, world
<1>3. QED
  BY <1>1, <1>2, IdleStep DEF world

\* A changed field leaves a service a service.
LEMMA ServiceChanged ==
  ASSUME NEW v, IsService(v)
  PROVE  /\ \A x : IsService([v EXCEPT !.pending = x])
         /\ \A x : IsService([v EXCEPT !.call = x])
         /\ \A x : IsService([v EXCEPT !.timers = x])
         /\ \A x : IsService([v EXCEPT !.tickets = x])
         /\ \A x : IsService([v EXCEPT !.replies = x])
  BY DEF IsService

\* The ticket of a call is issued while the call waits, or the call fails.
LEMMA TicketedIs ==
  ASSUME NEW v, IsService(v), NEW i, NEW S
  PROVE  IsService([v EXCEPT !.call[i].ticketed = TRUE, !.tickets = S])
<1>1. [v EXCEPT !.call[i].ticketed = TRUE, !.tickets = S] =
        [[v EXCEPT !.call = [v.call EXCEPT ![i].ticketed = TRUE]] EXCEPT !.tickets = S]
  OBVIOUS
<1>2. QED
  BY <1>1, ServiceChanged

LEMMA TicketKeeps ==
  ASSUME IntentInv, NEW i \in DOMAIN launching, NEW ok \in BOOLEAN
  PROVE  /\ ServiceOK(TicketIssued(i, ok))
         /\ Keeps(service, TicketIssued(i, ok))
         /\ \A j \in DOMAIN service.call :
              j # i => TicketIssued(i, ok).call[j].ticketed = service.call[j].ticketed
<1> DEFINE c == service.call[i]
<1>1. i \in DOMAIN service.call /\ ~c.ticketed /\ ServiceOK(service)
  BY DEF IntentInv, LaunchesPrecedeTickets
<1>2. CASE ~ok \/ c.generation # generation \/ c.account # account \/ c.terminal
  <2>1. TicketIssued(i, ok) = Settled(service, {i}, "failed")
    BY <1>2 DEF TicketIssued
  <2>2. QED
    BY <1>1, <2>1, SettledKeeps DEF SameTickets
<1>3. CASE ~(~ok \/ c.generation # generation \/ c.account # account \/ c.terminal)
  <2> DEFINE v == [service EXCEPT !.call[i].ticketed = TRUE,
                                  !.tickets = service.tickets \cup {i}]
  <2>1. TicketIssued(i, ok) = v
    BY <1>3 DEF TicketIssued
  <2>2. /\ v.pending = service.pending /\ v.timers = service.timers
        /\ v.replies = service.replies
        /\ v.tickets = service.tickets \cup {i}
    BY <1>1 DEF ServiceOK, IsService
  <2>3. v.call = [service.call EXCEPT ![i].ticketed = TRUE]
    BY <1>1 DEF ServiceOK, IsService
  <2>4. IsService(v)
    BY <1>1, TicketedIs DEF ServiceOK
  <2> HIDE DEF v
  <2>5. /\ DOMAIN v.call = DOMAIN service.call
        /\ v.call \in [DOMAIN service.call -> Call]
    <3>1. [service.call[i] EXCEPT !.ticketed = TRUE] \in Call
      BY <1>1 DEF ServiceOK, CallsTyped, Call
    <3>2. v.call = [service.call EXCEPT ![i] = [service.call[i] EXCEPT !.ticketed = TRUE]]
      BY <2>3
    <3>3. QED
      BY <1>1, <3>1, <3>2 DEF ServiceOK, CallsTyped
  <2>6. /\ \A j \in DOMAIN service.call :
             /\ v.call[j].caller = service.call[j].caller
             /\ v.call[j].reservation = service.call[j].reservation
             /\ v.call[j].account = service.call[j].account
             /\ v.call[j].generation = service.call[j].generation
             /\ v.call[j].claimed = service.call[j].claimed
             /\ v.call[j].terminal = service.call[j].terminal
             /\ j # i => v.call[j].ticketed = service.call[j].ticketed
        /\ v.call[i].ticketed = TRUE
    <3> DEFINE d == [service.call[i] EXCEPT !.ticketed = TRUE]
    <3>1. /\ \A j \in DOMAIN service.call : j # i => v.call[j] = service.call[j]
          /\ v.call[i] = d
      BY <1>1, <2>3 DEF ServiceOK, CallsTyped
    <3>2. service.call[i] \in Call
      BY <1>1 DEF ServiceOK, CallsTyped
    <3>3. /\ d.caller = service.call[i].caller
          /\ d.reservation = service.call[i].reservation
          /\ d.account = service.call[i].account
          /\ d.generation = service.call[i].generation
          /\ d.claimed = service.call[i].claimed
          /\ d.terminal = service.call[i].terminal
          /\ d.ticketed = TRUE
      BY <3>2 DEF Call
    <3> HIDE DEF d
    <3>4. QED
      BY <3>1, <3>3
  <2>7. ~service.call[i].claimed
    BY <1>1 DEF ServiceOK, CallsTyped
  <2>8. CallsTyped(v)
    BY <1>1, <2>5, <2>6, <2>7 DEF ServiceOK, CallsTyped
  <2>9. PendingAgrees(v)
    <3>1. \A j \in v.tickets : ~v.call[j].terminal /\ v.call[j].ticketed /\ ~v.call[j].claimed
      BY <1>1, <1>3, <2>2, <2>6, <2>7 DEF ServiceOK, PendingAgrees
    <3>2. v.tickets \subseteq DOMAIN v.call
      BY <1>1, <2>2, <2>5 DEF ServiceOK, PendingAgrees
    <3>3. QED
      BY <1>1, <2>2, <2>5, <2>6, <3>1, <3>2 DEF ServiceOK, PendingAgrees
  <2>10. RepliesAgree(v)
    BY <1>1, <2>2, <2>5, <2>6 DEF ServiceOK, RepliesAgree
  <2>11. Keeps(service, v)
    BY <2>2, <2>5, <2>6 DEF Keeps
  <2>12. QED
    BY <2>1, <2>4, <2>6, <2>8, <2>9, <2>10, <2>11 DEF ServiceOK
<1>4. QED
  BY <1>2, <1>3

LEMMA LaunchedStep ==
  ASSUME IntentInv, NEW i \in DOMAIN service.call, NEW ok \in BOOLEAN, Launched(i, ok)
  PROVE  IntentInv' /\ Moves
<1> DEFINE v == TicketIssued(i, ok)
           t == service.call[i].caller
           r == service.call[i].reservation
<1>1. /\ i \in DOMAIN launching
      /\ launching' = Without(launching, {i})
      /\ service' = Replayed(v, t, r) \/ service' = v
      /\ held' = Without(held, {<<t, r>>}) \/ held' = held
      /\ UNCHANGED <<world, reserved, open, opened>>
  BY DEF Launched
<1>2. /\ ServiceOK(v)
      /\ Keeps(service, v)
      /\ \A j \in DOMAIN service.call : j # i => v.call[j].ticketed = service.call[j].ticketed
  BY <1>1, TicketKeeps
<1>3. ServiceOK(service)
  BY DEF IntentInv
<1> HIDE DEF v, t, r
<1>4. /\ ServiceOK(service')
      /\ Keeps(v, service')
      /\ SameTickets(v, service')
  BY <1>1, <1>2, ReplayedKeeps, KeepsItself
<1>5. Keeps(service, service')
  BY <1>2, <1>3, <1>4, KeepsTwice
<1>6. /\ DOMAIN launching' = DOMAIN launching \ {i}
      /\ launching' \in [DOMAIN launching' -> BOOLEAN]
  BY <1>1 DEF Without, Restrict, IntentInv, AroundTyped
<1>7. \A j \in DOMAIN launching' :
        j \in DOMAIN launching /\ service'.call[j].ticketed = service.call[j].ticketed
  BY <1>2, <1>4, <1>6 DEF SameTickets, Keeps, IntentInv, LaunchesPrecedeTickets
<1>8. /\ DOMAIN held' \subseteq DOMAIN held
      /\ held' \in [DOMAIN held' -> [invocation : Invocations, committed : BOOLEAN]]
  BY <1>1 DEF Without, Restrict, IntentInv, AroundTyped
<1>9. AroundTyped'
  BY <1>1, <1>6, <1>8 DEF IntentInv, AroundTyped, world
<1>10. QED
  BY <1>1, <1>4, <1>5, <1>7, <1>9, KeepingStep DEF world

-------------------------------------------------------------------------------
(* Invocations and claims.                                                   *)

LEMMA ReserveStep ==
  ASSUME IntentInv, NEW t \in Tabs, NEW r \in Reservations, NEW i \in Invocations,
         Reserve(t, r, i)
  PROVE  IntentInv' /\ Moves
<1>1. /\ reserved' = reserved \cup {[tab |-> t, reservation |-> r, invocation |-> i]}
      /\ i \notin DOMAIN service.call /\ service.replies[i] = <<>>
      /\ \A e \in reserved : e.invocation # i
      /\ service' = service /\ opened' = opened
      /\ generation' = generation /\ launching' = launching
  BY DEF Reserve, world
<1>2. AroundTyped'
  BY <1>1 DEF Reserve, IntentInv, AroundTyped, world
<1>3. ReservedAreNew'
  BY <1>1 DEF IntentInv, ReservedAreNew
<1>4. LaunchesPrecedeTickets' /\ ClaimedIsOpened'
  BY <1>1 DEF IntentInv, LaunchesPrecedeTickets, ClaimedIsOpened
<1>5. Moves
  BY <1>1 DEF Moves, Unmoved
<1>6. QED
  BY <1>1, <1>2, <1>3, <1>4, <1>5 DEF IntentInv

\* An invocation that is not admitted is answered.
LEMMA RejectedIs ==
  ASSUME ServiceOK(service), NEW i \in Invocations,
         i \notin DOMAIN service.call, service.replies[i] = <<>>,
         NEW v, v = [service EXCEPT !.replies = Replied(service, {i}, "rejected")]
  PROVE  /\ ServiceOK(v)
         /\ v.call = service.call
         /\ v.replies[i] = <<"rejected">>
         /\ \A j \in Invocations : j # i => v.replies[j] = service.replies[j]
<1>1. /\ v.pending = service.pending /\ v.call = service.call
      /\ v.timers = service.timers /\ v.tickets = service.tickets
      /\ v.replies = Replied(service, {i}, "rejected")
  BY DEF ServiceOK, IsService
<1>2. IsService(v)
  BY ServiceChanged DEF ServiceOK
<1>3. /\ v.replies[i] = <<"rejected">>
      /\ v.replies \in [Invocations -> Seq(Outcomes)]
      /\ \A j \in Invocations : j # i => v.replies[j] = service.replies[j]
  <2>1. v.replies = [j \in Invocations |->
                       IF j \in {i} THEN Append(service.replies[j], "rejected")
                                    ELSE service.replies[j]]
    BY <1>1 DEF Replied
  <2>2. /\ Append(<<>>, "rejected") = <<"rejected">>
        /\ <<"rejected">> \in Seq(Outcomes)
    BY FirstAnswer DEF Outcomes
  <2>3. \A j \in Invocations : service.replies[j] \in Seq(Outcomes)
    BY DEF ServiceOK, RepliesAgree
  <2>4. \A j \in Invocations :
          v.replies[j] = IF j = i THEN <<"rejected">> ELSE service.replies[j]
    BY <2>1, <2>2
  <2>5. v.replies = [j \in Invocations |-> v.replies[j]]
    BY <2>1
  <2>6. \A j \in Invocations : v.replies[j] \in Seq(Outcomes)
    BY <2>2, <2>3, <2>4
  <2>7. QED
    BY <2>4, <2>5, <2>6
<1>4. CallsTyped(v) /\ PendingAgrees(v)
  BY <1>1 DEF ServiceOK, CallsTyped, PendingAgrees
<1>5. RepliesAgree(v)
  <2>1. \A j \in DOMAIN v.call : j \in Invocations /\ j # i
    BY <1>1 DEF ServiceOK, CallsTyped
  <2>2. QED
    BY <1>1, <1>3, <2>1 DEF ServiceOK, RepliesAgree
<1>6. QED
  BY <1>1, <1>2, <1>3, <1>4, <1>5 DEF ServiceOK

LEMMA RejectingStep ==
  ASSUME IntentInv, AroundTyped', NEW i \in Invocations,
         i \notin DOMAIN service.call, service.replies[i] = <<>>,
         NEW v, v = [service EXCEPT !.replies = Replied(service, {i}, "rejected")],
         ServiceOK(service'), Keeps(v, service'), SameTickets(v, service'),
         reserved' \subseteq reserved, \A e \in reserved' : e.invocation # i,
         launching' = launching, generation' = generation, opened' = opened
  PROVE  IntentInv' /\ Moves
<1>1. /\ ServiceOK(v)
      /\ v.call = service.call
      /\ v.replies[i] = <<"rejected">>
      /\ \A j \in Invocations : j # i => v.replies[j] = service.replies[j]
  <2>1. ServiceOK(service)
    BY DEF IntentInv
  <2>2. QED
    BY <2>1, RejectedIs
<1>2. /\ DOMAIN service'.call = DOMAIN service.call
      /\ \A j \in DOMAIN service.call :
           /\ service'.call[j].generation = service.call[j].generation
           /\ service'.call[j].ticketed = service.call[j].ticketed
           /\ service'.call[j].claimed = service.call[j].claimed
           /\ service.call[j].terminal => service'.call[j].terminal
  BY <1>1 DEF Keeps, SameTickets
<1>3. \A j \in Invocations \ DOMAIN service.call : service'.replies[j] = v.replies[j]
  BY <1>1 DEF Keeps
<1>4. CallsOf(service', generation') /\ LaunchesPrecedeTickets' /\ ClaimedIsOpened'
  BY <1>2 DEF IntentInv, CallsOf, LaunchesPrecedeTickets, ClaimedIsOpened
<1>5. ReservedAreNew'
  <2>1. \A e \in reserved' : /\ e.invocation \in Invocations
                             /\ e.invocation \notin DOMAIN service.call
                             /\ service.replies[e.invocation] = <<>>
                             /\ e.invocation # i
    BY DEF IntentInv, AroundTyped, ReservedAreNew
  <2>2. \A e \in reserved' : /\ e.invocation \notin DOMAIN service'.call
                             /\ service'.replies[e.invocation] = <<>>
    BY <1>1, <1>2, <1>3, <2>1
  <2>3. QED
    BY <2>2 DEF IntentInv, ReservedAreNew
<1>6. Taken(i)
  BY <1>1, <1>2, <1>3 DEF Taken
<1>7. \A j \in Invocations : j # i => Unmoved(j) \/ Answered(j)
  BY <1>1, AnsweredOrNot
<1>8. Moves
  BY <1>6, <1>7 DEF Moves
<1>9. QED
  BY <1>4, <1>5, <1>8 DEF IntentInv

LEMMA InvokeUnreservedStep ==
  ASSUME IntentInv, NEW t \in Tabs, NEW i \in Invocations, InvokeUnreserved(t, i)
  PROVE  IntentInv' /\ Moves
<1> DEFINE v == [service EXCEPT !.replies = Replied(service, {i}, "rejected")]
<1>1. /\ i \notin DOMAIN service.call /\ service.replies[i] = <<>>
      /\ \A e \in reserved : e.invocation # i
      /\ service' = v
      /\ UNCHANGED <<world, launching, reserved, held, open, opened>>
  BY DEF InvokeUnreserved, route
<1>2. AroundTyped'
  BY <1>1 DEF IntentInv, AroundTyped, world
<1>3. ServiceOK(v)
  <2>1. ServiceOK(service)
    BY DEF IntentInv
  <2>2. QED
    BY <1>1, <2>1, RejectedIs
<1>4. ServiceOK(service') /\ Keeps(v, service') /\ SameTickets(v, service')
  BY <1>1, <1>3, KeepsItself
<1>5. QED
  BY <1>1, <1>2, <1>4, RejectingStep DEF world

\* A call that is admitted takes a free reservation id.
LEMMA AdmittedCall ==
  ASSUME ServiceOK(service), NEW i \in Invocations, NEW r \in Reservations,
         i \notin DOMAIN service.call, service.replies[i] = <<>>,
         r \notin DOMAIN service.pending,
         NEW c \in Call, c.reservation = r,
         ~c.terminal, ~c.ticketed, ~c.claimed,
         NEW w, IsService(w),
         w.pending = With(service.pending, r, i),
         w.call = With(service.call, i, c),
         w.timers = service.timers \cup {i},
         w.tickets = service.tickets,
         w.replies = service.replies
  PROVE  /\ ServiceOK(w)
         /\ DOMAIN w.call = DOMAIN service.call \cup {i}
         /\ w.call[i] = c
         /\ \A j \in DOMAIN service.call : w.call[j] = service.call[j]
<1>1. /\ DOMAIN w.call = DOMAIN service.call \cup {i}
      /\ w.call[i] = c
      /\ \A j \in DOMAIN service.call : w.call[j] = service.call[j]
      /\ w.call \in [DOMAIN w.call -> Call]
  BY DEF With, ServiceOK, CallsTyped
<1>2. /\ DOMAIN w.pending = DOMAIN service.pending \cup {r}
      /\ w.pending[r] = i
      /\ \A q \in DOMAIN service.pending : w.pending[q] = service.pending[q]
      /\ w.pending \in [DOMAIN w.pending -> DOMAIN w.call]
  BY <1>1 DEF With, ServiceOK, PendingAgrees
<1>3. CallsTyped(w)
  BY <1>1 DEF ServiceOK, CallsTyped
<1>4. PendingAgrees(w)
  <2>1. \A q \in DOMAIN service.pending :
          service.pending[q] \in DOMAIN service.call /\ service.pending[q] # i
    BY DEF ServiceOK, PendingAgrees
  <2>2. \A q \in DOMAIN w.pending : w.call[w.pending[q]].reservation = q
    BY <1>1, <1>2, <2>1 DEF ServiceOK, PendingAgrees
  <2>3. ASSUME NEW j \in DOMAIN w.call
        PROVE  /\ ~w.call[j].terminal <=> j \in w.timers
               /\ ~w.call[j].terminal <=>
                    /\ w.call[j].reservation \in DOMAIN w.pending
                    /\ w.pending[w.call[j].reservation] = j
    <3>1. CASE j = i
      BY <1>1, <1>2, <3>1
    <3>2. CASE j # i
      BY <1>1, <1>2, <3>2 DEF ServiceOK, PendingAgrees
    <3>3. QED
      BY <3>1, <3>2
  <2>4. /\ w.timers \subseteq DOMAIN w.call
        /\ w.tickets \subseteq DOMAIN w.call
        /\ DOMAIN w.pending \subseteq Reservations
    BY <1>1, <1>2 DEF ServiceOK, PendingAgrees
  <2>5. \A j \in w.tickets : ~w.call[j].terminal /\ w.call[j].ticketed /\ ~w.call[j].claimed
    BY <1>1 DEF ServiceOK, PendingAgrees
  <2>6. QED
    BY <1>2, <2>2, <2>3, <2>4, <2>5 DEF PendingAgrees
<1>5. RepliesAgree(w)
  BY <1>1 DEF ServiceOK, RepliesAgree
<1>6. QED
  BY <1>1, <1>3, <1>4, <1>5 DEF ServiceOK

LEMMA InvokeStep ==
  ASSUME IntentInv, NEW e \in reserved, NEW allowed \in BOOLEAN, Invoke(e, allowed)
  PROVE  IntentInv' /\ Moves
<1> DEFINE i == e.invocation
           r == e.reservation
           t == e.tab
<1>1. /\ i \in Invocations /\ r \in Reservations /\ t \in Tabs
      /\ i \notin DOMAIN service.call /\ service.replies[i] = <<>>
      /\ \A f \in reserved \ {e} : f.invocation # i
      /\ ServiceOK(service)
  BY DEF IntentInv, AroundTyped, ReservedAreNew
<1>2. reserved' = reserved \ {e} /\ UNCHANGED <<world, open, opened>>
  BY DEF Invoke
<1>3. CASE ~Admits(r, allowed)
  <2> DEFINE v == [service EXCEPT !.replies = Replied(service, {i}, "rejected")]
  <2>1. /\ service' = Replayed(v, t, r)
        /\ held' = Without(held, {<<t, r>>})
        /\ launching' = launching
    BY <1>3 DEF Invoke
  <2>2. ServiceOK(v)
    BY <1>1, RejectedIs
  <2>3. ServiceOK(service') /\ Keeps(v, service') /\ SameTickets(v, service')
    BY <2>1, <2>2, ReplayedKeeps
  <2>4. /\ DOMAIN held' \subseteq DOMAIN held
        /\ held' \in [DOMAIN held' -> [invocation : Invocations, committed : BOOLEAN]]
    BY <2>1 DEF Without, Restrict, IntentInv, AroundTyped
  <2>5. AroundTyped'
    BY <1>2, <2>1, <2>4 DEF IntentInv, AroundTyped, world
  <2>6. reserved' \subseteq reserved /\ \A f \in reserved' : f.invocation # i
    BY <1>1, <1>2
  <2> HIDE DEF i, r, t
  <2>7. QED
    BY <1>1, <1>2, <2>1, <2>3, <2>5, <2>6, RejectingStep DEF world
<1>4. CASE Admits(r, allowed)
  <2> DEFINE c == NewCall(t, r)
  <2> DEFINE p == With(service.pending, r, i)
             d == With(service.call, i, c)
             m == service.timers \cup {i}
             w == [service EXCEPT !.pending = p, !.call = d, !.timers = m]
  <2>1. /\ service' = w
        /\ launching' = With(launching, i, TRUE)
        /\ held' = held
    BY <1>4 DEF Invoke
  <2>2. r \notin DOMAIN service.pending /\ account \in Accounts
    BY <1>4 DEF Admits, IntentInv, AroundTyped
  <2>3. /\ c \in Call
        /\ c.reservation = r /\ c.generation = generation
        /\ ~c.terminal /\ ~c.ticketed /\ ~c.claimed
    BY <1>1, <2>2 DEF NewCall, Call, IntentInv, AroundTyped
  <2> HIDE DEF c, i, r, t
  <2>4. /\ w.pending = p /\ w.call = d /\ w.timers = m
        /\ w.tickets = service.tickets
        /\ w.replies = service.replies
        /\ IsService(w)
    <3> HIDE DEF p, d, m
    <3>1. IsService(service)
      BY <1>1 DEF ServiceOK
    <3>2. /\ w.pending = p /\ w.call = d /\ w.timers = m
          /\ w.tickets = service.tickets
          /\ w.replies = service.replies
      BY <3>1 DEF IsService
    <3>3. w = [[[service EXCEPT !.pending = p] EXCEPT !.call = d] EXCEPT !.timers = m]
      OBVIOUS
    <3>4. QED
      BY <3>1, <3>2, <3>3, ServiceChanged
  <2> HIDE DEF w
  <2>5. /\ ServiceOK(w)
        /\ DOMAIN w.call = DOMAIN service.call \cup {i}
        /\ w.call[i] = c
        /\ \A j \in DOMAIN service.call : w.call[j] = service.call[j]
    BY <1>1, <2>2, <2>3, <2>4, AdmittedCall, SMTT(60)
  <2>6. /\ DOMAIN launching' = DOMAIN launching \cup {i}
        /\ launching' \in [DOMAIN launching' -> BOOLEAN]
    BY <2>1 DEF With, IntentInv, AroundTyped
  <2>7. AroundTyped'
    BY <1>2, <2>1, <2>6 DEF IntentInv, AroundTyped, world
  <2>8. CallsOf(service', generation')
    BY <1>2, <2>1, <2>3, <2>5 DEF IntentInv, CallsOf, world
  <2>9. LaunchesPrecedeTickets'
    BY <2>1, <2>3, <2>5, <2>6 DEF IntentInv, LaunchesPrecedeTickets
  <2>10. ReservedAreNew'
    <3>1. \A f \in reserved' : f \in reserved /\ f.invocation # i
      BY <1>1, <1>2
    <3>2. QED
      BY <2>1, <2>4, <2>5, <3>1 DEF IntentInv, ReservedAreNew
  <2>11. ClaimedIsOpened'
    <3>1. \A j \in Invocations :
            (j \in DOMAIN service'.call /\ service'.call[j].claimed)
              <=> (j \in DOMAIN service.call /\ service.call[j].claimed)
      BY <1>1, <2>1, <2>3, <2>5
    <3>2. QED
      BY <1>2, <3>1 DEF IntentInv, ClaimedIsOpened
  <2>12. Moves
    <3>1. Taken(i)
      BY <1>1, <1>2, <2>1, <2>4, <2>5 DEF Taken
    <3>2. \A j \in Invocations : j # i => Unmoved(j)
      BY <1>2, <2>1, <2>4, <2>5 DEF Unmoved
    <3>3. QED
      BY <3>1, <3>2 DEF Moves
  <2>13. QED
    BY <2>1, <2>5, <2>7, <2>8, <2>9, <2>10, <2>11, <2>12 DEF IntentInv
<1>5. QED
  BY <1>3, <1>4

\* A ticket is taken and its call claimed.
LEMMA ClaimedCall ==
  ASSUME ServiceOK(service), NEW i \in service.tickets,
         NEW v, IsService(v),
         v.pending = service.pending, v.timers = service.timers,
         v.replies = service.replies, v.tickets = service.tickets \ {i},
         v.call = [service.call EXCEPT ![i] = [service.call[i] EXCEPT !.claimed = TRUE]]
  PROVE  /\ ServiceOK(v)
         /\ DOMAIN v.call = DOMAIN service.call
         /\ v.call[i].account = service.call[i].account
         /\ v.call[i].generation = service.call[i].generation
         /\ v.call[i].ticketed = service.call[i].ticketed
         /\ v.call[i].terminal = service.call[i].terminal
         /\ v.call[i].claimed
         /\ \A j \in DOMAIN service.call : j # i => v.call[j] = service.call[j]
<1> DEFINE d == [service.call[i] EXCEPT !.claimed = TRUE]
<1>1. /\ i \in DOMAIN service.call /\ service.call[i] \in Call
      /\ service.call[i].ticketed /\ ~service.call[i].terminal
  BY DEF ServiceOK, CallsTyped, PendingAgrees
<1>2. /\ d \in Call
      /\ d.reservation = service.call[i].reservation
      /\ d.account = service.call[i].account
      /\ d.generation = service.call[i].generation
      /\ d.ticketed = service.call[i].ticketed
      /\ d.terminal = service.call[i].terminal
      /\ d.claimed = TRUE
  BY <1>1 DEF Call
<1> HIDE DEF d
<1>3. v.call = [service.call EXCEPT ![i] = d]
  BY DEF d
<1>4. /\ DOMAIN v.call = DOMAIN service.call
      /\ v.call[i] = d
      /\ \A j \in DOMAIN service.call : j # i => v.call[j] = service.call[j]
      /\ v.call \in [DOMAIN v.call -> Call]
  BY <1>1, <1>2, <1>3 DEF ServiceOK, CallsTyped
<1>5. CallsTyped(v)
  BY <1>1, <1>2, <1>4 DEF ServiceOK, CallsTyped
<1>6. \A j \in DOMAIN service.call :
        /\ v.call[j].reservation = service.call[j].reservation
        /\ v.call[j].terminal = service.call[j].terminal
        /\ v.call[j].ticketed = service.call[j].ticketed
        /\ j # i => v.call[j].claimed = service.call[j].claimed
  BY <1>2, <1>4
<1>7. PendingAgrees(v)
  BY <1>4, <1>6 DEF ServiceOK, PendingAgrees
<1>8. RepliesAgree(v)
  <2>1. ~v.call[i].terminal /\ v.replies[i] = <<>>
    BY <1>1, <1>6 DEF ServiceOK, RepliesAgree
  <2>2. QED
    BY <1>4, <1>6, <2>1 DEF ServiceOK, RepliesAgree
<1>9. QED
  BY <1>2, <1>4, <1>5, <1>7, <1>8 DEF ServiceOK

LEMMA ClaimStep ==
  ASSUME IntentInv, NEW i \in DOMAIN service.call, Claim(i)
  PROVE  IntentInv' /\ Moves
<1> DEFINE v == [service EXCEPT !.tickets = service.tickets \ {i},
                                !.call[i].claimed = TRUE]
<1>1. i \in service.tickets /\ ServiceOK(service)
  BY DEF Claim, IntentInv
<1>2. service.pending[service.call[i].reservation] = i
  BY <1>1 DEF ServiceOK, PendingAgrees
<1>3. /\ ~service.call[i].terminal
      /\ service.call[i].account = account
      /\ service.call[i].generation = generation
      /\ service' = Settled(v, {i}, "handled") \/ service' = v
      /\ opened' = [opened EXCEPT ![i] = @ + 1]
      /\ UNCHANGED <<world, launching, reserved, held, open>>
  BY <1>2 DEF Claim, route
<1>4. /\ v.pending = service.pending /\ v.timers = service.timers
      /\ v.replies = service.replies /\ v.tickets = service.tickets \ {i}
      /\ v.call = [service.call EXCEPT ![i] = [service.call[i] EXCEPT !.claimed = TRUE]]
      /\ IsService(v)
  <2> DEFINE k == service.tickets \ {i}
             w == [service EXCEPT !.tickets = k, !.call[i].claimed = TRUE]
  <2> HIDE DEF k
  <2>1. IsService(service)
    BY <1>1 DEF ServiceOK
  <2>2. /\ w.pending = service.pending /\ w.timers = service.timers
        /\ w.replies = service.replies /\ w.tickets = k
    BY <2>1 DEF IsService
  <2>3. w.call = [service.call EXCEPT ![i] = [service.call[i] EXCEPT !.claimed = TRUE]]
    BY <2>1 DEF IsService
  <2>4. w = [[service EXCEPT !.call = [service.call EXCEPT ![i].claimed = TRUE]]
               EXCEPT !.tickets = k]
    BY <2>1 DEF IsService
  <2>5. IsService(w)
    BY <2>1, <2>4, ServiceChanged
  <2>6. QED
    BY <2>2, <2>3, <2>5 DEF k
<1> HIDE DEF v
<1>5. /\ ServiceOK(v)
      /\ DOMAIN v.call = DOMAIN service.call
      /\ v.call[i].account = service.call[i].account
      /\ v.call[i].generation = service.call[i].generation
      /\ v.call[i].ticketed = service.call[i].ticketed
      /\ v.call[i].terminal = service.call[i].terminal
      /\ v.call[i].claimed
      /\ \A j \in DOMAIN service.call : j # i => v.call[j] = service.call[j]
  BY <1>1, <1>4, ClaimedCall
<1>6. /\ ServiceOK(service') /\ Keeps(v, service') /\ SameTickets(v, service')
      /\ service'.replies[i] \in {<<>>, <<"handled">>}
  <2>1. CASE service' = v
    <3>1. service.replies[i] = <<>>
      BY <1>1, <1>3 DEF ServiceOK, RepliesAgree
    <3>2. QED
      BY <1>4, <1>5, <2>1, <3>1, KeepsItself
  <2>2. CASE service' = Settled(v, {i}, "handled")
    <3>1. /\ {i} \in SUBSET (DOMAIN v.call)
          /\ \A j \in {i} : /\ v.call[j].claimed
                            /\ v.call[j].account = account
                            /\ v.call[j].generation = generation
      BY <1>3, <1>5
    <3>2. /\ ServiceOK(service') /\ Keeps(v, service') /\ SameTickets(v, service')
          /\ \A j \in {i} : ~v.call[j].terminal => service'.replies[j] = <<"handled">>
      BY <1>5, <2>2, <3>1, SettledKeeps
    <3>3. QED
      BY <1>3, <1>5, <3>2
  <2>3. QED
    BY <1>3, <2>1, <2>2
<1>7. /\ DOMAIN service'.call = DOMAIN service.call
      /\ service'.call[i].claimed
      /\ \A j \in DOMAIN service.call :
           /\ service'.call[j].generation = service.call[j].generation
           /\ service'.call[j].ticketed = service.call[j].ticketed
           /\ j # i => service'.call[j].claimed = service.call[j].claimed
           /\ service.call[j].terminal => service'.call[j].terminal
  BY <1>3, <1>5, <1>6 DEF Keeps, SameTickets
<1>8. i \in Invocations /\ ~service.call[i].claimed
  BY <1>1 DEF ServiceOK, CallsTyped, PendingAgrees
<1>9. opened[i] = 0 /\ opened'[i] = 1 /\ \A j \in Invocations : j # i => opened'[j] = opened[j]
  BY <1>3, <1>8 DEF IntentInv, ClaimedIsOpened
<1>10. AroundTyped'
  BY <1>3 DEF IntentInv, AroundTyped, world
<1>11. CallsOf(service', generation') /\ LaunchesPrecedeTickets'
  BY <1>3, <1>7 DEF IntentInv, CallsOf, LaunchesPrecedeTickets, world
<1>12. ReservedAreNew'
  <2>1. \A e \in reserved : /\ e.invocation \in Invocations \ DOMAIN service.call
                            /\ service.replies[e.invocation] = <<>>
    BY DEF IntentInv, AroundTyped, ReservedAreNew
  <2>2. \A j \in Invocations \ DOMAIN service.call : service'.replies[j] = service.replies[j]
    BY <1>4, <1>5, <1>6 DEF Keeps
  <2>3. QED
    BY <1>3, <1>7, <2>1, <2>2 DEF IntentInv, ReservedAreNew
<1>13. ClaimedIsOpened'
  <2>1. \A j \in Invocations :
          opened'[j] = IF j \in DOMAIN service'.call /\ service'.call[j].claimed THEN 1 ELSE 0
    BY <1>7, <1>9 DEF IntentInv, ClaimedIsOpened
  <2>2. opened' = [j \in Invocations |-> opened'[j]]
    BY <1>3 DEF IntentInv, ClaimedIsOpened
  <2>3. QED
    BY <2>1, <2>2 DEF ClaimedIsOpened
<1>14. Moves
  <2>1. HandedOut(i)
    BY <1>1, <1>3, <1>6, <1>7, <1>9 DEF HandedOut, Current, ServiceOK, RepliesAgree
  <2>2. \A j \in Invocations : j # i => Unmoved(j) \/ Answered(j)
    BY <1>4, <1>5, <1>6, <1>9, AnsweredOrNot
  <2>3. QED
    BY <2>1, <2>2 DEF Moves
<1>15. QED
  BY <1>6, <1>10, <1>11, <1>12, <1>13, <1>14 DEF IntentInv

-------------------------------------------------------------------------------
(* The invariant is inductive.                                               *)

LEMMA IntentBegins == Init => IntentInv
<1> SUFFICES ASSUME Init
             PROVE  IntentInv
  OBVIOUS
<1>1. /\ service = [ pending |-> service.pending, call |-> service.call,
                     timers |-> service.timers, tickets |-> service.tickets,
                     replies |-> service.replies ]
      /\ DOMAIN service.pending = {} /\ service.pending = [r \in {} |-> {}]
      /\ DOMAIN service.call = {} /\ service.call = [i \in {} |-> {}]
      /\ service.timers = {} /\ service.tickets = {}
      /\ service.replies = [i \in Invocations |-> <<>>]
  BY DEF Init
<1>2. IsService(service) /\ CallsTyped(service) /\ PendingAgrees(service)
  BY <1>1 DEF IsService, CallsTyped, PendingAgrees
<1>3. RepliesAgree(service)
  <2>1. <<>> \in Seq(Outcomes)
    OBVIOUS
  <2>2. QED
    BY <1>1, <2>1 DEF RepliesAgree
<1>4. AroundTyped
  BY DEF Init, AroundTyped
<1>5. CallsOf(service, generation) /\ ClaimedIsOpened
  BY <1>1 DEF Init, CallsOf, ClaimedIsOpened
<1>6. LaunchesPrecedeTickets /\ ReservedAreNew
  BY DEF Init, LaunchesPrecedeTickets, ReservedAreNew
<1>7. QED
  BY <1>2, <1>3, <1>4, <1>5, <1>6 DEF IntentInv, ServiceOK

LEMMA IntentSteps ==
  ASSUME IntentInv, [Next]_vars
  PROVE  IntentInv' /\ (Moves \/ UNCHANGED vars)
<1>1. CASE UNCHANGED vars
  BY <1>1 DEF vars, world, route, IntentInv, ServiceOK, IsService, CallsTyped, PendingAgrees,
              RepliesAgree, CallsOf, AroundTyped, LaunchesPrecedeTickets, ReservedAreNew,
              ClaimedIsOpened
<1>2. ASSUME NEW t \in Tabs, FromCaller(t)
      PROVE  IntentInv' /\ Moves
  <2>1. ASSUME NEW r \in Reservations, NEW i \in Invocations, Reserve(t, r, i)
        PROVE  IntentInv' /\ Moves
    BY <2>1, ReserveStep
  <2>2. ASSUME NEW r \in Reservations, NEW i \in Invocations, NEW committed \in BOOLEAN,
               Acknowledge(t, r, i, committed)
        PROVE  IntentInv' /\ Moves
    BY <2>2, AcknowledgeStep
  <2>3. ASSUME NEW i \in Invocations, InvokeUnreserved(t, i)
        PROVE  IntentInv' /\ Moves
    BY <2>3, InvokeUnreservedStep
  <2>4. CASE Disconnect(t) \/ CloseWindow(t)
    BY <2>4, TabLeaves
  <2>5. QED
    BY <1>2, <2>1, <2>2, <2>3, <2>4 DEF FromCaller
<1>3. ASSUME NEW e \in reserved, NEW allowed \in BOOLEAN, Invoke(e, allowed)
      PROVE  IntentInv' /\ Moves
  BY <1>3, InvokeStep
<1>4. CASE \/ \E e \in reserved : ReservationLapses(e)
           \/ \E id \in DOMAIN held : HeldLapses(id)
  BY <1>4, LapseSteps
<1>5. ASSUME NEW i \in DOMAIN service.call, OfCall(i)
      PROVE  IntentInv' /\ Moves
  <2>1. ASSUME NEW ok \in BOOLEAN, Launched(i, ok)
        PROVE  IntentInv' /\ Moves
    BY <2>1, LaunchedStep
  <2>2. CASE Claim(i)
    BY <2>2, ClaimStep
  <2>3. CASE ClaimExpired(i) \/ CloseTarget(i)
    BY <2>3, SettlingSteps
  <2>4. QED
    BY <1>5, <2>1, <2>2, <2>3 DEF OfCall
<1>6. ASSUME NEW i \in service.timers, Timeout(i)
      PROVE  IntentInv' /\ Moves
  <2>1. i \in DOMAIN service.call
    BY DEF IntentInv, ServiceOK, PendingAgrees
  <2>2. QED
    BY <1>6, <2>1, SettlingSteps
<1>7. CASE OfWorld
  BY <1>7, WorldMoves
<1>8. QED
  BY <1>1, <1>2, <1>3, <1>4, <1>5, <1>6, <1>7 DEF Next

LEMMA IntentInvariant == Spec => []IntentInv
<1>1. Init => IntentInv
  BY IntentBegins
<1>2. IntentInv /\ [Next]_vars => IntentInv'
  BY IntentSteps
<1>3. QED
  BY <1>1, <1>2, PTL DEF Spec

-------------------------------------------------------------------------------
(* What follows from it.                                                     *)

\* The service's maps, the route's correlations and the waiting launches have
\* their types in every reachable state.
THEOREM TypesAreKept == Spec => []TypeOK
<1>1. IntentInv => TypeOK
  <2> SUFFICES ASSUME IntentInv
               PROVE  TypeOK
    OBVIOUS
  <2>1. DOMAIN service = Service
    BY DEF IntentInv, ServiceOK, IsService, Service
  <2>2. /\ DOMAIN service.pending \subseteq Reservations
        /\ DOMAIN service.call \subseteq Invocations
        /\ service.call \in [DOMAIN service.call -> Call]
        /\ service.timers \subseteq DOMAIN service.call
        /\ service.tickets \subseteq DOMAIN service.call
        /\ service.replies \in [Invocations -> Seq(Outcomes)]
    BY DEF IntentInv, ServiceOK, CallsTyped, PendingAgrees, RepliesAgree
  <2>3. PendingCalls(service) \subseteq DOMAIN service.call
    BY PendingAreCalls
  <2>4. DOMAIN launching \subseteq DOMAIN service.call
    BY DEF IntentInv, LaunchesPrecedeTickets
  <2>5. opened \in [Invocations -> Nat]
    BY DEF IntentInv, ClaimedIsOpened
  <2>6. QED
    BY <2>1, <2>2, <2>3, <2>4, <2>5 DEF IntentInv, AroundTyped, TypeOK
<1>2. QED
  BY <1>1, IntentInvariant, PTL

\* A call is pending under its own id, with its timer, until it is answered, and
\* never after; its ticket can be claimed only as long, once, from the current
\* catalog; no caller is answered twice.
THEOREM CallsAlwaysWait == Spec => []CallsAreWaiting
<1>1. IntentInv => CallsAreWaiting
  <2> SUFFICES ASSUME IntentInv
               PROVE  CallsAreWaiting
    OBVIOUS
  <2>1. PendingIsWaiting
    BY DEF IntentInv, ServiceOK, PendingAgrees, PendingIsWaiting
  <2>2. TicketsArePending
    <3>1. ASSUME NEW i \in service.tickets
          PROVE  /\ i \in DOMAIN service.call
                 /\ ~service.call[i].terminal /\ ~service.call[i].claimed
                 /\ service.call[i].reservation \in DOMAIN service.pending
                 /\ service.pending[service.call[i].reservation] = i
      BY <3>1 DEF IntentInv, ServiceOK, PendingAgrees
    <3>2. QED
      BY <3>1 DEF TicketsArePending, PendingCalls, Range, IntentInv, CallsOf
  <2>3. AnsweredOnce
    <3>1. \A i \in Invocations :
            \/ service.replies[i] = <<>> \/ service.replies[i] = <<"rejected">>
            \/ service.replies[i] = <<"failed">> \/ service.replies[i] = <<"handled">>
      BY DEF IntentInv, ServiceOK, RepliesAgree
    <3>2. /\ Len(<<>>) <= 1 /\ Len(<<"rejected">>) <= 1
          /\ Len(<<"failed">>) <= 1 /\ Len(<<"handled">>) <= 1
      OBVIOUS
    <3>3. QED
      BY <3>1, <3>2, Zenon DEF AnsweredOnce
  <2>4. QED
    BY <2>1, <2>2, <2>3 DEF CallsAreWaiting
<1>2. QED
  BY <1>1, IntentInvariant, PTL

\* A handler is handed out, or "handled" is said of it, only to the account that
\* is signed in, under the catalog it was selected from.
THEOREM HandedOutIsAuthorized == Spec => OpenedIsAuthorized
<1>1. ASSUME IntentInv, Moves, NEW i \in DOMAIN service.call,
             \/ opened'[i] # opened[i]
             \/ service'.replies[i] = Append(service.replies[i], "handled")
      PROVE  /\ service.call[i].account = account
             /\ service.call[i].generation = generation
             /\ ~service.call[i].terminal
  <2>1. i \in Invocations
    BY <1>1 DEF IntentInv, ServiceOK, CallsTyped
  <2>2. CASE Unmoved(i)
    <3>1. service.replies[i] \in {<<>>, <<"failed">>, <<"handled">>}
      BY <1>1 DEF IntentInv, ServiceOK, RepliesAgree
    <3>2. /\ Append(<<>>, "handled") # <<>>
          /\ Append(<<"failed">>, "handled") # <<"failed">>
          /\ Append(<<"handled">>, "handled") # <<"handled">>
      OBVIOUS
    <3>3. QED
      BY <1>1, <2>2, <3>1, <3>2 DEF Unmoved
  <2>3. CASE Answered(i)
    <3>1. Append(<<>>, "handled") = <<"handled">>
      OBVIOUS
    <3>2. service'.replies[i] = <<"handled">>
      BY <1>1, <2>3, <3>1 DEF Answered
    <3>3. QED
      BY <2>3, <3>2, Answers DEF Answered, Current
  <2>4. CASE HandedOut(i)
    BY <2>4 DEF HandedOut, Current
  <2>5. ~Taken(i)
    BY DEF Taken
  <2>6. QED
    BY <1>1, <2>1, <2>2, <2>3, <2>4, <2>5 DEF Moves
<1>2. ASSUME IntentInv, [Next]_vars
      PROVE  [ \A i \in DOMAIN service.call :
                 \/ opened'[i] # opened[i]
                 \/ service'.replies[i] = Append(service.replies[i], "handled")
                 => /\ service.call[i].account = account
                    /\ service.call[i].generation = generation
                    /\ ~service.call[i].terminal ]_<<service, opened>>
  <2>1. CASE Moves
    BY <1>1, <1>2, <2>1
  <2>2. CASE UNCHANGED vars
    BY <2>2 DEF vars
  <2>3. QED
    BY <1>2, <2>1, <2>2, IntentSteps
<1>3. QED
  BY <1>2, IntentInvariant, PTL DEF Spec, OpenedIsAuthorized

\* The service implements the safety part of IntentContract: every invocation is
\* taken or rejected once, opened at most once while it waits, and answered once,
\* "handled" only if it was opened.
THEOREM ContractIsKept ==
  Spec => Contract!Init /\ [][Contract!Next]_(Contract!vars)
<1>1. Init => Contract!Init
  BY DEF Init, Contract!Init, StatusOf
<1>2. ASSUME IntentInv, NEW i \in Invocations, Unmoved(i)
      PROVE  StatusOf(i)' = StatusOf(i) /\ opened'[i] = opened[i]
  BY <1>2 DEF Unmoved, StatusOf
<1>3. ASSUME IntentInv, NEW i \in Invocations, Taken(i)
      PROVE  /\ StatusOf(i) = "idle" /\ StatusOf(i)' \in {"waiting", "rejected"}
             /\ opened'[i] = opened[i]
  <2>1. Len(<<"rejected">>) = 1 /\ <<"rejected">>[1] = "rejected" /\ <<"rejected">> # <<>>
    OBVIOUS
  <2>2. QED
    BY <1>3, <2>1 DEF Taken, StatusOf
<1>4. ASSUME IntentInv, NEW i \in Invocations, Answered(i)
      PROVE  /\ StatusOf(i) = "waiting" /\ opened'[i] = opened[i]
             /\ StatusOf(i)' = "failed" \/ (StatusOf(i)' = "handled" /\ opened[i] = 1)
  <2>1. /\ Len(<<"failed">>) = 1 /\ <<"failed">>[1] = "failed" /\ <<"failed">> # <<>>
        /\ Len(<<"handled">>) = 1 /\ <<"handled">>[1] = "handled" /\ <<"handled">> # <<>>
    OBVIOUS
  <2>2. QED
    BY <1>4, <2>1 DEF Answered, StatusOf
<1>5. ASSUME IntentInv, NEW i \in Invocations, HandedOut(i)
      PROVE  /\ StatusOf(i) = "waiting" /\ opened[i] = 0 /\ opened'[i] = 1
             /\ StatusOf(i)' \in {"waiting", "handled"}
  <2>1. Len(<<"handled">>) = 1 /\ <<"handled">>[1] = "handled" /\ <<"handled">> # <<>>
    OBVIOUS
  <2>2. QED
    BY <1>5, <2>1 DEF HandedOut, StatusOf
<1>6. ASSUME IntentInv, [Next]_vars
      PROVE  [Contract!Next]_(Contract!vars)
  <2>1. CASE Moves
    <3>1. ASSUME NEW i \in Invocations
          PROVE  \/ Contract!Stays(i) \/ Contract!Accept(i) \/ Contract!Open(i)
                 \/ Contract!Fail(i) \/ Contract!Handle(i)
      <4>1. CASE Unmoved(i)
        BY <1>2, <1>6, <4>1 DEF Contract!Stays
      <4>2. CASE Taken(i)
        BY <1>3, <1>6, <4>2 DEF Contract!Accept
      <4>3. CASE Answered(i)
        BY <1>4, <1>6, <4>3 DEF Contract!Fail, Contract!Handle
      <4>4. CASE HandedOut(i)
        BY <1>5, <1>6, <4>4 DEF Contract!Open
      <4>5. QED
        BY <2>1, <4>1, <4>2, <4>3, <4>4 DEF Moves
    <3>2. QED
      BY <3>1 DEF Contract!Next
  <2>2. CASE UNCHANGED vars
    BY <2>2 DEF vars, Contract!vars, StatusOf
  <2>3. QED
    BY <1>6, <2>1, <2>2, IntentSteps
<1>7. QED
  BY <1>1, <1>6, IntentInvariant, PTL DEF Spec

===============================================================================
