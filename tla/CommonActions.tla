------------------------------ MODULE CommonActions ------------------------------
(***************************************************************************)
(* What napplets do in the user's name: CommonService (common.ts) follows  *)
(* and unfollows, reacts and reports, by publishing events through         *)
(* OutboxAdapter.publish (outbox.ts), and shows profiles and follows from  *)
(* the event store, which it has refreshed (event_runtime.ts).             *)
(*                                                                         *)
(* The event store is in memory: it starts with no list of anybody, and    *)
(* has one only when a refresh brought it or a change was accepted.  What  *)
(* the relays have is another matter; it may be newer, and it may be there *)
(* before the portal starts.  A change is made to the list of the store.   *)
(*                                                                         *)
(* External: the signer, the relays, the store and other clients.          *)
(* Reactions and reports are one kind of operation, a note.  The clock is  *)
(* not modelled: an event may have any time its guard allows.  Loads of    *)
(* one list for one window count as one.  The relays are one: a relay that *)
(* lacks a list shows in a refresh that brings an older one.  NIP-19       *)
(* conversions are left out.                                               *)
(***************************************************************************)
EXTENDS Naturals, Sequences

CONSTANTS Users, People, CommonWindows, Ops,
          NobodyActive,
          MaxSwitches,  \* bound: changes of the signed-in account
          MaxSeconds    \* bound: created_at

ASSUME CommonAssumption ==
  /\ NobodyActive \notin Users /\ {MaxSwitches, MaxSeconds} \subseteq Nat
  /\ People # {}

VARIABLES
  identity,   \* the account signed in, and the generation of the identity
  contacts,   \* contacts[u]: the newest list of u in the event store
  relayLists, \* relayLists[u]: the newest list of u that a relay has
  ops,        \* ops[o]: an operation under way
  tails,      \* tails[u]: operations on u's list, in the order they will run
  loads,      \* loads[w]: accounts whose list is being refreshed for w
  serviceClosed,     \* #destroyed
  intended,   \* history: the list as the user's accepted changes make it
  overtaken,  \* history: a list arrived while one was being changed
  unseen      \* history: the relays have a list that is not of an accepted
              \* change and that no refresh has brought

histories == <<intended, overtaken, unseen>>
world == <<contacts, relayLists, histories>>
commonVars == <<identity, world, ops, tails, loads, serviceClosed>>

Identity == [user : Users \cup {NobodyActive}, generation : 0..MaxSwitches]
List == [at : 0..MaxSeconds, people : SUBSET People]
Changes == {"follow", "unfollow"}
Op == [step : {"idle", "queued", "signing", "sending"}, kind : Changes \cup {"note"},
       person : People, by : Identity, list : List]

EmptyList == [at |-> 0, people |-> {}]  \* no list
PublishedList == {list \in List : list.at > 0}
Somebody == CHOOSE p \in People : TRUE
NoOp == [step |-> "idle", kind |-> "note", person |-> Somebody,
         by |-> [user |-> NobodyActive, generation |-> 0], list |-> EmptyList]

CommonInit ==
  /\ identity \in [user : Users \cup {NobodyActive}, generation : {0}]
  /\ contacts = [u \in Users |-> EmptyList]
  /\ relayLists \in [Users -> {EmptyList} \cup PublishedList]
  /\ ops = [o \in Ops |-> NoOp]
  /\ tails = [u \in Users |-> <<>>]
  /\ loads = [w \in CommonWindows |-> {}]
  /\ serviceClosed = FALSE
  /\ intended = [u \in Users |-> {}]
  /\ overtaken = [u \in Users |-> FALSE]
  /\ unseen = [u \in Users |-> relayLists[u] # EmptyList]

\* The last second that leaves one for each change that waits, and that of a
\* change that is under way.
Room(u) == MaxSeconds - Len(tails[u])
UsedUp(u) == {contacts[u].at, relayLists[u].at}
               \cup {ops[o].list.at : o \in {q \in Ops : ops[q].by.user = u}}

-----------------------------------------------------------------------------
(***************************************************************************)
(* The portal: accounts, time, windows.                                    *)
(***************************************************************************)
IdentityChanges(u) ==
  /\ u # identity.user /\ identity.generation < MaxSwitches
  /\ identity' = [user |-> u, generation |-> identity.generation + 1]
  /\ UNCHANGED <<world, ops, tails, loads, serviceClosed>>

\* cancel, of a window that is gone
CancelLoads(w) ==
  /\ loads[w] # {}
  /\ loads' = [loads EXCEPT ![w] = {}]
  /\ UNCHANGED <<identity, world, ops, tails, serviceClosed>>

CloseCommon ==
  /\ ~serviceClosed
  /\ serviceClosed' = TRUE
  /\ loads' = [w \in CommonWindows |-> {}]
  /\ UNCHANGED <<identity, world, ops, tails>>

-----------------------------------------------------------------------------
(***************************************************************************)
(* Reading: what the store has is shown, and a refresh begun.              *)
(***************************************************************************)
AskFollows(w) ==
  /\ ~serviceClosed /\ identity.user # NobodyActive
  /\ loads' = [loads EXCEPT ![w] = @ \cup {identity.user}]
  /\ UNCHANGED <<identity, world, ops, tails, serviceClosed>>

\* It completes or fails, or 5 s have passed.
LoadEnds(w, u) ==
  /\ u \in loads[w]
  /\ loads' = [loads EXCEPT ![w] = @ \ {u}]
  /\ UNCHANGED <<identity, world, ops, tails, serviceClosed>>

\* Of two lists the one with the later time is kept; of two with the same time
\* the one with the lower id, which may be either.
Newest(a, b) == {list \in {a, b} : list.at >= a.at /\ list.at >= b.at}

Stored(u, list) == \E kept \in Newest(contacts[u], list) : contacts' = [contacts EXCEPT ![u] = kept]
Taken(u, list) ==
  \E kept \in Newest(relayLists[u], list) : relayLists' = [relayLists EXCEPT ![u] = kept]

BeingChanged(u) == \E o \in Ops : /\ ops[o].step \in {"signing", "sending"}
                                  /\ ops[o].kind \in Changes /\ ops[o].by.user = u

\* Another client publishes a list, or one of a send that failed is late.
ListPublished(u, list) ==
  /\ list \in PublishedList /\ list.at \in relayLists[u].at .. Room(u)
  /\ relayLists' = [relayLists EXCEPT ![u] = list]
  /\ unseen' = [unseen EXCEPT ![u] = TRUE]
  /\ UNCHANGED <<identity, contacts, intended, overtaken, ops, tails, loads, serviceClosed>>

\* A refresh brings the newest list, or first an older one that the store lacks too.
ListArrives(u, list) ==
  /\ \E w \in CommonWindows : u \in loads[w]
  /\ list = relayLists[u] \/ (unseen[u] /\ list.at < relayLists[u].at)
  /\ Stored(u, list)
  /\ intended' = [intended EXCEPT ![u] = contacts'[u].people]
  /\ overtaken' = [overtaken EXCEPT ![u] = @ \/ (contacts'[u] # contacts[u] /\ BeingChanged(u))]
  /\ unseen' = [unseen EXCEPT ![u] = contacts'[u] # relayLists[u]]
  /\ UNCHANGED <<identity, relayLists, ops, tails, loads, serviceClosed>>

-----------------------------------------------------------------------------
(***************************************************************************)
(* Acting.  A change of a list waits for the changes before it; the list   *)
(* is built, and its time chosen, when its turn has come and the identity  *)
(* is the one that asked.                                                  *)
(***************************************************************************)

SameIdentity(by) == identity = by

\* The time is past that of the list it is built on.
Changed(u, kind, person) ==
  [at : contacts[u].at + 1 .. Room(u) + 1,
   people : {IF kind = "follow" THEN contacts[u].people \cup {person}
             ELSE contacts[u].people \ {person}}]

Act(o, kind, person) ==
  LET u == identity.user
  IN  /\ ops[o].step = "idle" /\ ~serviceClosed /\ u # NobodyActive
      /\ kind # "note" => \A at \in UsedUp(u) : at < Room(u)
      /\ ops' = [ops EXCEPT ![o] = [step |-> IF kind = "note" THEN "signing" ELSE "queued",
           kind |-> kind, person |-> person, by |-> identity, list |-> EmptyList]]
      /\ tails' = IF kind = "note" THEN tails ELSE [tails EXCEPT ![u] = Append(@, o)]
      /\ UNCHANGED <<identity, world, loads, serviceClosed>>

\* Mutant: a change does not wait for the one before it.
IsNextAtOnce(o) == ops[o].step = "queued"

\* #serializeContact
IsNext(o) == ops[o].step = "queued" /\ Head(tails[ops[o].by.user]) = o

\* An operation is over; the change of a list is the first of its queue, and leaves it.
OpOver(o) ==
  LET u == ops[o].by.user
  IN  /\ ops' = [ops EXCEPT ![o] = NoOp]
      /\ tails' = IF ops[o].kind = "note" THEN tails ELSE [tails EXCEPT ![u] = Tail(@)]
      /\ overtaken' = IF ops[o].kind = "note" THEN overtaken ELSE [overtaken EXCEPT ![u] = FALSE]

Fails(o) ==
  /\ OpOver(o)
  /\ UNCHANGED <<contacts, relayLists>>
  /\ intended' = [u \in Users |-> IF overtaken[u] /\ ops[o].kind # "note" /\ u = ops[o].by.user
                                  THEN contacts[u].people ELSE intended[u]]

TurnComes(o) ==
  LET op == ops[o]
  IN  /\ IsNext(o)
      /\ IF SameIdentity(op.by)
         THEN /\ \E list \in Changed(op.by.user, op.kind, op.person) :
                   ops' = [ops EXCEPT ![o].step = "signing", ![o].list = list]
              /\ UNCHANGED <<contacts, relayLists, tails, intended, overtaken>>
         ELSE Fails(o)
      /\ UNCHANGED <<identity, unseen, loads, serviceClosed>>

SigningFails(o) ==
  /\ ops[o].step = "signing"
  /\ Fails(o)
  /\ UNCHANGED <<identity, unseen, loads, serviceClosed>>

\* The event is signed; it goes to the relays if the identity is still the same.
Signed(o) ==
  /\ ops[o].step = "signing"
  /\ IF SameIdentity(ops[o].by)
     THEN /\ ops' = [ops EXCEPT ![o].step = "sending"]
          /\ UNCHANGED <<contacts, relayLists, tails, intended, overtaken>>
     ELSE Fails(o)
  /\ UNCHANGED <<identity, unseen, loads, serviceClosed>>

\* A relay has the list that is being sent before the others have answered.
RelaysTake(o) ==
  /\ ops[o].step = "sending" /\ ops[o].kind \in Changes
  /\ Taken(ops[o].by.user, ops[o].list)
  /\ UNCHANGED <<identity, contacts, histories, ops, tails, loads, serviceClosed>>

\* A relay rejected it, or the identity changed.  Relays that have taken the list
\* keep it, though the napplet is told that the change failed.
SendingFails(o) ==
  LET op == ops[o]
      u == op.by.user
  IN  /\ op.step = "sending"
      /\ Fails(o)
      /\ unseen' = IF op.kind = "note" THEN unseen
                   ELSE [unseen EXCEPT ![u] = \/ @
                                              \/ relayLists[u] = op.list /\ contacts[u] # op.list]
      /\ UNCHANGED <<identity, loads, serviceClosed>>

Meant(op) == IF op.kind = "follow" THEN intended[op.by.user] \cup {op.person}
             ELSE intended[op.by.user] \ {op.person}

\* All relays accepted it: the list is the store's at once.
AllRelaysAccept(o) ==
  LET op == ops[o]
      u == op.by.user
  IN  /\ op.step = "sending" /\ SameIdentity(op.by)
      /\ IF op.kind = "note" THEN UNCHANGED <<contacts, relayLists, intended, unseen>>
         ELSE /\ Stored(u, op.list) /\ Taken(u, op.list)
              /\ unseen' = [unseen EXCEPT ![u] = /\ @ \/ overtaken[u]
                                                 /\ relayLists'[u] # contacts'[u]]
              /\ intended' = [intended EXCEPT ![u] = IF overtaken[u] THEN contacts'[u].people
                                                     ELSE Meant(op)]
      /\ OpOver(o)
      /\ UNCHANGED <<identity, loads, serviceClosed>>

-----------------------------------------------------------------------------
UserStep ==
  \/ \E u \in Users \cup {NobodyActive} : IdentityChanges(u)
  \/ \E w \in CommonWindows : CancelLoads(w)
  \/ CloseCommon

AskStep ==
  \/ \E w \in CommonWindows : AskFollows(w)
  \/ \E o \in Ops : \/ Act(o, "note", Somebody)
                    \/ \E kind \in Changes, person \in People : Act(o, kind, person)

RelayStep ==
  \/ \E w \in CommonWindows, u \in Users : LoadEnds(w, u)
  \/ \E u \in Users, list \in List : ListPublished(u, list) \/ ListArrives(u, list)
  \/ \E o \in Ops : RelaysTake(o)

OpGoesOn(o) == TurnComes(o) \/ Signed(o) \/ SigningFails(o) \/ AllRelaysAccept(o) \/ SendingFails(o)

CommonNext == UserStep \/ AskStep \/ RelayStep \/ \E o \in Ops : OpGoesOn(o)

\* Signer and relays are assumed to answer: a remote signer that does not holds up
\* every later change of the account's list.
CommonFairness == \A o \in Ops : WF_commonVars(OpGoesOn(o))

CommonSpec == CommonInit /\ [][CommonNext]_commonVars /\ CommonFairness

-----------------------------------------------------------------------------
(***************************************************************************)
(* Identities, lists, operations and loads have their types; the changes   *)
(* of a list that wait or run are those in its queue, each once.           *)
(***************************************************************************)
CommonTypeOK ==
  /\ identity \in Identity
  /\ {contacts, relayLists} \subseteq [Users -> List] /\ intended \in [Users -> SUBSET People]
  /\ serviceClosed \in BOOLEAN /\ {overtaken, unseen} \subseteq [Users -> BOOLEAN]
  /\ ops \in [Ops -> Op]
  /\ loads \in [CommonWindows -> SUBSET Users]
  /\ \A u \in Users :
       /\ tails[u] \in Seq(Ops)
       /\ \A o \in Ops :
            (\E n \in 1..Len(tails[u]) : tails[u][n] = o)
              <=> (ops[o].step # "idle" /\ ops[o].kind \in Changes /\ ops[o].by.user = u)

(***************************************************************************)
(* In the store, no follow or unfollow that was accepted is undone by      *)
(* another, however they overlap: the list is what they make of it one     *)
(* after the other, from the list that a refresh last brought, unless one  *)
(* came while a change was under way.                                      *)
(***************************************************************************)
FollowsAreKept == \A u \in Users : overtaken[u] \/ contacts[u].people = intended[u]

(***************************************************************************)
(* At the relays, the list of an account that nobody is changing is that   *)
(* of the store, so the next change is made to what is published, unless   *)
(* they have one the store was never given: from before the portal's       *)
(* start, of another client, or of a change whose sending failed.          *)
(***************************************************************************)
RelaysAgree ==
  \A u \in Users : BeingChanged(u) \/ unseen[u] \/ relayLists[u] = contacts[u]

(***************************************************************************)
(* The portal takes a person off the list the relays have only by an       *)
(* unfollow of that person.  It does not hold of a list the store was      *)
(* never given: #contacts builds on the store's, so a follow then          *)
(* publishes over it.                                                      *)
(***************************************************************************)
UnfollowsTakeOff ==
  [][\A u \in Users :
       unseen[u] \/ unseen'[u] \/ overtaken[u]
         \/ \A p \in relayLists[u].people \ relayLists'[u].people :
              \E o \in Ops : /\ ops[o].step = "sending" /\ ops[o].kind = "unfollow"
                             /\ ops[o].person = p /\ ops[o].by.user = u]_commonVars

(***************************************************************************)
(* What is published for a napplet is published for the identity that was  *)
(* active when it asked, and while it still is: an account that is left    *)
(* and taken up again is another identity.                                 *)
(***************************************************************************)
PublishedForTheAsker ==
  [][\A o \in Ops : ops[o].step = "signing" /\ ops'[o].step = "sending"
                     => ops[o].by = identity]_commonVars

(***************************************************************************)
(* A change waits for those before it, never for ever: one that fails or   *)
(* is refused lets the next have its turn.                                 *)
(***************************************************************************)
ChangesEnd ==
  CommonFairness => \A o \in Ops : ops[o].step # "idle" ~> ops[o].step = "idle"

(***************************************************************************)
(* What follows and unfollows make of the list in the store and of the one *)
(* the relays have, as far as the portal was given it, and for whom: the   *)
(* account that asked.                                                     *)
(***************************************************************************)
ChangesAreTheAskers ==
  [][FollowsAreKept' /\ RelaysAgree']_commonVars /\ UnfollowsTakeOff /\ PublishedForTheAsker
===============================================================================
