------------------------ MODULE MediaAuthority_proofs ------------------------
(***************************************************************************)
(* Proofs about MediaAuthority, for every set of accounts, tabs and ids.   *)
(***************************************************************************)
EXTENDS MediaAuthority, FiniteSetTheorems, SequenceTheorems,
        WellFoundedInduction, TLAPS

\* The type invariant, and that only finitely many sessions exist: the number
\* of affected sessions is a number.
TypeInv == TypeOK /\ IsFiniteSet(Known)

-------------------------------------------------------------------------------
(* The reducer's helpers return what they should.                            *)

\* An effect built by the helper has the type of an effect.
LEMMA TellType ==
  ASSUME NEW to \in Actors,
         NEW kind \in {"stop", "route", "result", "grant", "snapshot"},
         NEW k \in Keys, NEW g \in Nat, NEW o \in Actors \cup {NoActor},
         NEW t \in BOOLEAN
  PROVE  Tell(to, kind, k, g, o, t) \in Effect
BY DEF Tell, Effect

\* The stop command goes to an actor, if there is an owner to stop.
LEMMA StopOwnerType ==
  ASSUME TypeOK, NEW k \in Known, NEW g \in Nat
  PROVE  StopOwner(k, g) \subseteq Effect
<1>1. k \in Keys /\ sessions[k].owner \in Actors \cup {NoActor}
  BY DEF TypeOK, Session
<1>2. CASE sessions[k].owner = NoActor
  BY <1>2 DEF StopOwner
<1>3. CASE sessions[k].owner # NoActor
  <2>1. Tell(sessions[k].owner, "stop", k, g, NoActor, FALSE) \in Effect
    BY <1>1, <1>3, TellType
  <2> QED  BY <2>1, <1>3 DEF StopOwner
<1> QED  BY <1>2, <1>3

\* A broadcast consists of effects.
LEMMA BroadcastType ==
  ASSUME NEW k \in Keys, NEW s \in Session, NEW R \in SUBSET Actors
  PROVE  Broadcast(k, s, R) \subseteq Effect
<1>1. s.generation \in Nat /\ s.owner \in Actors \cup {NoActor}
      /\ s.terminal \in BOOLEAN
  BY DEF Session
<1>2. ASSUME NEW a \in R
      PROVE  Tell(a, "snapshot", k, s.generation, s.owner, s.terminal) \in Effect
  BY <1>1, TellType
<1> QED  BY <1>2 DEF Broadcast

\* terminal() and the ownerless copy of a session are sessions.
LEMMA EndedType ==
  ASSUME NEW s \in Session, NEW g \in Nat
  PROVE  Ended(s, g) \in Session /\ Revoked(s, g) \in Session
BY DEF Ended, Revoked, Session

\* Remembering a request yields a list of requests.
LEMMA RememberType ==
  ASSUME NEW q \in Seq(Request), NEW r \in Request
  PROVE  Remember(q, r) \in Seq(Request)
<1>1. CASE Len(q) < MaxRequests
  BY <1>1, AppendProperties DEF Remember
<1>2. CASE ~(Len(q) < MaxRequests)
  <2>1. q # <<>>
    BY <1>2, ConstantsAssumption, EmptySeq
  <2>2. Tail(q) \in Seq(Request)
    BY <2>1, HeadTailProperties
  <2> QED  BY <1>2, <2>2, AppendProperties DEF Remember
<1> QED  BY <1>1, <1>2

\* A non-empty set of naturals has a least element.
LEMMA LeastNatural ==
  ASSUME NEW T \in SUBSET Nat, T # {}
  PROVE  \E x \in T : \A y \in T : x <= y
<1> DEFINE R == {ss \in Nat \X Nat : ss[1] < ss[2]}
<1>1. IsWellFoundedOn(R, Nat)
  BY NatLessThanWellFounded DEF OpToRel
<1> HIDE DEF R
<1>2. PICK x \in T : \A y \in T : ~ (<<y, x>> \in R)
  BY <1>1, WFMin
<1>3. ASSUME NEW y \in T
      PROVE  x <= y
  <2>1. <<y, x>> \in Nat \X Nat
    OBVIOUS
  <2>2. ~ (<<y, x>>[1] < <<y, x>>[2])
    BY <1>2, <2>1 DEF R
  <2> QED  BY <2>1, <2>2
<1> QED  BY <1>3

\* The place of an affected session among the affected is a number from 1 to
\* their count.
LEMMA RankBounds ==
  ASSUME TypeInv, NEW A \in SUBSET Known, NEW k \in A
  PROVE  /\ IsFiniteSet(A)
         /\ Cardinality(A) \in Nat
         /\ Rank(A, k) \in 1..Cardinality(A)
<1> DEFINE B == {j \in A : sessions[j].born <= sessions[k].born}
<1>1. IsFiniteSet(A) /\ Cardinality(A) \in Nat
  BY FS_Subset, FS_CardinalityType DEF TypeInv
<1>2. IsFiniteSet(B) /\ Cardinality(B) <= Cardinality(A)
  BY <1>1, FS_Subset
<1>3. Cardinality(B) \in Nat
  BY <1>2, FS_CardinalityType
<1>4. k \in B
  <2>1. sessions[k].born \in Nat
    BY DEF TypeInv, TypeOK, Session
  <2> QED  BY <2>1
<1>5. Cardinality(B) # 0
  BY <1>2, <1>4, FS_EmptySet
<1> QED  BY <1>1, <1>2, <1>3, <1>5 DEF Rank

\* What a sweep stores for an affected session.
LEMMA SweptSessionType ==
  ASSUME TypeInv, NEW A \in SUBSET Known, NEW k \in A, NEW ends \in BOOLEAN
  PROVE  /\ SweptSession(A, ends, k) \in Session
         /\ SweptSession(A, ends, k).generation = nextGeneration + Rank(A, k)
         /\ SweptSession(A, ends, k).owner = NoActor
         /\ SweptSession(A, ends, k).terminal =
              IF ends THEN TRUE ELSE sessions[k].terminal
<1>1. nextGeneration + Rank(A, k) \in Nat
  <2>1. Cardinality(A) \in Nat /\ Rank(A, k) \in 1..Cardinality(A)
    BY RankBounds
  <2>2. nextGeneration \in Nat
    BY DEF TypeInv, TypeOK
  <2> QED  BY <2>1, <2>2
<1>2. sessions[k] \in Session
  BY DEF TypeInv, TypeOK
<1> QED  BY <1>1, <1>2, EndedType DEF SweptSession, Ended, Revoked, Session

\* The last affected session of an account exists if any does.
LEMMA LatestExists ==
  ASSUME TypeInv, NEW A \in SUBSET Known, NEW a, \E k \in A : k[1] = a
  PROVE  Latest(A, a) \in A /\ Latest(A, a)[1] = a
<1> DEFINE After(k) == {j \in A : sessions[j].born > sessions[k].born}
           Mine == {k \in A : k[1] = a}
           Counts == {Cardinality(After(k)) : k \in Mine}
<1>1. IsFiniteSet(A)
  BY FS_Subset DEF TypeInv
<1>2. \A k \in A : IsFiniteSet(After(k)) /\ Cardinality(After(k)) \in Nat
  BY <1>1, FS_Subset, FS_CardinalityType
<1>3. \A k \in A : sessions[k].born \in Nat
  BY DEF TypeInv, TypeOK, Session
<1>4. Counts \in SUBSET Nat /\ Counts # {}
  BY <1>2
<1>5. PICK c \in Counts : \A d \in Counts : c <= d
  <2> HIDE DEF Counts
  <2> QED  BY <1>4, LeastNatural
<1>6. PICK k \in Mine : c = Cardinality(After(k))
  BY <1>5
<1>7. ASSUME NEW j \in A, j[1] = a, ~(sessions[j].born <= sessions[k].born)
      PROVE  FALSE
  <2>1. sessions[j].born > sessions[k].born
    BY <1>3, <1>6, <1>7
  <2>2. After(j) \subseteq After(k) /\ j \in After(k) /\ j \notin After(j)
    BY <2>1, <1>3, <1>6
  <2>3. /\ Cardinality(After(j)) <= Cardinality(After(k))
        /\ Cardinality(After(k)) = Cardinality(After(j)) => After(k) = After(j)
    <3> HIDE DEF After
    <3>1. IsFiniteSet(After(k)) /\ After(j) \in SUBSET After(k)
      BY <1>2, <1>6, <2>2
    <3> QED  BY <3>1, FS_Subset
  <2>4. Cardinality(After(j)) \in Counts
    BY <1>7
  <2>5. c <= Cardinality(After(j))
    <3> HIDE DEF Counts, After
    <3> QED  BY <2>4, <1>5
  <2> HIDE DEF After, Counts
  <2>6. Cardinality(After(j)) \in Nat /\ Cardinality(After(k)) \in Nat
    BY <1>2, <1>6
  <2> QED  BY <2>2, <2>3, <2>5, <2>6, <1>6
<1>8. /\ k \in A
      /\ k[1] = a
      /\ \A j \in A : j[1] = a => sessions[j].born <= sessions[k].born
  BY <1>6, <1>7
<1> QED  BY <1>8 DEF Latest

\* A sweep leaves the known sessions and the types alone.
LEMMA SweepType ==
  ASSUME TypeInv, NEW A \in SUBSET Known, NEW ends \in BOOLEAN,
         NEW R \in [Accounts -> SUBSET Actors],
         Sweep(A, ends, R)
  PROVE  /\ DOMAIN sessions' = Known
         /\ sessions' \in [Known -> Session]
         /\ activeByAccount' \in [Accounts -> SessionIds \cup {NoSession}]
         /\ nextGeneration' \in Nat
         /\ effects' \subseteq Effect
<1> USE DEF TypeInv
<1>1. sessions' = [k \in Known |-> IF k \in A THEN SweptSession(A, ends, k)
                                              ELSE sessions[k]]
  BY DEF Sweep, SweptSessions
<1>2. sessions' \in [Known -> Session]
  BY <1>1, SweptSessionType DEF TypeOK
<1>3. Cardinality(A) \in Nat
  BY FS_Subset, FS_CardinalityType
<1>4. nextGeneration' \in Nat
  BY <1>3 DEF Sweep, TypeOK
<1>5. activeByAccount' \in [Accounts -> SessionIds \cup {NoSession}]
  <2>1. ASSUME NEW a \in Accounts, \E k \in A : k[1] = a
        PROVE  Latest(A, a)[2] \in SessionIds
    BY <2>1, LatestExists DEF TypeOK, Keys
  <2> QED  BY <2>1 DEF Sweep, SweptActive, TypeOK
<1>6. effects' \subseteq Effect
  <2>1. ASSUME NEW k \in A
        PROVE  StopOwner(k, SweptSession(A, ends, k).generation)
               \cup Broadcast(k, SweptSession(A, ends, k), R[k[1]])
               \subseteq Effect
    <3>1. k \in Keys /\ k[1] \in Accounts
      BY DEF TypeOK, Keys
    <3>2. SweptSession(A, ends, k) \in Session
      BY SweptSessionType
    <3>3. SweptSession(A, ends, k).generation \in Nat
      BY <3>2 DEF Session
    <3> QED  BY <3>1, <3>2, <3>3, StopOwnerType, BroadcastType
  <2> QED  BY <2>1 DEF Sweep, SweepEffects
<1> QED  BY <1>1, <1>2, <1>4, <1>5, <1>6

-------------------------------------------------------------------------------
(* Type correctness.                                                         *)

\* The listener sets a tab joins or leaves are sets of actors.
LEMMA ListeningType ==
  ASSUME TypeOK, NEW a \in Actors
  PROVE  /\ account # NoAccount => Listening(a) \in [Accounts -> SUBSET Actors]
         /\ Deaf(a) \in [Accounts -> SUBSET Actors]
BY DEF TypeOK, Listening, Deaf

\* An account's place in activeByAccount keeps its type.
LEMMA ActiveType ==
  ASSUME TypeOK, account # NoAccount, NEW id \in SessionIds \cup {NoSession}
  PROVE  [activeByAccount EXCEPT ![account] = id]
           \in [Accounts -> SessionIds \cup {NoSession}]
BY DEF TypeOK

\* Replacing one known session keeps the map typed, and finite.
LEMMA StoredType ==
  ASSUME TypeInv, NEW k \in Known, NEW s \in Session
  PROVE  /\ DOMAIN Stored(k, s) = Known
         /\ Stored(k, s) \in [Known -> Session]
         /\ Stored(k, s)[k] = s
         /\ \A j \in Known \ {k} : Stored(k, s)[j] = sessions[j]
BY DEF TypeInv, TypeOK, Stored

\* Delivering an effect keeps the type invariant.
LEMMA DispatchType ==
  TypeInv /\ Dispatch => TypeInv'
<1> SUFFICES ASSUME TypeInv, Dispatch  PROVE TypeInv'
  OBVIOUS
<1>1. ASSUME NEW e \in effects, DeliverSent(e)
      PROVE  TypeInv'
  <2>1. e.to \in Actors /\ e.generation \in Nat
    BY DEF TypeInv, TypeOK, Effect
  <2>2. enacting' \subseteq Actors /\ seen' \in [Actors -> Nat]
    BY <1>1, <2>1 DEF DeliverSent, Receives, history, TypeInv, TypeOK
  <2>3. effects' \subseteq Effect
    BY <1>1 DEF DeliverSent, TypeInv, TypeOK
  <2> QED
    BY <1>1, <2>2, <2>3
    DEF DeliverSent, TypeInv, TypeOK, authority, Known
<1>2. ASSUME NEW e \in effects, DeliverRefused(e)
      PROVE  TypeInv'
  <2>1. e.to \in Actors
    BY DEF TypeInv, TypeOK, Effect
  <2>2. failed' \in Seq(Actors)
    BY <1>2, <2>1, AppendProperties DEF DeliverRefused, TypeInv, TypeOK
  <2> QED
    BY <1>2, <2>2
    DEF DeliverRefused, TypeInv, TypeOK, authority, history, Known
<1>3. ASSUME NEW e \in effects, DeliverThrows(e)
      PROVE  TypeInv'
  <2>1. e.to \in Actors
    BY DEF TypeInv, TypeOK, Effect
  <2>2. Deaf(e.to) \in [Accounts -> SUBSET Actors]
    BY <2>1, ListeningType DEF TypeInv
  <2>3. queue' \in Seq([actor : Actors, recipients : [Accounts -> SUBSET Actors]])
    BY <1>3, <2>1, <2>2, AppendProperties DEF DeliverThrows, TypeInv, TypeOK
  <2> QED
    BY <1>3, <2>2, <2>3
    DEF DeliverThrows, TypeInv, TypeOK, authority, history, Known
<1>4. CASE RecoverFailed
  <2>1. Head(failed) \in Actors /\ Tail(failed) \in Seq(Actors)
    BY <1>4, HeadTailProperties DEF RecoverFailed, TypeInv, TypeOK
  <2>2. OwnedBy(Head(failed)) \in SUBSET Known
    BY DEF OwnedBy, Live
  <2>3. eligible \in [Accounts -> SUBSET Actors]
    BY DEF TypeInv, TypeOK
  <2>4. /\ DOMAIN sessions' = Known
        /\ sessions' \in [Known -> Session]
        /\ activeByAccount' \in [Accounts -> SessionIds \cup {NoSession}]
        /\ nextGeneration' \in Nat
        /\ effects' \subseteq Effect
    BY <1>4, <2>2, <2>3, SweepType DEF RecoverFailed
  <2> QED
    BY <1>4, <2>1, <2>4 DEF RecoverFailed, TypeInv, TypeOK, history, Known
<1>5. CASE RunQueued
  <2>1. /\ Head(queue) \in [actor : Actors, recipients : [Accounts -> SUBSET Actors]]
        /\ Tail(queue) \in Seq([actor : Actors, recipients : [Accounts -> SUBSET Actors]])
    BY <1>5, HeadTailProperties DEF RunQueued, TypeInv, TypeOK
  <2>2. OwnedBy(Head(queue).actor) \in SUBSET Known
    BY DEF OwnedBy, Live
  <2>3. Head(queue).recipients \in [Accounts -> SUBSET Actors]
    BY <2>1
  <2>4. /\ DOMAIN sessions' = Known
        /\ sessions' \in [Known -> Session]
        /\ activeByAccount' \in [Accounts -> SessionIds \cup {NoSession}]
        /\ nextGeneration' \in Nat
        /\ effects' \subseteq Effect
    BY <1>5, <2>2, <2>3, SweepType DEF RunQueued
  <2> QED
    BY <1>5, <2>1, <2>4 DEF RunQueued, TypeInv, TypeOK, history, Known
<1> QED  BY <1>1, <1>2, <1>3, <1>4, <1>5 DEF Dispatch

\* Creating a session keeps the type invariant.
LEMMA CreateType ==
  ASSUME TypeInv, NEW a \in Actors, NEW id \in SessionIds, NEW r \in RequestIds,
         NEW answers \in Answers, Create(a, id, r, answers)
  PROVE  TypeInv'
<1> DEFINE k == <<account, id>>
           prior == {j \in LiveOf(account) : j[2] = activeByAccount[account]}
           g == nextGeneration + Cardinality(prior) + 1
           s == [ born |-> g, generation |-> g, origin |-> a, owner |-> a,
                  status |-> "stopped", terminal |-> FALSE, requests |-> <<[id |-> r, generation |-> 0]>> ]
<1> DEFINE stops == UNION {StopOwner(j, nextGeneration + 1) : j \in prior}
           told == {Tell(a, kind, k, g, a, FALSE) : kind \in answers}
           news == Broadcast(k, s, eligible'[account])
<1>0. effects' = stops \cup told \cup news
  BY DEF Create
<1>1. account \in Accounts /\ k \in Keys
  BY DEF Create, Commands, TypeInv, TypeOK, Keys
<1>2. prior \in SUBSET Known
  BY DEF LiveOf, Live
<1>3. Cardinality(prior) \in Nat
  BY <1>2, FS_Subset, FS_CardinalityType DEF TypeInv
<1>4. g \in Nat /\ nextGeneration + 1 \in Nat
  BY <1>3 DEF TypeInv, TypeOK
<1>5. s \in Session
  <2>1. <<[id |-> r, generation |-> 0]>> \in Seq(Request)
    <3>1. [id |-> r, generation |-> 0] \in Request
      BY DEF Request
    <3> QED  BY <3>1
  <2> HIDE DEF g
  <2> QED  BY <1>4, <2>1 DEF Session
<1> HIDE DEF g, s, k, prior, stops, told, news
<1>6. /\ sessions' = [j \in Known \cup {k} |->
                        IF j = k THEN s
                        ELSE IF j \in prior
                             THEN Ended(sessions[j], nextGeneration + 1)
                             ELSE sessions[j]]
      /\ eligible' = Listening(a)
      /\ activeByAccount' = [activeByAccount EXCEPT ![account] = id]
      /\ nextGeneration' = g
      /\ Run
      /\ UNCHANGED <<account, destroyed, tab, history>>
  BY DEF Create, k, prior, g, s
<1>7. DOMAIN sessions' = Known \cup {k} /\ sessions' \in [Known \cup {k} -> Session]
  <2>1. \A j \in Known : sessions[j] \in Session
    BY DEF TypeInv, TypeOK
  <2>2. \A j \in Known : Ended(sessions[j], nextGeneration + 1) \in Session
    BY <2>1, <1>4, EndedType
  <2> QED  BY <1>5, <1>6, <2>1, <2>2
<1>8. IsFiniteSet(Known \cup {k}) /\ Known \cup {k} \subseteq Keys
  BY <1>1, FS_AddElement DEF TypeInv, TypeOK
<1>9. eligible' \in [Accounts -> SUBSET Actors]
  BY <1>1, <1>6, ListeningType DEF Create, Commands, TypeInv
<1>10. activeByAccount' \in [Accounts -> SessionIds \cup {NoSession}]
  BY <1>1, <1>6, ActiveType DEF Create, Commands, TypeInv
<1>11. effects' \subseteq Effect
  <2>1. \A j \in prior : StopOwner(j, nextGeneration + 1) \subseteq Effect
    BY <1>2, <1>4, StopOwnerType DEF TypeInv
  <2>2. ASSUME NEW kind \in answers
        PROVE  Tell(a, kind, k, g, a, FALSE) \in Effect
    <3>1. kind \in {"stop", "route", "result", "grant", "snapshot"}
      BY DEF Answers
    <3> QED  BY <1>1, <1>4, <3>1, TellType
  <2>3. Broadcast(k, s, eligible'[account]) \subseteq Effect
    BY <1>1, <1>5, <1>9, BroadcastType
  <2>4. stops \subseteq Effect /\ told \subseteq Effect /\ news \subseteq Effect
    BY <2>1, <2>2, <2>3 DEF stops, told, news
  <2> QED  BY <1>0, <2>4
<1> QED
  BY <1>4, <1>6, <1>7, <1>8, <1>9, <1>10, <1>11, EmptySeq
  DEF TypeInv, TypeOK, Run, history, Known

\* Replacing the account's session, with effects of the right type.
LEMMA CommitType ==
  ASSUME TypeInv, NEW k \in Known, NEW s \in Session, NEW active, NEW told,
         NEW a \in Actors, account # NoAccount,
         active \in [Accounts -> SessionIds \cup {NoSession}],
         told \subseteq Effect,
         nextGeneration' \in Nat,
         eligible' = Listening(a),
         Commit(k, s, active, told), Run,
         UNCHANGED <<account, destroyed, tab, history>>
  PROVE  TypeInv'
<1>1. eligible' \in [Accounts -> SUBSET Actors]
  BY ListeningType DEF TypeInv
<1>2. DOMAIN sessions' = Known /\ sessions' \in [Known -> Session]
  BY StoredType DEF Commit
<1> QED
  BY <1>1, <1>2, EmptySeq DEF TypeInv, TypeOK, Commit, Run, history, Known

\* Transfer and stop keep the type invariant.
LEMMA ReassignType ==
  ASSUME TypeInv, NEW a \in Actors, NEW k \in Known, NEW g \in Nat,
         NEW r \in RequestIds, Transfer(a, k, g, r) \/ Stop(a, k, g, r)
  PROVE  TypeInv'
<1>1. /\ account \in Accounts /\ account # NoAccount
      /\ k \in Keys /\ k[2] \in SessionIds
      /\ sessions[k] \in Session
      /\ nextGeneration \in Nat /\ nextGeneration + 1 \in Nat
  BY DEF Transfer, Stop, Commands, TypeInv, TypeOK, Keys
<1>2. eligible' = Listening(a) /\ eligible'[account] \in SUBSET Actors
  BY <1>1, ListeningType DEF Transfer, Stop, TypeInv
<1>3. ASSUME NEW o \in Actors \cup {NoActor}
      PROVE  /\ Reassigned(k, o, g, r) \in Session
             /\ Reassigned(k, o, g, r).generation = nextGeneration + 1
  <2>1. Remember(sessions[k].requests, [id |-> r, generation |-> g]) \in Seq(Request)
    BY <1>1, RememberType DEF Session, Request
  <2> QED  BY <1>1, <2>1 DEF Reassigned, Session
<1>4. [activeByAccount EXCEPT ![account] = k[2]]
        \in [Accounts -> SessionIds \cup {NoSession}]
  BY <1>1, ActiveType DEF TypeInv
<1>5. StopOwner(k, nextGeneration + 1) \subseteq Effect
  BY <1>1, StopOwnerType DEF TypeInv
<1>6. CASE Transfer(a, k, g, r)
  <2> DEFINE s == Reassigned(k, a, g, r)
             told == StopOwner(k, s.generation)
                     \cup {Tell(a, "grant", k, s.generation, a, FALSE)}
                     \cup Broadcast(k, s, eligible'[account])
  <2>1. s \in Session /\ s.generation = nextGeneration + 1
    BY <1>3
  <2>2. told \subseteq Effect
    <3>1. Tell(a, "grant", k, s.generation, a, FALSE) \in Effect
      BY <1>1, <2>1, TellType
    <3>2. Broadcast(k, s, eligible'[account]) \subseteq Effect
      BY <1>1, <1>2, <2>1, BroadcastType
    <3> QED  BY <1>5, <2>1, <3>1, <3>2
  <2>3. /\ nextGeneration' \in Nat
        /\ Commit(k, s, [activeByAccount EXCEPT ![account] = k[2]], told)
        /\ Run
        /\ UNCHANGED <<account, destroyed, tab, history>>
    BY <1>1, <1>6, <2>1 DEF Transfer
  <2> HIDE DEF s, told
  <2> QED  BY <1>1, <1>2, <1>4, <2>1, <2>2, <2>3, CommitType
<1>7. CASE Stop(a, k, g, r)
  <2> DEFINE s == Reassigned(k, NoActor, g, r)
             told == StopOwner(k, s.generation)
                     \cup Broadcast(k, s, eligible'[account])
  <2>1. s \in Session /\ s.generation = nextGeneration + 1
    BY <1>3
  <2>2. told \subseteq Effect
    <3>1. Broadcast(k, s, eligible'[account]) \subseteq Effect
      BY <1>1, <1>2, <2>1, BroadcastType
    <3> QED  BY <1>5, <2>1, <3>1
  <2>3. /\ nextGeneration' \in Nat
        /\ Commit(k, s, [activeByAccount EXCEPT ![account] = k[2]], told)
        /\ Run
        /\ UNCHANGED <<account, destroyed, tab, history>>
    BY <1>1, <1>7, <2>1 DEF Stop
  <2> HIDE DEF s, told
  <2> QED  BY <1>1, <1>2, <1>4, <2>1, <2>2, <2>3, CommitType
<1> QED  BY <1>6, <1>7

\* Destroying a session keeps the type invariant.
LEMMA DestroyType ==
  ASSUME TypeInv, NEW a \in Actors, NEW k \in Known, Destroy(a, k)
  PROVE  TypeInv'
<1> DEFINE s == Ended(sessions[k], nextGeneration + 1)
           active == [activeByAccount EXCEPT ![account] =
                        IF @ = k[2] THEN NoSession ELSE @]
           told == Broadcast(k, s, eligible'[account])
<1>1. /\ account \in Accounts /\ account # NoAccount
      /\ k \in Keys /\ sessions[k] \in Session
      /\ nextGeneration + 1 \in Nat
  BY DEF Destroy, Commands, TypeInv, TypeOK, Keys
<1>2. eligible' = Listening(a) /\ eligible'[account] \in SUBSET Actors
  BY <1>1, ListeningType DEF Destroy, TypeInv
<1>3. s \in Session /\ s.generation = nextGeneration + 1
  BY <1>1, EndedType DEF Ended, Session
<1>4. active \in [Accounts -> SessionIds \cup {NoSession}]
  BY <1>1 DEF TypeInv, TypeOK
<1>5. told \subseteq Effect
  BY <1>1, <1>2, <1>3, BroadcastType
<1>6. nextGeneration' \in Nat /\ Commit(k, s, active, told) /\ Run
      /\ UNCHANGED <<account, destroyed, tab, history>>
  BY <1>1, <1>3 DEF Destroy
<1> HIDE DEF s, active, told
<1> QED  BY <1>1, <1>2, <1>3, <1>4, <1>5, <1>6, CommitType

\* A report of the owner or the origin keeps the type invariant.
LEMMA ReportType ==
  ASSUME TypeInv, NEW a \in Actors, NEW k \in Known, NEW s \in Session,
         NEW told \in SUBSET Effect, Report(a, k, s, told)
  PROVE  TypeInv'
<1>1. account \in Accounts /\ account # NoAccount /\ k \in Keys /\ k[2] \in SessionIds
  BY DEF Report, Commands, TypeInv, TypeOK, Keys
<1>2. eligible' = Listening(a) /\ eligible'[account] \in SUBSET Actors
  BY <1>1, ListeningType DEF Report, TypeInv
<1>3. told \cup Broadcast(k, s, eligible'[account]) \subseteq Effect
  BY <1>1, <1>2, BroadcastType
<1>4. [activeByAccount EXCEPT ![account] = k[2]]
        \in [Accounts -> SessionIds \cup {NoSession}]
  BY <1>1, ActiveType DEF TypeInv
<1>5. /\ nextGeneration' \in Nat
      /\ Commit(k, s, [activeByAccount EXCEPT ![account] = k[2]],
                told \cup Broadcast(k, s, eligible'[account]))
      /\ Run
      /\ UNCHANGED <<account, destroyed, tab, history>>
  BY DEF Report, TypeInv, TypeOK
<1> QED  BY <1>1, <1>2, <1>3, <1>4, <1>5, CommitType

\* Every command of a tab keeps the type invariant.
LEMMA CommandType ==
  ASSUME TypeInv, NEW a \in Actors, Command(a)
  PROVE  TypeInv'
<1>1. ASSUME NEW id \in SessionIds, NEW r \in RequestIds, NEW answers \in Answers,
             Create(a, id, r, answers)
      PROVE  TypeInv'
  BY <1>1, CreateType
<1>2. ASSUME NEW k \in Live, NEW g \in 1..nextGeneration, NEW r \in RequestIds,
             Transfer(a, k, g, r) \/ Stop(a, k, g, r)
      PROVE  TypeInv'
  <2>1. k \in Known /\ g \in Nat
    BY DEF Live, TypeInv, TypeOK
  <2> QED  BY <1>2, <2>1, ReassignType
<1>3. ASSUME NEW k \in Live
      PROVE  k \in Known /\ k \in Keys /\ sessions[k] \in Session
  BY DEF Live, TypeInv, TypeOK
<1>4. ASSUME NEW k \in Live, Destroy(a, k)
      PROVE  TypeInv'
  BY <1>3, <1>4, DestroyType
<1>5. ASSUME NEW k \in Live, Update(a, k)
      PROVE  TypeInv'
  BY <1>3, <1>5, ReportType DEF Update
<1>6. ASSUME NEW k \in Live, NEW g \in 1..nextGeneration,
             NEW status \in {"stopped", "playing"}, ReportState(a, k, g, status)
      PROVE  TypeInv'
  <2>1. [sessions[k] EXCEPT !.status = status] \in Session
    BY <1>3 DEF Session
  <2> QED  BY <1>3, <1>6, <2>1, ReportType DEF ReportState
<1>7. ASSUME NEW k \in Live, NEW g \in 1..nextGeneration, ReportCapabilities(a, k, g)
      PROVE  TypeInv'
  BY <1>3, <1>7, ReportType DEF ReportCapabilities
<1>8. ASSUME NEW k \in Live, NEW g \in 1..nextGeneration, Route(a, k, g)
      PROVE  TypeInv'
  <2>1. {Tell(a, "route", k, g, NoActor, FALSE)} \in SUBSET Effect
    <3>1. g \in Nat
      BY DEF TypeInv, TypeOK
    <3> QED  BY <1>3, <3>1, TellType
  <2> QED  BY <1>3, <1>8, <2>1, ReportType DEF Route
<1>9. CASE Rejected(a)
  <2>1. eligible' \in [Accounts -> SUBSET Actors]
    BY <1>9, ListeningType DEF Rejected, Commands, TypeInv
  <2> QED
    BY <1>9, <2>1
    DEF Rejected, TypeInv, TypeOK, authority, dispatch, history, Known
<1> QED  BY <1>1, <1>2, <1>4, <1>5, <1>6, <1>7, <1>8, <1>9 DEF Command

\* Sockets and account changes keep the type invariant.
LEMMA LifecycleType ==
  ASSUME TypeInv, NEW a \in Actors, Lifecycle(a)
  PROVE  TypeInv'
<1>1. CASE Attach(a)
  <2>1. eligible' \in [Accounts -> SUBSET Actors]
    BY <1>1, ListeningType DEF Attach, TypeInv, TypeOK
  <2> QED
    BY <1>1, <2>1 DEF Attach, TypeInv, TypeOK, authority, dispatch, history, Known
<1>2. CASE Open(a)
  <2> DEFINE current == {k \in Known : account # NoAccount
                                       /\ k = <<account, activeByAccount[account]>>}
  <2>1. eligible' \in [Accounts -> SUBSET Actors]
    BY <1>2, ListeningType DEF Open, TypeInv, TypeOK
  <2>2. enacting' \subseteq Actors
    BY <1>2 DEF Open, TypeInv, TypeOK
  <2>3. \A k \in Known : sessions[k].generation \in Nat
    BY DEF TypeInv, TypeOK, Session
  <2>4. current # {} => (CHOOSE k \in current : TRUE) \in Known
    OBVIOUS
  <2>5. seen' = [seen EXCEPT ![a] =
                   IF current = {} THEN 0
                   ELSE sessions[CHOOSE k \in current : TRUE].generation]
    BY <1>2 DEF Open
  <2> HIDE DEF current
  <2>6. seen' \in [Actors -> Nat]
    BY <2>3, <2>4, <2>5 DEF TypeInv, TypeOK
  <2> QED
    BY <1>2, <2>1, <2>2, <2>6 DEF Open, TypeInv, TypeOK, authority, dispatch, Known
<1>3. CASE Detach(a)
  <2>1. OwnedBy(a) \in SUBSET Known
    BY DEF OwnedBy, Live
  <2>2. eligible' = Deaf(a) /\ Deaf(a) \in [Accounts -> SUBSET Actors]
    BY <1>3, ListeningType DEF Detach, TypeInv
  <2>3. Sweep(OwnedBy(a), FALSE, Deaf(a))
    BY <1>3, <2>2 DEF Detach
  <2>4. /\ DOMAIN sessions' = Known
        /\ sessions' \in [Known -> Session]
        /\ activeByAccount' \in [Accounts -> SessionIds \cup {NoSession}]
        /\ nextGeneration' \in Nat
        /\ effects' \subseteq Effect
    BY <2>1, <2>2, <2>3, SweepType
  <2>5. tab' \in [Actors -> {"unopened", "connecting", "open", "closed", "expired"}]
        /\ seen' \in [Actors -> Nat]
    BY <1>3 DEF Detach, TypeInv, TypeOK
  <2> QED
    BY <1>3, <2>2, <2>4, <2>5, EmptySeq DEF Detach, Run, TypeInv, TypeOK, Known
<1>4. CASE ExpireOrigin(a)
  <2>1. CreatedBy(a) \in SUBSET Known /\ eligible \in [Accounts -> SUBSET Actors]
    BY DEF CreatedBy, Live, TypeInv, TypeOK
  <2>2. /\ DOMAIN sessions' = Known
        /\ sessions' \in [Known -> Session]
        /\ activeByAccount' \in [Accounts -> SessionIds \cup {NoSession}]
        /\ nextGeneration' \in Nat
        /\ effects' \subseteq Effect
    BY <1>4, <2>1, SweepType DEF ExpireOrigin
  <2> QED
    BY <1>4, <2>2, EmptySeq
    DEF ExpireOrigin, Run, TypeInv, TypeOK, history, Known
<1> QED  BY <1>1, <1>2, <1>3, <1>4 DEF Lifecycle

\* Sign-in, sign-out and the end of the runtime keep the type invariant.
LEMMA AccountType ==
  ASSUME TypeInv, (\E acct \in Accounts : SignIn(acct)) \/ SignOut \/ Shutdown
  PROVE  TypeInv'
<1>1. ASSUME NEW acct \in Accounts \cup {NoAccount}, ChangeAccount(acct)
      PROVE  TypeInv'
  <2> DEFINE ended == IF account = NoAccount THEN {} ELSE LiveOf(account)
  <2>1. ended \in SUBSET Known /\ eligible \in [Accounts -> SUBSET Actors]
    BY DEF LiveOf, Live, TypeInv, TypeOK
  <2>2. Sweep(ended, TRUE, eligible)
    BY <1>1 DEF ChangeAccount
  <2> HIDE DEF ended
  <2>3. /\ DOMAIN sessions' = Known
        /\ sessions' \in [Known -> Session]
        /\ activeByAccount' \in [Accounts -> SessionIds \cup {NoSession}]
        /\ nextGeneration' \in Nat
        /\ effects' \subseteq Effect
    BY <2>1, <2>2, SweepType
  <2> QED
    BY <1>1, <2>3, EmptySeq DEF ChangeAccount, Run, TypeInv, TypeOK, Known
<1>2. CASE Shutdown
  <2>1. Live \in SUBSET Known /\ eligible \in [Accounts -> SUBSET Actors]
    BY DEF Live, TypeInv, TypeOK
  <2>2. /\ DOMAIN sessions' = Known
        /\ sessions' \in [Known -> Session]
        /\ activeByAccount' \in [Accounts -> SessionIds \cup {NoSession}]
        /\ nextGeneration' \in Nat
        /\ effects' \subseteq Effect
    BY <1>2, <2>1, SweepType DEF Shutdown
  <2> QED
    BY <1>2, <2>2, EmptySeq DEF Shutdown, Run, TypeInv, TypeOK, history, Known
<1> QED  BY <1>1, <1>2 DEF SignIn, SignOut

\* Every step keeps the type invariant.
LEMMA NextType == TypeInv /\ [Next]_vars => TypeInv'
<1> SUFFICES ASSUME TypeInv, [Next]_vars  PROVE TypeInv'
  OBVIOUS
<1>1. CASE UNCHANGED vars
  BY <1>1 DEF vars, authority, dispatch, history, TypeInv, TypeOK, Known
<1>2. CASE Next
  BY <1>2, DispatchType, CommandType, LifecycleType, AccountType DEF Next
<1> QED  BY <1>1, <1>2

\* The initial state has its types.
LEMMA InitType == Init => TypeInv
<1> SUFFICES ASSUME Init  PROVE TypeInv
  OBVIOUS
<1>1. Known = {} /\ sessions \in [Known -> Session]
  BY DEF Init, Known
<1>2. IsFiniteSet(Known)
  BY <1>1, FS_EmptySet
<1> QED  BY <1>1, <1>2, EmptySeq DEF Init, TypeInv, TypeOK

\* The variables of the coordinator always have their types.
THEOREM TypeCorrect == Spec => []TypeOK
<1>1. Init => TypeInv
  BY InitType
<1>2. TypeInv /\ [Next]_vars => TypeInv'
  BY NextType
<1>3. TypeInv => TypeOK
  BY DEF TypeInv
<1> QED  BY <1>1, <1>2, <1>3, PTL DEF Spec

-------------------------------------------------------------------------------
(* At most one session plays, its generation fences every change.            *)

\* OneLiveSession and OnlySignedInPlays need each other: a sweep that hits two
\* sessions of one account would name the wrong one as active.  Together they
\* leave at most one live session, so that a sweep hits none or the one.
SafeInv ==
  /\ TypeInv
  /\ OneRequestEach
  /\ OneLiveSession
  /\ OnlySignedInPlays
  /\ GenerationsAreDistinct
  /\ \A k \in Known : sessions[k].terminal => sessions[k].owner = NoActor

\* The live sessions are none or one.
LEMMA AtMostOneLive ==
  ASSUME SafeInv, NEW j \in Live, NEW k \in Live
  PROVE  j = k
<1>1. j \in Keys /\ k \in Keys
  BY DEF SafeInv, TypeInv, TypeOK, Live
<1>2. j[1] = k[1] /\ j[2] = k[2]
  BY DEF SafeInv, OneLiveSession, OnlySignedInPlays
<1> QED  BY <1>1, <1>2 DEF Keys

\* A set with one element has cardinality one.
LEMMA RankOfOne ==
  ASSUME SafeInv, NEW k \in Live
  PROVE  Cardinality({k}) = 1 /\ Rank({k}, k) = 1
<1>1. Cardinality({k}) = 1
  BY FS_Singleton
<1>2. sessions[k].born \in Nat
  BY DEF SafeInv, TypeInv, TypeOK, Session, Live
<1>3. {j \in {k} : sessions[j].born <= sessions[k].born} = {k}
  BY <1>2
<1> QED  BY <1>1, <1>3 DEF Rank

\* The requests of a session are each made against an ownership of its own, the
\* last of them against one that is gone.
InOrder(q, g) ==
  /\ \A m, n \in DOMAIN q : m < n => q[m].generation < q[n].generation
  /\ \A n \in DOMAIN q : q[n].generation < g

\* The generations of remembered requests are numbers.
LEMMA RequestGenerations ==
  ASSUME NEW q \in Seq(Request)
  PROVE  \A n \in DOMAIN q : q[n].generation \in Nat
<1>1. DOMAIN q = 1..Len(q)
  BY LenProperties
<1>2. ASSUME NEW n \in DOMAIN q
      PROVE  q[n].generation \in Nat
  <2>1. q[n] \in Request
    BY <1>1, ElementOfSeq
  <2> QED  BY <2>1 DEF Request
<1> QED  BY <1>2

\* The generation a step names is a number.
LEMMA TypedGenerations ==
  ASSUME TypeInv, NEW g \in 1..nextGeneration
  PROVE  g \in Nat
BY DEF TypeInv, TypeOK

\* One more request, made against the newest ownership, keeps them in order.
LEMMA RememberInOrder ==
  ASSUME NEW q \in Seq(Request), NEW r \in Request, NEW g \in Nat,
         InOrder(q, r.generation), r.generation < g
  PROVE  InOrder(Remember(q, r), g)
<1>1. \A n \in DOMAIN q : q[n].generation \in Nat
  BY RequestGenerations
<1>2. r.generation \in Nat
  BY DEF Request
<1>3. ASSUME NEW t \in Seq(Request), InOrder(t, r.generation)
      PROVE  InOrder(Append(t, r), g)
  <2> DEFINE a == Append(t, r)
  <2>1. /\ a \in Seq(Request) /\ Len(a) = Len(t) + 1 /\ Len(t) \in Nat
        /\ \A i \in 1..Len(t) : a[i] = t[i]
        /\ a[Len(t) + 1] = r
        /\ DOMAIN a = 1..(Len(t) + 1) /\ DOMAIN t = 1..Len(t)
    BY AppendProperties, LenProperties
  <2>2. \A i \in 1..Len(t) : t[i].generation \in Nat
    BY <1>3, <2>1, RequestGenerations
  <2> HIDE DEF a
  <2>3. \A n \in DOMAIN a : n \in 1..Len(t) \/ n = Len(t) + 1
    BY <2>1
  <2>4. \A n \in 1..Len(t) : a[n].generation < r.generation /\ a[n].generation \in Nat
    BY <1>3, <2>1, <2>2 DEF InOrder
  <2>5. \A n \in DOMAIN a : a[n].generation < g
    BY <1>2, <2>1, <2>3, <2>4
  <2>6. ASSUME NEW m \in DOMAIN a, NEW n \in DOMAIN a, m < n
        PROVE  a[m].generation < a[n].generation
    <3>1. m \in 1..Len(t)
      BY <2>1, <2>6
    <3>2. CASE n = Len(t) + 1
      BY <2>1, <2>4, <3>1, <3>2
    <3>3. CASE n \in 1..Len(t)
      BY <1>3, <2>1, <2>6, <3>1, <3>3 DEF InOrder
    <3> QED  BY <2>3, <3>2, <3>3
  <2> QED  BY <2>5, <2>6 DEF InOrder, a
<1>4. CASE Len(q) < MaxRequests
  BY <1>3, <1>4 DEF Remember
<1>5. CASE ~(Len(q) < MaxRequests)
  <2> DEFINE t == Tail(q)
  <2>1. q # <<>> /\ Len(q) \in Nat
    BY <1>5, ConstantsAssumption, EmptySeq, LenProperties
  <2>2. /\ t \in Seq(Request) /\ Len(t) = Len(q) - 1
        /\ \A i \in 1..Len(t) : t[i] = q[i + 1]
        /\ DOMAIN t = 1..Len(t) /\ DOMAIN q = 1..Len(q)
    BY <2>1, HeadTailProperties, LenProperties
  <2> HIDE DEF t
  <2>3. \A i \in DOMAIN t : i + 1 \in DOMAIN q /\ t[i] = q[i + 1]
    BY <2>1, <2>2
  <2>4. \A m, n \in DOMAIN t : m < n => m + 1 < n + 1
    BY <2>2
  <2>5. InOrder(t, r.generation)
    BY <2>3, <2>4 DEF InOrder
  <2>6. Remember(q, r) = Append(t, r)
    BY <1>5 DEF Remember, t
  <2> QED  BY <1>3, <2>2, <2>5, <2>6
<1> QED  BY <1>4, <1>5

\* A session after a step has the requests it had, or one more, made against the
\* ownership it had.
Carries(k, s) ==
  \/ s.requests = sessions[k].requests
  \/ /\ s.generation = nextGeneration + 1
     /\ \E r \in RequestIds :
          s.requests = Remember(sessions[k].requests,
                                [id |-> r, generation |-> sessions[k].generation])

\* The account's session is replaced: a newer generation, or the same one and
\* the same owner; still live, or terminal and no longer active.
Replaces(k, s) ==
  /\ sessions' = Stored(k, s)
  /\ s \in Session
  /\ Carries(k, s)
  /\ \/ s.generation = nextGeneration + 1 /\ nextGeneration' = nextGeneration + 1
     \/ /\ s.generation = sessions[k].generation
        /\ s.owner = sessions[k].owner
        /\ ~s.terminal
        /\ nextGeneration' = nextGeneration
  /\ \/ /\ ~s.terminal
        /\ activeByAccount' = [activeByAccount EXCEPT ![k[1]] = k[2]]
        /\ account' = account
     \/ /\ s.terminal
        /\ s.owner = NoActor
        /\ activeByAccount' = [activeByAccount EXCEPT ![k[1]] = NoSession]

\* Replacing the one live session keeps the invariant and is fenced.
LEMMA ReplaceSafe ==
  ASSUME SafeInv, TypeInv', NEW k \in Live, NEW s, Replaces(k, s)
  PROVE  SafeInv' /\ FencedStep
<1>1. /\ k \in Known /\ k \in Keys /\ k = <<k[1], k[2]>>
      /\ k[1] \in Accounts /\ k[2] \in SessionIds
      /\ nextGeneration \in Nat
      /\ ~sessions[k].terminal
  BY DEF SafeInv, TypeInv, TypeOK, Live, Keys
<1>2. /\ Known' = Known
      /\ sessions'[k] = s
      /\ \A j \in Known \ {k} : sessions'[j] = sessions[j]
  BY <1>1, StoredType DEF Replaces, SafeInv, Known
<1>3. \A j \in Known \ {k} : sessions[j].terminal
  BY AtMostOneLive DEF Live
<1>4. Live' = IF s.terminal THEN {} ELSE {k}
  BY <1>1, <1>2, <1>3 DEF Live
<1>5. \A j \in Known : sessions[j].generation \in 1..nextGeneration
  BY DEF SafeInv, GenerationsAreDistinct
<1>6. OneLiveSession'
  <2>1. \A acct \in Accounts \ {k[1]} : activeByAccount[acct] = NoSession
    <3>1. ASSUME NEW acct \in Accounts \ {k[1]}, activeByAccount[acct] # NoSession
          PROVE  FALSE
      <4>1. <<acct, activeByAccount[acct]>> \in Live
        BY <3>1 DEF SafeInv, OneLiveSession
      <4>2. <<acct, activeByAccount[acct]>> = k
        BY <4>1, AtMostOneLive
      <4> QED  BY <4>2
    <3> QED  BY <3>1
  <2>2. activeByAccount' = [activeByAccount EXCEPT ![k[1]] =
                              IF s.terminal THEN NoSession ELSE k[2]]
    BY DEF Replaces
  <2>3. \A acct \in Accounts : activeByAccount'[acct] =
          IF acct = k[1] /\ ~s.terminal THEN k[2] ELSE NoSession
    BY <1>1, <2>1, <2>2 DEF SafeInv, TypeInv, TypeOK
  <2> QED  BY <1>1, <1>4, <2>3 DEF OneLiveSession
<1>7. OnlySignedInPlays'
  <2>1. CASE s.terminal
    BY <1>4, <2>1 DEF OnlySignedInPlays
  <2>2. CASE ~s.terminal
    BY <1>4, <2>2 DEF OnlySignedInPlays, SafeInv, Replaces
  <2> QED  BY <2>1, <2>2
<1>8. GenerationsAreDistinct'
  <2>1. CASE s.generation = nextGeneration + 1 /\ nextGeneration' = nextGeneration + 1
    BY <1>1, <1>2, <1>5, <2>1 DEF SafeInv, GenerationsAreDistinct
  <2>2. CASE s.generation = sessions[k].generation /\ nextGeneration' = nextGeneration
    BY <1>1, <1>2, <1>5, <2>2 DEF SafeInv, GenerationsAreDistinct
  <2> QED  BY <2>1, <2>2 DEF Replaces
<1>9. \A j \in Known' : sessions'[j].terminal => sessions'[j].owner = NoActor
  BY <1>1, <1>2 DEF Replaces, SafeInv
<1>10. /\ s \in Session /\ sessions[k] \in Session
       /\ s.generation \in Nat /\ sessions[k].generation \in Nat
       /\ sessions[k].generation <= nextGeneration
       /\ s.generation = nextGeneration + 1 \/ s.generation = sessions[k].generation
  BY <1>1, <1>5 DEF Replaces, SafeInv, TypeInv, TypeOK, Session
<1>11. InOrder(sessions[k].requests, sessions[k].generation)
  BY <1>1 DEF SafeInv, OneRequestEach, InOrder
<1>12. InOrder(s.requests, s.generation)
  <2>1. CASE s.requests = sessions[k].requests
    <3>1. s.generation >= sessions[k].generation
      BY <1>1, <1>10
    <3>2. \A n \in DOMAIN s.requests : s.requests[n].generation \in Nat
      <4>1. s.requests \in Seq(Request)
        BY <1>10 DEF Session
      <4> QED  BY <4>1, RequestGenerations
    <3> QED  BY <1>10, <1>11, <2>1, <3>1, <3>2 DEF InOrder
  <2>2. ASSUME NEW r \in RequestIds, s.generation = nextGeneration + 1,
               s.requests = Remember(sessions[k].requests,
                                     [id |-> r, generation |-> sessions[k].generation])
        PROVE  InOrder(s.requests, s.generation)
    <3> DEFINE e == [id |-> r, generation |-> sessions[k].generation]
    <3>1. e \in Request /\ e.generation = sessions[k].generation
      BY <1>10 DEF Request
    <3>2. sessions[k].requests \in Seq(Request)
      BY <1>10 DEF Session
    <3>3. sessions[k].generation < s.generation
      BY <1>1, <1>10, <2>2
    <3> HIDE DEF e
    <3>4. InOrder(Remember(sessions[k].requests, e), s.generation)
      BY <1>10, <1>11, <3>1, <3>2, <3>3, RememberInOrder
    <3> QED  BY <2>2, <3>4 DEF e
  <2> QED  BY <2>1, <2>2 DEF Replaces, Carries
<1>13. OneRequestEach'
  <2>1. ASSUME NEW j \in Known'
        PROVE  InOrder(sessions'[j].requests, sessions'[j].generation)
    <3>1. CASE j = k
      BY <1>2, <1>12, <3>1
    <3>2. CASE j # k
      BY <1>2, <3>2 DEF SafeInv, OneRequestEach, InOrder
    <3> QED  BY <3>1, <3>2
  <2> QED  BY <2>1 DEF OneRequestEach, InOrder
<1>14. FencedStep
  <2>1. nextGeneration' >= nextGeneration
    BY <1>1 DEF Replaces
  <2>2. \/ s.owner # sessions[k].owner
        \/ s.terminal # sessions[k].terminal
        => s.generation > nextGeneration
    <3>1. CASE s.generation = nextGeneration + 1
      BY <1>1, <3>1
    <3>2. CASE ~s.terminal /\ s.owner = sessions[k].owner
      <4>1. s.terminal \in BOOLEAN /\ sessions[k].terminal \in BOOLEAN
        BY <1>10 DEF Session
      <4>2. s.terminal = sessions[k].terminal
        BY <1>1, <3>2, <4>1, Zenon
      <4> QED  BY <3>2, <4>2
    <3> QED  BY <3>1, <3>2 DEF Replaces
  <2>3. s.requests # sessions[k].requests
          => \E r \in RequestIds :
               s.requests = Remember(sessions[k].requests,
                                     [id |-> r, generation |-> sessions[k].generation])
    BY DEF Replaces, Carries
  <2> QED  BY <1>1, <1>2, <2>1, <2>2, <2>3 DEF FencedStep
<1> QED  BY <1>6, <1>7, <1>8, <1>9, <1>13, <1>14 DEF SafeInv

\* A step that leaves the reducer's state and the account alone.
LEMMA SameSafe ==
  ASSUME SafeInv, TypeInv', UNCHANGED authority, account' = account
  PROVE  SafeInv'
BY DEF authority, SafeInv, OneLiveSession, OnlySignedInPlays,
       GenerationsAreDistinct, OneRequestEach, Live, Known

\* A sweep over live sessions hits none or the one there is.
LEMMA SweepSafe ==
  ASSUME SafeInv, TypeInv', NEW A \in SUBSET Live, NEW ends \in BOOLEAN,
         NEW R \in [Accounts -> SUBSET Actors], Sweep(A, ends, R),
         \/ account' = account
         \/ ends = TRUE /\ A = Live
  PROVE  SafeInv' /\ [FencedStep]_authority
<1>1. CASE A = {}
  <2>1. Cardinality(A) = 0
    BY <1>1, FS_EmptySet
  <2>2. sessions' = sessions
    BY <1>1 DEF Sweep, SweptSessions, SafeInv, TypeInv, TypeOK
  <2>3. activeByAccount' = activeByAccount
    BY <1>1 DEF Sweep, SweptActive, SafeInv, TypeInv, TypeOK
  <2>4. nextGeneration' = nextGeneration
    BY <2>1 DEF Sweep, SafeInv, TypeInv, TypeOK
  <2>5. UNCHANGED authority
    BY <2>2, <2>3, <2>4 DEF authority
  <2>6. CASE account' = account
    BY <2>5, <2>6, SameSafe
  <2>7. CASE A = Live
    BY <1>1, <2>5, <2>7
    DEF authority, SafeInv, OneLiveSession, OnlySignedInPlays,
        GenerationsAreDistinct, OneRequestEach, Live, Known
  <2> QED  BY <2>5, <2>6, <2>7
<1>2. CASE A # {}
  <2>1. PICK k \in Live : A = {k}
    BY <1>2, AtMostOneLive
  <2>2. /\ k \in Known /\ k \in Keys /\ k = <<k[1], k[2]>>
        /\ k[1] \in Accounts /\ k[2] \in SessionIds
        /\ activeByAccount[k[1]] = k[2]
    BY DEF SafeInv, TypeInv, TypeOK, Live, Keys, OneLiveSession
  <2> DEFINE s == SweptSession(A, ends, k)
  <2>3. /\ s \in Session
        /\ s.generation = nextGeneration + 1
        /\ s.owner = NoActor
        /\ s.terminal = IF ends THEN TRUE ELSE sessions[k].terminal
    <3>1. TypeInv /\ A \in SUBSET Known /\ k \in A /\ Rank(A, k) = 1
      BY <2>1, <2>2, RankOfOne DEF SafeInv
    <3> QED  BY <3>1, SweptSessionType
  <2>4. sessions' = Stored(k, s)
    <3>1. Known \cup {k} = Known
      BY <2>2
    <3>2. sessions' = [j \in Known |-> IF j \in A THEN SweptSession(A, ends, j)
                                                  ELSE sessions[j]]
      BY DEF Sweep, SweptSessions
    <3> HIDE DEF s
    <3>3. \A j \in Known : (IF j \in A THEN SweptSession(A, ends, j) ELSE sessions[j])
                          = (IF j = k THEN s ELSE sessions[j])
      BY <2>1 DEF s
    <3> QED  BY <3>1, <3>2, <3>3 DEF Stored
  <2>5. nextGeneration' = nextGeneration + 1
    BY <2>1, RankOfOne DEF Sweep
  <2>8. Carries(k, s)
    <3>1. sessions[k] \in Session
      BY <2>2 DEF SafeInv, TypeInv, TypeOK
    <3>2. s.requests = sessions[k].requests
      BY <3>1 DEF SweptSession, Ended, Revoked, Session
    <3> QED  BY <3>2 DEF Carries
  <2>6. CASE ends = TRUE
    <3>1. activeByAccount' = [a \in Accounts |->
             IF <<a, activeByAccount[a]>> \in A THEN NoSession ELSE activeByAccount[a]]
      BY <2>6 DEF Sweep, SweptActive
    <3>2. \A a \in Accounts : <<a, activeByAccount[a]>> \in A <=> a = k[1]
      BY <2>1, <2>2
    <3>3. activeByAccount' = [activeByAccount EXCEPT ![k[1]] = NoSession]
      BY <3>1, <3>2 DEF SafeInv, TypeInv, TypeOK
    <3>4. s.terminal
      BY <2>3, <2>6
    <3> HIDE DEF s
    <3>5. Replaces(k, s)
      BY <2>3, <2>4, <2>5, <2>8, <3>3, <3>4 DEF Replaces
    <3> QED  BY <3>5, ReplaceSafe
  <2>7. CASE ends = FALSE
    <3>1. activeByAccount' = [a \in Accounts |->
             IF \E j \in A : j[1] = a THEN Latest(A, a)[2] ELSE activeByAccount[a]]
      BY <2>7 DEF Sweep, SweptActive
    <3>2. ASSUME NEW a \in Accounts, \E j \in A : j[1] = a
          PROVE  a = k[1] /\ Latest(A, a)[2] = k[2]
      <4>1. Latest(A, a) \in A
        BY <2>1, <2>2, <3>2, LatestExists DEF SafeInv
      <4> QED  BY <2>1, <3>2, <4>1
    <3>3. activeByAccount' = [activeByAccount EXCEPT ![k[1]] = k[2]]
      BY <2>1, <2>2, <3>1, <3>2 DEF SafeInv, TypeInv, TypeOK
    <3>4. ~s.terminal
      BY <2>3, <2>7 DEF Live
    <3> HIDE DEF s
    <3>5. Replaces(k, s)
      BY <2>3, <2>4, <2>5, <2>7, <2>8, <3>3, <3>4 DEF Replaces
    <3> QED  BY <3>5, ReplaceSafe
  <2> QED  BY <2>6, <2>7
<1> QED  BY <1>1, <1>2

\* A step that leaves the reducer's state and the account alone, fenced.
LEMMA SameFenced ==
  ASSUME SafeInv, TypeInv', UNCHANGED authority, account' = account
  PROVE  SafeInv' /\ [FencedStep]_authority
BY SameSafe

\* Deliveries, failures and nested detaches.
LEMMA DispatchSafe ==
  ASSUME SafeInv, Dispatch
  PROVE  SafeInv' /\ [FencedStep]_authority
<1>1. TypeInv'
  BY DispatchType DEF SafeInv
<1>2. CASE \E e \in effects : DeliverSent(e) \/ DeliverRefused(e) \/ DeliverThrows(e)
  <2>1. UNCHANGED authority /\ account' = account
    BY <1>2 DEF DeliverSent, DeliverRefused, DeliverThrows
  <2> QED  BY <1>1, <2>1, SameFenced
<1>3. ASSUME NEW a, OwnedBy(a) \in SUBSET Live => FALSE
      PROVE  FALSE
  BY <1>3 DEF OwnedBy
<1>4. CASE RecoverFailed
  <2>1. eligible \in [Accounts -> SUBSET Actors]
    BY DEF SafeInv, TypeInv, TypeOK
  <2>2. Sweep(OwnedBy(Head(failed)), FALSE, eligible) /\ account' = account
    BY <1>4 DEF RecoverFailed
  <2> QED  BY <1>1, <1>3, <2>1, <2>2, SweepSafe
<1>5. CASE RunQueued
  <2>1. Head(queue).recipients \in [Accounts -> SUBSET Actors]
    <3>1. queue \in Seq([actor : Actors, recipients : [Accounts -> SUBSET Actors]])
          /\ queue # <<>>
      BY <1>5 DEF RunQueued, SafeInv, TypeInv, TypeOK
    <3>2. Head(queue) \in [actor : Actors, recipients : [Accounts -> SUBSET Actors]]
      BY <3>1, HeadTailProperties
    <3> QED  BY <3>2
  <2>2. Sweep(OwnedBy(Head(queue).actor), FALSE, Head(queue).recipients)
        /\ account' = account
    BY <1>5 DEF RunQueued
  <2> QED  BY <1>1, <1>3, <2>1, <2>2, SweepSafe
<1> QED  BY <1>2, <1>4, <1>5 DEF Dispatch

\* Creating a session ends the one that plays.
LEMMA CreateSafe ==
  ASSUME SafeInv, NEW a \in Actors, NEW id \in SessionIds, NEW r \in RequestIds,
         NEW answers \in Answers, Create(a, id, r, answers)
  PROVE  SafeInv' /\ FencedStep
<1> DEFINE k == <<account, id>>
           prior == {j \in LiveOf(account) : j[2] = activeByAccount[account]}
           g == nextGeneration + Cardinality(prior) + 1
           s == [ born |-> g, generation |-> g, origin |-> a, owner |-> a,
                  status |-> "stopped", terminal |-> FALSE, requests |-> <<[id |-> r, generation |-> 0]>> ]
<1>1. TypeInv'
  BY CreateType DEF SafeInv
<1>2. /\ account \in Accounts /\ k \in Keys /\ k \notin Known
      /\ k[1] = account /\ k[2] = id
      /\ nextGeneration \in Nat
  BY DEF Create, Commands, SafeInv, TypeInv, TypeOK, Keys
<1>3. prior = Live
  BY DEF LiveOf, Live, SafeInv, OneLiveSession, OnlySignedInPlays
<1>4. /\ Cardinality(prior) \in Nat
      /\ g \in Nat /\ g > nextGeneration
      /\ prior # {} => g > nextGeneration + 1
  <2>1. IsFiniteSet(prior)
    BY <1>3, FS_Subset DEF SafeInv, TypeInv, Live
  <2>2. Cardinality(prior) \in Nat /\ (prior # {} => Cardinality(prior) # 0)
    BY <2>1, FS_CardinalityType, FS_EmptySet
  <2> HIDE DEF prior
  <2> QED  BY <1>2, <2>2
<1> HIDE DEF k, prior, g
<1>5. /\ sessions' = [j \in Known \cup {k} |->
                        IF j = k THEN s
                        ELSE IF j \in prior
                             THEN Ended(sessions[j], nextGeneration + 1)
                             ELSE sessions[j]]
      /\ activeByAccount' = [activeByAccount EXCEPT ![account] = id]
      /\ nextGeneration' = g
      /\ account' = account
  BY DEF Create, k, prior, g
<1>6. /\ Known' = Known \cup {k}
      /\ sessions'[k] = s
      /\ \A j \in Known : sessions'[j] = IF j \in Live
                           THEN Ended(sessions[j], nextGeneration + 1)
                           ELSE sessions[j]
  BY <1>2, <1>3, <1>5 DEF Known
<1>7. \A j \in Live : /\ sessions'[j].terminal = TRUE
                       /\ sessions'[j].owner = NoActor
                       /\ sessions'[j].generation = nextGeneration + 1
  <2>1. \A j \in Live : j \in Known /\ sessions[j] \in Session
    BY DEF Live, SafeInv, TypeInv, TypeOK
  <2>2. \A j \in Live : sessions'[j] = Ended(sessions[j], nextGeneration + 1)
    BY <1>6, <2>1
  <2> QED  BY <2>1, <2>2 DEF Ended, Session
<1>8. \A j \in Known \ Live : sessions'[j] = sessions[j] /\ sessions[j].terminal
  BY <1>6 DEF Live
<1>9. s.terminal = FALSE /\ s.generation = g
  OBVIOUS
<1> HIDE DEF s
<1>10. Live' = {k}
  <2>1. Live' = {j \in Known' : ~sessions'[j].terminal}
    BY DEF Live
  <2> QED  BY <1>6, <1>7, <1>8, <1>9, <2>1
<1>11. OneLiveSession'
  <2>1. \A acct \in Accounts \ {account} : activeByAccount[acct] = NoSession
    <3>1. ASSUME NEW acct \in Accounts \ {account}, activeByAccount[acct] # NoSession
          PROVE  FALSE
      <4>1. <<acct, activeByAccount[acct]>> \in Live
        BY <3>1 DEF SafeInv, OneLiveSession
      <4>2. <<acct, activeByAccount[acct]>>[1] = account
        BY <4>1 DEF SafeInv, OnlySignedInPlays
      <4> QED  BY <4>2
    <3> QED  BY <3>1
  <2>2. \A acct \in Accounts : activeByAccount'[acct] =
          IF acct = account THEN id ELSE NoSession
    BY <1>2, <1>5, <2>1 DEF SafeInv, TypeInv, TypeOK
  <2>3. <<account, id>> \in Live'
    BY <1>10 DEF k
  <2> QED  BY <1>2, <1>10, <2>2, <2>3 DEF OneLiveSession
<1>12. OnlySignedInPlays'
  BY <1>2, <1>5, <1>10 DEF OnlySignedInPlays
<1>13. GenerationsAreDistinct'
  <2>1. \A j \in Known : sessions[j].generation \in 1..nextGeneration
    BY DEF SafeInv, GenerationsAreDistinct
  <2>2. \A j \in Known' : sessions'[j].generation \in 1..nextGeneration'
    <3>1. ASSUME NEW j \in Known, j \in Live
          PROVE  sessions'[j].generation \in 1..g
      <4>1. prior # {}
        BY <1>3, <3>1
      <4> QED  BY <1>2, <1>4, <1>7, <3>1, <4>1
    <3>2. ASSUME NEW j \in Known, j \notin Live
          PROVE  sessions'[j].generation \in 1..g
      BY <1>2, <1>4, <1>8, <2>1, <3>2
    <3>3. sessions'[k].generation \in 1..g
      BY <1>2, <1>4, <1>6, <1>9
    <3> QED  BY <1>5, <1>6, <3>1, <3>2, <3>3
  <2>3. ASSUME NEW i \in Known', NEW j \in Known',
               sessions'[i].generation = sessions'[j].generation
        PROVE  i = j
    <3>1. \A h \in Known : sessions'[h].generation # g
      <4>1. \A h \in Live : g # nextGeneration + 1
        BY <1>2, <1>3, <1>4
      <4>2. \A h \in Known \ Live : sessions'[h].generation # g
        BY <1>2, <1>4, <1>8, <2>1
      <4> QED  BY <1>7, <4>1, <4>2 DEF Live
    <3>2. CASE i = k \/ j = k
      BY <1>6, <1>9, <2>3, <3>1, <3>2
    <3>3. CASE i \in Live /\ j \in Live
      BY <3>3, AtMostOneLive
    <3>4. CASE i \in Known \ Live /\ j \in Known \ Live
      BY <1>8, <2>3, <3>4 DEF SafeInv, GenerationsAreDistinct
    <3>5. \A h \in Live, n \in Known \ Live :
             sessions'[h].generation # sessions'[n].generation
      BY <1>2, <1>7, <1>8, <2>1
    <3> QED  BY <1>6, <2>3, <3>2, <3>3, <3>4, <3>5
  <2> QED  BY <2>2, <2>3 DEF GenerationsAreDistinct
<1>14. \A j \in Known' : sessions'[j].terminal => sessions'[j].owner = NoActor
  BY <1>6, <1>7, <1>8, <1>9 DEF SafeInv
<1>15. \A j \in Live : sessions'[j].requests = sessions[j].requests
  <2>1. \A j \in Live : j \in Known /\ sessions[j] \in Session
    BY DEF Live, SafeInv, TypeInv, TypeOK
  <2>2. \A j \in Live : sessions'[j] = Ended(sessions[j], nextGeneration + 1)
    BY <1>6, <2>1
  <2> QED  BY <2>1, <2>2 DEF Ended, Session
<1>16. FencedStep
  <2>1. nextGeneration' >= nextGeneration
    BY <1>2, <1>4, <1>5
  <2>2. ASSUME NEW j \in Known, j \in Live
        PROVE  ~sessions[j].terminal /\ sessions'[j].generation > nextGeneration
    BY <1>2, <1>7, <2>2 DEF Live
  <2>3. ASSUME NEW j \in Known, j \notin Live
        PROVE  sessions'[j] = sessions[j]
    BY <1>8, <2>3
  <2>4. ASSUME NEW j \in Known, j \in Live
        PROVE  sessions'[j].requests = sessions[j].requests
    BY <1>15, <2>4
  <2> QED  BY <2>1, <2>2, <2>3, <2>4 DEF FencedStep
<1>17. OneRequestEach'
  <2>1. ASSUME NEW j \in Known
        PROVE  InOrder(sessions[j].requests, sessions[j].generation)
    BY DEF SafeInv, OneRequestEach, InOrder
  <2>2. ASSUME NEW j \in Known'
        PROVE  InOrder(sessions'[j].requests, sessions'[j].generation)
    <3>1. CASE j = k
      <4>1. /\ DOMAIN s.requests = {1} /\ s.requests[1].generation = 0
            /\ s.generation = g /\ g > 0
        BY <1>2, <1>4 DEF s
      <4>2. InOrder(s.requests, s.generation)
        BY <4>1 DEF InOrder
      <4> QED  BY <1>6, <3>1, <4>2
    <3>2. CASE j \in Live
      <4>1. /\ sessions[j].generation \in Nat /\ sessions[j].generation <= nextGeneration
            /\ sessions[j].requests \in Seq(Request) /\ j \in Known
        BY <3>2 DEF SafeInv, GenerationsAreDistinct, TypeInv, TypeOK, Session, Live
      <4>2. \A n \in DOMAIN sessions[j].requests :
              sessions[j].requests[n].generation \in Nat
        BY <4>1, RequestGenerations
      <4>3. sessions'[j].generation = nextGeneration + 1
            /\ sessions'[j].requests = sessions[j].requests
        BY <1>7, <1>15, <3>2
      <4> QED  BY <1>2, <2>1, <4>1, <4>2, <4>3 DEF InOrder
    <3>3. CASE j \in Known \ Live
      BY <1>8, <2>1, <3>3
    <3> QED  BY <1>6, <3>1, <3>2, <3>3
  <2> QED  BY <2>2 DEF OneRequestEach, InOrder
<1> QED  BY <1>1, <1>11, <1>12, <1>13, <1>14, <1>16, <1>17 DEF SafeInv

\* Every other command replaces the account's live session.
LEMMA CommitSafe ==
  ASSUME SafeInv, TypeInv', NEW k \in Live, NEW s \in Session, NEW active, NEW told,
         Commit(k, s, active, told), Carries(k, s),
         k[1] = account, account' = account,
         \/ s.generation = nextGeneration + 1 /\ nextGeneration' = nextGeneration + 1
         \/ /\ s.generation = sessions[k].generation
            /\ s.owner = sessions[k].owner
            /\ ~s.terminal
            /\ nextGeneration' = nextGeneration,
         \/ ~s.terminal /\ active = [activeByAccount EXCEPT ![account] = k[2]]
         \/ s.terminal /\ s.owner = NoActor
            /\ active = [activeByAccount EXCEPT ![account] = NoSession]
  PROVE  SafeInv' /\ FencedStep
<1>1. Replaces(k, s)
  BY DEF Commit, Replaces
<1> QED  BY <1>1, ReplaceSafe

\* Every command of a tab.
LEMMA CommandSafe ==
  ASSUME SafeInv, NEW a \in Actors, Command(a)
  PROVE  SafeInv' /\ [FencedStep]_authority
<1>1. TypeInv /\ TypeInv'
  BY CommandType DEF SafeInv
<1>2. ASSUME NEW id \in SessionIds, NEW r \in RequestIds, NEW answers \in Answers,
             Create(a, id, r, answers)
      PROVE  SafeInv' /\ FencedStep
  BY <1>2, CreateSafe
<1>3. ASSUME NEW k \in Live
      PROVE  /\ k \in Known /\ sessions[k] \in Session /\ nextGeneration \in Nat
             /\ ~sessions[k].terminal
             /\ activeByAccount[k[1]] = k[2]
  BY DEF Live, SafeInv, TypeInv, TypeOK, OneLiveSession
<1>4. ASSUME NEW k \in Live, NEW g \in Nat, NEW r \in RequestIds, NEW o \in Actors \cup {NoActor}
      PROVE  /\ Reassigned(k, o, g, r) \in Session
             /\ Reassigned(k, o, g, r).generation = nextGeneration + 1
             /\ ~Reassigned(k, o, g, r).terminal
             /\ g = sessions[k].generation => Carries(k, Reassigned(k, o, g, r))
  <2>1. Remember(sessions[k].requests, [id |-> r, generation |-> g]) \in Seq(Request)
    BY <1>3, RememberType DEF Session, Request
  <2>2. /\ Reassigned(k, o, g, r) \in Session
        /\ Reassigned(k, o, g, r).generation = nextGeneration + 1
    <3>1. sessions[k] \in Session /\ nextGeneration + 1 \in Nat
      BY <1>3
    <3> QED  BY <2>1, <3>1 DEF Reassigned, Session
  <2>3. Reassigned(k, o, g, r).terminal = sessions[k].terminal
    BY <1>3 DEF Reassigned, Session
  <2>4. Reassigned(k, o, g, r).requests
          = Remember(sessions[k].requests, [id |-> r, generation |-> g])
    BY <1>3 DEF Reassigned, Session
  <2> QED  BY <1>3, <2>2, <2>3, <2>4 DEF Carries
<1>5. ASSUME NEW k \in Live, NEW g \in 1..nextGeneration, NEW r \in RequestIds,
             Transfer(a, k, g, r)
      PROVE  SafeInv' /\ FencedStep
  <2> DEFINE s == Reassigned(k, a, g, r)
  <2>0. g \in Nat /\ g = sessions[k].generation
    BY <1>5 DEF Transfer, Fenced
  <2>1. /\ s \in Session /\ s.generation = nextGeneration + 1 /\ ~s.terminal
        /\ Carries(k, s)
    BY <1>4, <2>0
  <2>2. PICK told : Commit(k, s, [activeByAccount EXCEPT ![account] = k[2]], told)
    BY <1>5 DEF Transfer
  <2>3. k[1] = account /\ account' = account /\ nextGeneration' = nextGeneration + 1
    BY <1>5, <2>1 DEF Transfer, Fenced
  <2> HIDE DEF s
  <2> QED  BY <1>1, <2>1, <2>2, <2>3, CommitSafe
<1>6. ASSUME NEW k \in Live, NEW g \in 1..nextGeneration, NEW r \in RequestIds,
             Stop(a, k, g, r)
      PROVE  SafeInv' /\ FencedStep
  <2> DEFINE s == Reassigned(k, NoActor, g, r)
  <2>0. g \in Nat /\ g = sessions[k].generation
    BY <1>6 DEF Stop, Fenced
  <2>1. /\ s \in Session /\ s.generation = nextGeneration + 1 /\ ~s.terminal
        /\ Carries(k, s)
    BY <1>4, <2>0
  <2>2. PICK told : Commit(k, s, [activeByAccount EXCEPT ![account] = k[2]], told)
    BY <1>6 DEF Stop
  <2>3. k[1] = account /\ account' = account /\ nextGeneration' = nextGeneration + 1
    BY <1>6, <2>1 DEF Stop, Fenced
  <2> HIDE DEF s
  <2> QED  BY <1>1, <2>1, <2>2, <2>3, CommitSafe
<1>7. ASSUME NEW k \in Live, Destroy(a, k)
      PROVE  SafeInv' /\ FencedStep
  <2> DEFINE s == Ended(sessions[k], nextGeneration + 1)
             active == [activeByAccount EXCEPT ![account] =
                          IF @ = k[2] THEN NoSession ELSE @]
  <2>1. /\ s \in Session /\ s.generation = nextGeneration + 1
        /\ s.terminal /\ s.owner = NoActor /\ Carries(k, s)
    <3>1. sessions[k] \in Session /\ nextGeneration + 1 \in Nat
      BY <1>3
    <3>2. s \in Session
      BY <3>1, EndedType
    <3>3. /\ s.generation = nextGeneration + 1 /\ s.terminal = TRUE /\ s.owner = NoActor
          /\ s.requests = sessions[k].requests
      BY <3>1 DEF Ended, Session
    <3> QED  BY <3>2, <3>3 DEF Carries
  <2>2. k[1] = account /\ account' = account /\ nextGeneration' = nextGeneration + 1
    BY <1>7, <2>1 DEF Destroy
  <2>3. active = [activeByAccount EXCEPT ![account] = NoSession]
    BY <1>3, <2>2
  <2>4. PICK told : Commit(k, s, active, told)
    BY <1>7 DEF Destroy
  <2> HIDE DEF s, active
  <2> QED  BY <1>1, <2>1, <2>2, <2>3, <2>4, CommitSafe
<1>8. ASSUME NEW k \in Live, NEW s \in Session, NEW told, Report(a, k, s, told),
             s.generation = sessions[k].generation, s.owner = sessions[k].owner,
             ~s.terminal, Carries(k, s)
      PROVE  SafeInv' /\ FencedStep
  <2>1. PICK all : Commit(k, s, [activeByAccount EXCEPT ![account] = k[2]], all)
    BY <1>8 DEF Report
  <2>2. k[1] = account /\ account' = account /\ nextGeneration' = nextGeneration
    BY <1>8 DEF Report
  <2> QED  BY <1>1, <1>8, <2>1, <2>2, CommitSafe
<1>9. ASSUME NEW k \in Live,
             Update(a, k) \/ \E g \in 1..nextGeneration :
                               ReportCapabilities(a, k, g) \/ Route(a, k, g)
      PROVE  SafeInv' /\ FencedStep
  <2>1. PICK told : Report(a, k, sessions[k], told)
    BY <1>9 DEF Update, ReportCapabilities, Route
  <2>2. Carries(k, sessions[k])
    BY DEF Carries
  <2> QED  BY <1>3, <1>8, <2>1, <2>2
<1>10. ASSUME NEW k \in Live, NEW g \in 1..nextGeneration,
              NEW status \in {"stopped", "playing"}, ReportState(a, k, g, status)
       PROVE  SafeInv' /\ FencedStep
  <2> DEFINE s == [sessions[k] EXCEPT !.status = status]
  <2>1. /\ s \in Session /\ s.generation = sessions[k].generation
        /\ s.owner = sessions[k].owner /\ ~s.terminal
        /\ s.requests = sessions[k].requests
    BY <1>3 DEF Session
  <2>2. Report(a, k, s, {})
    BY <1>10 DEF ReportState
  <2> HIDE DEF s
  <2> QED  BY <1>8, <2>1, <2>2 DEF Carries
<1>11. CASE Rejected(a)
  BY <1>1, <1>11, SameFenced DEF Rejected
<1> QED  BY <1>2, <1>5, <1>6, <1>7, <1>9, <1>10, <1>11 DEF Command

\* Sockets: a detach revokes, an expiry ends, at most one session.
LEMMA LifecycleSafe ==
  ASSUME SafeInv, NEW a \in Actors, Lifecycle(a)
  PROVE  SafeInv' /\ [FencedStep]_authority
<1>1. TypeInv'
  BY LifecycleType DEF SafeInv
<1>2. CASE Attach(a) \/ Open(a)
  <2>1. UNCHANGED authority /\ account' = account
    BY <1>2 DEF Attach, Open
  <2> QED  BY <1>1, <2>1, SameFenced
<1>3. CASE Detach(a)
  <2>1. Deaf(a) \in [Accounts -> SUBSET Actors] /\ OwnedBy(a) \in SUBSET Live
    BY ListeningType DEF SafeInv, TypeInv, OwnedBy
  <2>2. Sweep(OwnedBy(a), FALSE, Deaf(a)) /\ account' = account
    BY <1>3 DEF Detach
  <2> QED  BY <1>1, <2>1, <2>2, SweepSafe
<1>4. CASE ExpireOrigin(a)
  <2>1. eligible \in [Accounts -> SUBSET Actors] /\ CreatedBy(a) \in SUBSET Live
    BY DEF SafeInv, TypeInv, TypeOK, CreatedBy
  <2>2. Sweep(CreatedBy(a), TRUE, eligible) /\ account' = account
    BY <1>4 DEF ExpireOrigin
  <2> QED  BY <1>1, <2>1, <2>2, SweepSafe
<1> QED  BY <1>2, <1>3, <1>4 DEF Lifecycle

\* An account change ends the only live session, and so does the end of the
\* runtime.
LEMMA AccountSafe ==
  ASSUME SafeInv, (\E acct \in Accounts : SignIn(acct)) \/ SignOut \/ Shutdown
  PROVE  SafeInv' /\ [FencedStep]_authority
<1>1. TypeInv' /\ eligible \in [Accounts -> SUBSET Actors]
  BY AccountType DEF SafeInv, TypeInv, TypeOK
<1>2. ASSUME NEW acct, ChangeAccount(acct)
      PROVE  SafeInv' /\ [FencedStep]_authority
  <2> DEFINE ended == IF account = NoAccount THEN {} ELSE LiveOf(account)
  <2>1. ended = Live
    <3>1. CASE account = NoAccount
      <4>1. Live = {}
        BY <3>1, ConstantsAssumption
        DEF Live, SafeInv, TypeInv, TypeOK, OnlySignedInPlays, Keys
      <4> QED  BY <3>1, <4>1
    <3>2. CASE account # NoAccount
      BY <3>2 DEF LiveOf, SafeInv, OnlySignedInPlays
    <3> QED  BY <3>1, <3>2
  <2>2. Sweep(ended, TRUE, eligible)
    BY <1>2 DEF ChangeAccount
  <2> HIDE DEF ended
  <2> QED  BY <1>1, <2>1, <2>2, SweepSafe
<1>3. CASE Shutdown
  <2>1. Sweep(Live, TRUE, eligible)
    BY <1>3 DEF Shutdown
  <2> QED  BY <1>1, <2>1, SweepSafe
<1> QED  BY <1>2, <1>3 DEF SignIn, SignOut

\* Every step keeps the invariant and is fenced.
LEMMA NextSafe == SafeInv /\ [Next]_vars => SafeInv' /\ [FencedStep]_authority
<1> SUFFICES ASSUME SafeInv, [Next]_vars  PROVE SafeInv' /\ [FencedStep]_authority
  OBVIOUS
<1>1. CASE UNCHANGED vars
  <2>1. TypeInv'
    BY <1>1, NextType DEF SafeInv
  <2> QED  BY <1>1, <2>1, SameFenced DEF vars
<1>2. CASE Next
  BY <1>2, DispatchSafe, CommandSafe, LifecycleSafe, AccountSafe DEF Next
<1> QED  BY <1>1, <1>2

\* Nothing plays at the start.
LEMMA InitSafe == Init => SafeInv
<1> SUFFICES ASSUME Init  PROVE SafeInv
  OBVIOUS
<1>1. Known = {}
  BY DEF Init, Known
<1> QED
  BY <1>1, InitType
  DEF Init, SafeInv, OneLiveSession, OnlySignedInPlays, GenerationsAreDistinct, OneRequestEach,
      Live

\* An account never has two sessions that play, activeByAccount names the one
\* it has, only the signed-in account has one, and no two sessions ever share a
\* generation.
THEOREM OneSessionPlays ==
  Spec => [](OneLiveSession /\ OnlySignedInPlays /\ GenerationsAreDistinct)
<1>1. Init => SafeInv
  BY InitSafe
<1>2. SafeInv /\ [Next]_vars => SafeInv'
  BY NextSafe
<1>3. SafeInv => OneLiveSession /\ OnlySignedInPlays /\ GenerationsAreDistinct
  BY DEF SafeInv
<1> QED  BY <1>1, <1>2, <1>3, PTL DEF Spec

\* No change of ownership and no end of a session goes without a new generation;
\* what has ended stays as it is; a transfer or stop that is carried out was made
\* against the ownership it replaces; and of those made against one ownership at
\* most one is carried out, however few request ids a session remembers.
THEOREM GenerationsFence == Spec => GenerationFence
<1>1. Init => SafeInv
  BY InitSafe
<1>2. SafeInv /\ [Next]_vars => SafeInv'
  BY NextSafe
<1>3. SafeInv' => OneRequestEach'
  BY DEF SafeInv
<1>4. SafeInv /\ [Next]_vars => [FencedStep /\ OneRequestEach']_authority
  BY <1>2, <1>3, NextSafe
<1> QED  BY <1>1, <1>2, <1>4, PTL DEF Spec, GenerationFence

\* No session of an account that is not signed in is ever still playing: a
\* sign-out and an account change leave none behind (change-account in the
\* reducer, called by PortalRuntime before the account is replaced).
THEOREM OnlySignedInEverPlays == Spec => []OnlySignedInPlays
<1>1. Init => SafeInv
  BY InitSafe
<1>2. SafeInv /\ [Next]_vars => SafeInv'
  BY NextSafe
<1>3. SafeInv => OnlySignedInPlays
  BY DEF SafeInv
<1> QED  BY <1>1, <1>2, <1>3, PTL DEF Spec

-------------------------------------------------------------------------------
(* Ownership: taken by a tab that is there, and lost with it.                *)

\* A sweep over live sessions hits none, or the one there is: its owner is
\* stopped, and the recipients are told.
SweptOne(k, A, ends, R) ==
  /\ A = {k} /\ Live = {k}
  /\ Known' = Known
  /\ \A j \in Known \ {k} : sessions'[j] = sessions[j]
  /\ sessions'[k].owner = NoActor
  /\ sessions'[k].origin = sessions[k].origin
  /\ sessions'[k].terminal = ends
  /\ sessions'[k].generation = nextGeneration + 1
  /\ Live' = IF ends THEN {} ELSE {k}
  /\ effects' = StopOwner(k, nextGeneration + 1)
                \cup Broadcast(k, sessions'[k], R[k[1]])

LEMMA SweepHits ==
  ASSUME SafeInv, NEW A \in SUBSET Live, NEW ends \in BOOLEAN,
         NEW R \in [Accounts -> SUBSET Actors], Sweep(A, ends, R)
  PROVE  \/ A = {} /\ sessions' = sessions /\ effects' = {}
         \/ \E k \in Live : SweptOne(k, A, ends, R)
<1>1. CASE A = {}
  <2>1. sessions' = sessions
    BY <1>1 DEF Sweep, SweptSessions, SafeInv, TypeInv, TypeOK
  <2>2. effects' = {}
    BY <1>1 DEF Sweep, SweepEffects
  <2> QED  BY <1>1, <2>1, <2>2
<1>2. CASE A # {}
  <2>1. PICK k \in Live : A = {k} /\ Live = {k}
    BY <1>2, AtMostOneLive
  <2>2. k \in Known /\ sessions[k] \in Session /\ ~sessions[k].terminal
    BY DEF SafeInv, TypeInv, TypeOK, Live
  <2> DEFINE s == SweptSession(A, ends, k)
  <2>3. Rank(A, k) = 1
    BY <2>1, RankOfOne
  <2>4. s.generation = nextGeneration + 1 /\ s.owner = NoActor /\ s.terminal = ends
    <3>1. TypeInv /\ A \in SUBSET Known /\ k \in A
      BY <2>1, <2>2 DEF SafeInv
    <3>2. s.terminal = IF ends THEN TRUE ELSE sessions[k].terminal
      BY <3>1, SweptSessionType
    <3>3. sessions[k].terminal = FALSE
      BY <2>2 DEF Session
    <3> QED  BY <2>3, <3>1, <3>2, <3>3, SweptSessionType
  <2>5. s.origin = sessions[k].origin
    BY <2>2 DEF SweptSession, Ended, Revoked, Session
  <2>6. /\ sessions' = [j \in Known |-> IF j \in A THEN SweptSession(A, ends, j)
                                                   ELSE sessions[j]]
        /\ effects' = SweepEffects(A, ends, R)
    BY DEF Sweep, SweptSessions
  <2>7. /\ Known' = Known
        /\ \A j \in Known \ {k} : sessions'[j] = sessions[j]
        /\ sessions'[k] = s
    BY <2>1, <2>2, <2>6 DEF Known
  <2>8. effects' = StopOwner(k, s.generation) \cup Broadcast(k, s, R[k[1]])
    BY <2>1, <2>6 DEF SweepEffects
  <2> HIDE DEF s
  <2>9. Live' = IF ends THEN {} ELSE {k}
    <3>1. Live' = {j \in Known' : ~sessions'[j].terminal}
      BY DEF Live
    <3>2. \A j \in Known \ {k} : sessions[j].terminal
      BY <2>1 DEF Live
    <3> QED  BY <2>2, <2>4, <2>7, <3>1, <3>2
  <2> QED  BY <2>1, <2>4, <2>5, <2>7, <2>8, <2>9 DEF SweptOne
<1> QED  BY <1>1, <1>2

\* A command on the session that plays replaces that session and no other.
LEMMA CommitHits ==
  ASSUME SafeInv, NEW k \in Live, NEW s \in Session, NEW active, NEW told,
         Commit(k, s, active, told)
  PROVE  /\ k \in Known /\ Live = {k}
         /\ Known' = Known
         /\ \A j \in Known \ {k} : sessions'[j] = sessions[j]
         /\ sessions'[k] = s
         /\ Live' = IF s.terminal THEN {} ELSE {k}
         /\ effects' = told
<1>1. k \in Known /\ Live = {k}
  BY AtMostOneLive DEF Live
<1>2. /\ Known' = Known
      /\ sessions'[k] = s
      /\ \A j \in Known \ {k} : sessions'[j] = sessions[j]
  BY <1>1, StoredType DEF Commit, SafeInv, Known
<1>3. \A j \in Known \ {k} : sessions[j].terminal
  BY <1>1 DEF Live
<1>4. Live' = IF s.terminal THEN {} ELSE {k}
  BY <1>1, <1>2, <1>3 DEF Live
<1> QED  BY <1>1, <1>2, <1>4 DEF Commit

\* Creating a session ends the one that plays, and tells its owner first.
CreatedAs(k, a, g, answers) ==
  /\ k \in Keys \ Known
  /\ Live # {} => g > nextGeneration + 1
  /\ Known' = Known \cup {k}
  /\ \A j \in Live : /\ sessions'[j].owner = NoActor
                     /\ sessions'[j].origin = sessions[j].origin
  /\ \A j \in Known \ Live : sessions'[j] = sessions[j]
  /\ sessions'[k].owner = a
  /\ sessions'[k].origin = a
  /\ sessions'[k].terminal = FALSE
  /\ sessions'[k].generation = g
  /\ Live' = {k}
  /\ effects' = (UNION {StopOwner(j, nextGeneration + 1) : j \in Live})
                \cup {Tell(a, kind, k, g, a, FALSE) : kind \in answers}
                \cup Broadcast(k, sessions'[k], eligible'[account])

LEMMA CreateHits ==
  ASSUME SafeInv, NEW a \in Actors, NEW id \in SessionIds, NEW r \in RequestIds,
         NEW answers \in Answers, Create(a, id, r, answers)
  PROVE  \E g \in Nat : CreatedAs(<<account, id>>, a, g, answers)
<1> DEFINE k == <<account, id>>
           prior == {j \in LiveOf(account) : j[2] = activeByAccount[account]}
           g == nextGeneration + Cardinality(prior) + 1
           s == [ born |-> g, generation |-> g, origin |-> a, owner |-> a,
                  status |-> "stopped", terminal |-> FALSE, requests |-> <<[id |-> r, generation |-> 0]>> ]
<1>1. prior = Live
  BY DEF LiveOf, Live, SafeInv, OneLiveSession, OnlySignedInPlays
<1>2. g \in Nat /\ (Live # {} => g > nextGeneration + 1)
  <2>1. IsFiniteSet(prior)
    BY <1>1, FS_Subset DEF SafeInv, TypeInv, Live
  <2>2. Cardinality(prior) \in Nat /\ (prior # {} => Cardinality(prior) # 0)
    BY <2>1, FS_CardinalityType, FS_EmptySet
  <2>3. nextGeneration \in Nat
    BY DEF SafeInv, TypeInv, TypeOK
  <2> HIDE DEF prior
  <2> QED  BY <1>1, <2>2, <2>3
<1>3. /\ k \in Keys \ Known
      /\ sessions' = [j \in Known \cup {k} |->
                        IF j = k THEN s
                        ELSE IF j \in prior
                             THEN Ended(sessions[j], nextGeneration + 1)
                             ELSE sessions[j]]
      /\ effects' = (UNION {StopOwner(j, nextGeneration + 1) : j \in prior})
                    \cup {Tell(a, kind, k, g, a, FALSE) : kind \in answers}
                    \cup Broadcast(k, s, eligible'[account])
  BY DEF Create, Commands, SafeInv, TypeInv, TypeOK, Keys
<1>4. s.owner = a /\ s.origin = a /\ s.terminal = FALSE /\ s.generation = g
  OBVIOUS
<1> HIDE DEF k, prior, g, s
<1>5. /\ Known' = Known \cup {k}
      /\ sessions'[k] = s
      /\ \A j \in Live : sessions'[j] = Ended(sessions[j], nextGeneration + 1)
      /\ \A j \in Known \ Live : sessions'[j] = sessions[j]
  BY <1>1, <1>3 DEF Known, Live
<1>6. \A j \in Live : /\ sessions'[j].owner = NoActor
                      /\ sessions'[j].origin = sessions[j].origin
                      /\ sessions'[j].terminal = TRUE
  <2>1. \A j \in Live : sessions[j] \in Session
    BY DEF Live, SafeInv, TypeInv, TypeOK
  <2> QED  BY <1>5, <2>1 DEF Ended, Session
<1>7. Live' = {k}
  <2>1. Live' = {j \in Known' : ~sessions'[j].terminal}
    BY DEF Live
  <2>2. \A j \in Known \ Live : sessions[j].terminal
    BY DEF Live
  <2> QED  BY <1>4, <1>5, <1>6, <2>1, <2>2
<1> QED  BY <1>1, <1>2, <1>3, <1>4, <1>5, <1>6, <1>7 DEF k, CreatedAs

\* What a step does to the ownership of a session: it stays, it is lost, or a
\* tab that is there and listens takes it, and is answered.
Taken(k, a) ==
  /\ sessions'[k].owner = a
  /\ sessions'[k].origin = IF k \in Known THEN sessions[k].origin ELSE a
  /\ tab[a] = "open" /\ tab' = tab
  /\ a \in eligible'[k[1]]
  /\ \E e \in effects' : e.to = a /\ e.key = k /\ e.kind \in {"grant", "result"}

KeptOrLost(k) ==
  /\ k \in Known
  /\ sessions'[k].origin = sessions[k].origin
  /\ sessions'[k].owner \in {sessions[k].owner, NoActor}

OwnersMove ==
  /\ Known \subseteq Known'
  /\ \A k \in Known' : KeptOrLost(k) \/ \E a \in Actors : Taken(k, a)

\* A step that leaves the sessions alone moves no owner.
LEMMA SameOwners ==
  ASSUME sessions' = sessions
  PROVE  OwnersMove
BY DEF OwnersMove, KeptOrLost, Known

\* A sweep only takes ownership away.
LEMMA SweepMoves ==
  ASSUME SafeInv, NEW A \in SUBSET Live, NEW ends \in BOOLEAN,
         NEW R \in [Accounts -> SUBSET Actors], Sweep(A, ends, R)
  PROVE  OwnersMove
<1>1. CASE sessions' = sessions
  BY <1>1, SameOwners
<1>2. CASE sessions' # sessions
  <2>1. PICK k \in Live : SweptOne(k, A, ends, R)
    BY <1>2, SweepHits
  <2> QED  BY <2>1 DEF OwnersMove, KeptOrLost, SweptOne
<1> QED  BY <1>1, <1>2

\* A command that does not hand the session to its sender takes nothing.
LEMMA CommitMoves ==
  ASSUME SafeInv, NEW k \in Live, NEW s \in Session, NEW active, NEW told,
         Commit(k, s, active, told),
         s.origin = sessions[k].origin,
         s.owner \in {sessions[k].owner, NoActor}
  PROVE  OwnersMove
<1>1. /\ k \in Known
      /\ Known' = Known
      /\ \A j \in Known \ {k} : sessions'[j] = sessions[j]
      /\ sessions'[k] = s
  BY CommitHits
<1> QED  BY <1>1 DEF OwnersMove, KeptOrLost

\* Session s of key k given to owner o.
GivenTo(s, k, o) ==
  /\ s \in Session
  /\ s.generation = nextGeneration + 1
  /\ s.owner = o
  /\ s.origin = sessions[k].origin
  /\ s.terminal = FALSE

\* The session a transfer or a stop leaves.
LEMMA ReassignedFields ==
  ASSUME SafeInv, NEW k \in Live, NEW o \in Actors \cup {NoActor},
         NEW g \in 1..nextGeneration, NEW r \in RequestIds
  PROVE  GivenTo(Reassigned(k, o, g, r), k, o)
<1>1. sessions[k] \in Session /\ sessions[k].terminal = FALSE
  <2>1. sessions[k] \in Session /\ ~sessions[k].terminal
    BY DEF Live, SafeInv, TypeInv, TypeOK
  <2> QED  BY <2>1 DEF Session
<1>2. nextGeneration + 1 \in Nat
  BY DEF SafeInv, TypeInv, TypeOK
<1>3. Remember(sessions[k].requests, [id |-> r, generation |-> g]) \in Seq(Request)
  <2>1. g \in Nat
    BY TypedGenerations DEF SafeInv
  <2> QED  BY <1>1, <2>1, RememberType DEF Session, Request
<1> HIDE DEF Remember
<1> QED  BY <1>1, <1>2, <1>3 DEF Reassigned, Session, GivenTo

\* The session that terminal() leaves.
LEMMA EndedFields ==
  ASSUME SafeInv, NEW k \in Live
  PROVE  /\ Ended(sessions[k], nextGeneration + 1) \in Session
         /\ Ended(sessions[k], nextGeneration + 1).generation = nextGeneration + 1
         /\ Ended(sessions[k], nextGeneration + 1).owner = NoActor
         /\ Ended(sessions[k], nextGeneration + 1).origin = sessions[k].origin
         /\ Ended(sessions[k], nextGeneration + 1).terminal = TRUE
<1>1. sessions[k] \in Session /\ nextGeneration + 1 \in Nat
  BY DEF Live, SafeInv, TypeInv, TypeOK
<1> QED  BY <1>1, EndedType DEF Ended, Session

\* A report of the owner keeps origin, owner and generation.
LEMMA StatusFields ==
  ASSUME SafeInv, NEW k \in Live, NEW status \in {"stopped", "playing"}
  PROVE  LET s == [sessions[k] EXCEPT !.status = status]
         IN  /\ s \in Session
             /\ s.generation = sessions[k].generation
             /\ s.owner = sessions[k].owner
             /\ s.origin = sessions[k].origin
             /\ s.terminal = FALSE
<1>1. sessions[k] \in Session /\ sessions[k].terminal = FALSE
  <2>1. sessions[k] \in Session /\ ~sessions[k].terminal
    BY DEF Live, SafeInv, TypeInv, TypeOK
  <2> QED  BY <2>1 DEF Session
<1> QED  BY <1>1 DEF Session

\* Every report is one of these: the session as it is, or with another status,
\* and at most the owner's own message sent back.
LEMMA ReportKinds ==
  ASSUME SafeInv, NEW a \in Actors, NEW k \in Live,
         \/ Update(a, k)
         \/ \E g \in 1..nextGeneration :
              \/ \E status \in {"stopped", "playing"} : ReportState(a, k, g, status)
              \/ ReportCapabilities(a, k, g)
              \/ Route(a, k, g)
  PROVE  \E s \in Session, told \in SUBSET Effect :
           /\ Report(a, k, s, told)
           /\ s.generation = sessions[k].generation
           /\ s.owner = sessions[k].owner
           /\ s.origin = sessions[k].origin
           /\ s.terminal = FALSE
           /\ \A e \in told : e.kind = "route"
<1>1. /\ sessions[k] \in Session /\ sessions[k].terminal = FALSE /\ k \in Keys
      /\ nextGeneration \in Nat
  <2>1. /\ sessions[k] \in Session /\ ~sessions[k].terminal /\ k \in Keys
        /\ nextGeneration \in Nat
    BY DEF Live, SafeInv, TypeInv, TypeOK
  <2> QED  BY <2>1 DEF Session
<1>2. CASE Update(a, k)
  <2>1. Report(a, k, sessions[k], {}) /\ {} \in SUBSET Effect
    BY <1>2 DEF Update
  <2> QED  BY <1>1, <2>1
<1>3. ASSUME NEW g \in 1..nextGeneration, NEW status \in {"stopped", "playing"},
             ReportState(a, k, g, status)
      PROVE  \E s \in Session, told \in SUBSET Effect :
               /\ Report(a, k, s, told)
               /\ s.generation = sessions[k].generation
               /\ s.owner = sessions[k].owner
               /\ s.origin = sessions[k].origin
               /\ s.terminal = FALSE
               /\ \A e \in told : e.kind = "route"
  <2> DEFINE s == [sessions[k] EXCEPT !.status = status]
  <2>1. Report(a, k, s, {}) /\ {} \in SUBSET Effect
    BY <1>3 DEF ReportState
  <2>2. /\ s \in Session
        /\ s.generation = sessions[k].generation
        /\ s.owner = sessions[k].owner
        /\ s.origin = sessions[k].origin
        /\ s.terminal = FALSE
    BY StatusFields
  <2> HIDE DEF s
  <2> QED  BY <2>1, <2>2
<1>4. ASSUME NEW g \in 1..nextGeneration, ReportCapabilities(a, k, g)
      PROVE  Report(a, k, sessions[k], {}) /\ {} \in SUBSET Effect
  BY <1>4 DEF ReportCapabilities
<1>5. ASSUME NEW g \in 1..nextGeneration, Route(a, k, g)
      PROVE  LET told == {Tell(a, "route", k, g, NoActor, FALSE)}
             IN  /\ Report(a, k, sessions[k], told)
                 /\ told \in SUBSET Effect
                 /\ \A e \in told : e.kind = "route"
  <2>0. g \in Nat
    BY <1>1
  <2>1. Tell(a, "route", k, g, NoActor, FALSE) \in Effect
    BY <1>1, <2>0, TellType
  <2> QED  BY <1>5, <2>1 DEF Route, Tell
<1> QED  BY <1>1, <1>2, <1>3, <1>4, <1>5

\* No step gives a session an owner but that owner's own create or transfer.
LEMMA NextMoves == SafeInv /\ Next => OwnersMove
<1> SUFFICES ASSUME SafeInv, Next  PROVE OwnersMove
  OBVIOUS
<1>0. eligible \in [Accounts -> SUBSET Actors] /\ NoActor \notin Actors
  BY ConstantsAssumption DEF SafeInv, TypeInv, TypeOK
<1>1. CASE \E e \in effects : DeliverSent(e) \/ DeliverRefused(e) \/ DeliverThrows(e)
  BY <1>1, SameOwners DEF DeliverSent, DeliverRefused, DeliverThrows, authority
<1>2. CASE RecoverFailed
  <2>1. OwnedBy(Head(failed)) \in SUBSET Live
    BY DEF OwnedBy
  <2> QED  BY <1>0, <1>2, <2>1, SweepMoves DEF RecoverFailed
<1>3. CASE RunQueued
  <2>1. OwnedBy(Head(queue).actor) \in SUBSET Live
    BY DEF OwnedBy
  <2>2. Head(queue).recipients \in [Accounts -> SUBSET Actors]
    <3>1. queue \in Seq([actor : Actors, recipients : [Accounts -> SUBSET Actors]])
          /\ queue # <<>>
      BY <1>3 DEF RunQueued, SafeInv, TypeInv, TypeOK
    <3>2. Head(queue) \in [actor : Actors, recipients : [Accounts -> SUBSET Actors]]
      BY <3>1, HeadTailProperties
    <3> QED  BY <3>2
  <2> QED  BY <1>3, <2>1, <2>2, SweepMoves DEF RunQueued
<1>4. ASSUME NEW a \in Actors, NEW id \in SessionIds, NEW r \in RequestIds,
             NEW answers \in Answers, Create(a, id, r, answers)
      PROVE  OwnersMove
  <2> DEFINE k == <<account, id>>
  <2>1. PICK g \in Nat : CreatedAs(k, a, g, answers)
    BY <1>4, CreateHits
  <2>2. tab[a] = "open" /\ tab' = tab /\ a \in eligible'[account]
    BY <1>4, <1>0 DEF Create, Commands, Listening, SafeInv, TypeInv, TypeOK
  <2>3. \E e \in effects' : e.to = a /\ e.key = k /\ e.kind \in {"grant", "result"}
    <3>1. "result" \in answers
      BY DEF Answers
    <3> HIDE DEF k
    <3>2. Tell(a, "result", k, g, a, FALSE) \in effects'
      BY <2>1, <3>1 DEF CreatedAs
    <3>3. /\ Tell(a, "result", k, g, a, FALSE).to = a
          /\ Tell(a, "result", k, g, a, FALSE).key = k
          /\ Tell(a, "result", k, g, a, FALSE).kind = "result"
      BY DEF Tell
    <3> QED  BY <3>2, <3>3
  <2>4. k[1] = account
    OBVIOUS
  <2> HIDE DEF k
  <2>5. Taken(k, a)
    BY <2>1, <2>2, <2>3, <2>4 DEF Taken, CreatedAs
  <2>6. \A j \in Known : KeptOrLost(j)
    BY <2>1 DEF KeptOrLost, CreatedAs
  <2> QED  BY <2>1, <2>5, <2>6 DEF OwnersMove, CreatedAs
<1>5. ASSUME NEW a \in Actors, NEW k \in Live, NEW g \in 1..nextGeneration,
             NEW r \in RequestIds, Transfer(a, k, g, r)
      PROVE  OwnersMove
  <2>0. GivenTo(Reassigned(k, a, g, r), k, a)
    <3>1. a \in Actors \cup {NoActor}
      OBVIOUS
    <3> QED  BY <1>0, <3>1, ReassignedFields
  <2> DEFINE s == Reassigned(k, a, g, r)
             told == StopOwner(k, s.generation)
                     \cup {Tell(a, "grant", k, s.generation, a, FALSE)}
                     \cup Broadcast(k, s, eligible'[account])
  <2>1. s \in Session /\ s.owner = a /\ s.origin = sessions[k].origin
    BY <2>0 DEF GivenTo
  <2>2. /\ Commit(k, s, [activeByAccount EXCEPT ![account] = k[2]], told)
        /\ tab[a] = "open" /\ tab' = tab /\ k[1] = account
        /\ a \in eligible'[account]
    BY <1>5, <1>0
    DEF Transfer, Fenced, Commands, Listening, SafeInv, TypeInv, TypeOK
  <2>3. Tell(a, "grant", k, s.generation, a, FALSE) \in told
    OBVIOUS
  <2> HIDE DEF s, told
  <2>4. /\ k \in Known
        /\ Known' = Known
        /\ \A j \in Known \ {k} : sessions'[j] = sessions[j]
        /\ sessions'[k] = s
        /\ effects' = told
    BY <2>1, <2>2, CommitHits
  <2>5. \E e \in effects' : e.to = a /\ e.key = k /\ e.kind \in {"grant", "result"}
    <3>1. /\ Tell(a, "grant", k, s.generation, a, FALSE).to = a
          /\ Tell(a, "grant", k, s.generation, a, FALSE).key = k
          /\ Tell(a, "grant", k, s.generation, a, FALSE).kind = "grant"
      BY DEF Tell
    <3> QED  BY <2>3, <2>4, <3>1
  <2>6. Taken(k, a)
    BY <2>1, <2>2, <2>4, <2>5 DEF Taken
  <2>7. \A j \in Known \ {k} : KeptOrLost(j)
    BY <2>4 DEF KeptOrLost
  <2> QED  BY <2>4, <2>6, <2>7 DEF OwnersMove
<1>6. ASSUME NEW a \in Actors, NEW k \in Live, NEW g \in 1..nextGeneration,
             NEW r \in RequestIds, Stop(a, k, g, r)
      PROVE  OwnersMove
  <2>1. PICK told : Commit(k, Reassigned(k, NoActor, g, r),
                           [activeByAccount EXCEPT ![account] = k[2]], told)
    BY <1>6 DEF Stop
  <2>2. NoActor \in Actors \cup {NoActor}
    OBVIOUS
  <2>3. GivenTo(Reassigned(k, NoActor, g, r), k, NoActor)
    BY <2>2, ReassignedFields
  <2> QED  BY <2>1, <2>3, CommitMoves DEF GivenTo
<1>7. ASSUME NEW a \in Actors, NEW k \in Live, Destroy(a, k)
      PROVE  OwnersMove
  <2>1. PICK active, told : Commit(k, Ended(sessions[k], nextGeneration + 1), active, told)
    BY <1>7 DEF Destroy
  <2> QED  BY <2>1, EndedFields, CommitMoves
<1>8. ASSUME NEW a \in Actors, NEW k \in Live,
             \/ Update(a, k)
             \/ \E g \in 1..nextGeneration :
                  \/ \E status \in {"stopped", "playing"} : ReportState(a, k, g, status)
                  \/ ReportCapabilities(a, k, g)
                  \/ Route(a, k, g)
      PROVE  OwnersMove
  <2>1. PICK s \in Session, told \in SUBSET Effect :
          /\ Report(a, k, s, told)
          /\ s.owner = sessions[k].owner
          /\ s.origin = sessions[k].origin
    BY <1>8, ReportKinds
  <2>2. PICK all : Commit(k, s, [activeByAccount EXCEPT ![account] = k[2]], all)
    BY <2>1 DEF Report
  <2> QED  BY <2>1, <2>2, CommitMoves
<1>9. ASSUME NEW a \in Actors, Rejected(a) \/ Attach(a) \/ Open(a)
      PROVE  OwnersMove
  BY <1>9, SameOwners DEF Rejected, Attach, Open, authority
<1>10. ASSUME NEW a \in Actors, Detach(a)
       PROVE  OwnersMove
  <2>1. Deaf(a) \in [Accounts -> SUBSET Actors] /\ OwnedBy(a) \in SUBSET Live
    BY ListeningType DEF SafeInv, TypeInv, OwnedBy
  <2>2. Sweep(OwnedBy(a), FALSE, Deaf(a))
    BY <1>10 DEF Detach
  <2> QED  BY <2>1, <2>2, SweepMoves
<1>11. ASSUME NEW a \in Actors, ExpireOrigin(a)
       PROVE  OwnersMove
  <2>1. CreatedBy(a) \in SUBSET Live
    BY DEF CreatedBy
  <2> QED  BY <1>0, <1>11, <2>1, SweepMoves DEF ExpireOrigin
<1>12. ASSUME NEW acct, ChangeAccount(acct)
       PROVE  OwnersMove
  <2>1. (IF account = NoAccount THEN {} ELSE LiveOf(account)) \in SUBSET Live
    BY DEF LiveOf
  <2> QED  BY <1>0, <1>12, <2>1, SweepMoves DEF ChangeAccount
<1>13. CASE Shutdown
  <2>1. Sweep(Live, TRUE, eligible) /\ Live \in SUBSET Live
    BY <1>13 DEF Shutdown
  <2> QED  BY <1>0, <2>1, SweepMoves
<1>14. ASSUME NEW a \in Actors, Command(a)
       PROVE  OwnersMove
  BY <1>14, <1>4, <1>5, <1>6, <1>7, <1>8, <1>9 DEF Command
<1>15. ASSUME NEW a \in Actors, Lifecycle(a)
       PROVE  OwnersMove
  BY <1>15, <1>9, <1>10, <1>11 DEF Lifecycle
<1>16. CASE Dispatch
  BY <1>16, <1>1, <1>2, <1>3 DEF Dispatch
<1>17. CASE (\E acct \in Accounts : SignIn(acct)) \/ SignOut
  BY <1>17, <1>12 DEF SignIn, SignOut
<1> QED  BY <1>13, <1>14, <1>15, <1>16, <1>17 DEF Next

\* A tab owns a session because it created it or asked for it, connected at
\* the time and answered: no detach, expiry, refusal or account change ever
\* hands a session to anyone.
THEOREM OwnershipIsEarned == Spec => OwnershipIsTaken
<1> DEFINE Moved ==
      \A k \in DOMAIN sessions' :
        LET before == IF k \in Known THEN sessions[k].owner ELSE NoActor
            after  == sessions'[k].owner
        IN  after \notin {before, NoActor} =>
              /\ tab[after] = "open"
              /\ \E e \in effects' : e.to = after /\ e.key = k
                                     /\ e.kind \in {"grant", "result"}
<1>1. Init => SafeInv
  BY InitSafe
<1>2. SafeInv /\ [Next]_vars => SafeInv'
  BY NextSafe
<1>3. ASSUME SafeInv, [Next]_vars  PROVE [Moved]_sessions
  <2>1. CASE sessions' = sessions
    BY <2>1
  <2>2. CASE sessions' # sessions
    <3>1. OwnersMove
      <4>1. Next
        BY <1>3, <2>2 DEF vars, authority
      <4> QED  BY <1>3, <4>1, NextMoves
    <3>2. \A k \in Known' : KeptOrLost(k) \/ \E a \in Actors : Taken(k, a)
      BY <3>1 DEF OwnersMove
    <3>3. Moved
      BY <3>2 DEF Known, KeptOrLost, Taken
    <3> QED  BY <3>3
  <2> QED  BY <2>1, <2>2
<1>4. OwnershipIsTaken <=> [][Moved]_sessions
  BY DEF OwnershipIsTaken
<1> HIDE DEF Moved
<1> QED  BY <1>1, <1>2, <1>3, <1>4, PTL DEF Spec

\* A command of a tab makes it a listener, and touches no socket and no other
\* part of the coordinator.
LEMMA CommandFrame ==
  ASSUME NEW a, Command(a)
  PROVE  /\ Commands(a)
         /\ eligible' = Listening(a)
         /\ failed' = <<>> \/ failed' = failed
         /\ UNCHANGED <<queue, account, destroyed, tab, history>>
<1>1. ASSUME NEW k, NEW s, NEW told, Report(a, k, s, told)
      PROVE  /\ Commands(a)
             /\ eligible' = Listening(a)
             /\ failed' = <<>> \/ failed' = failed
             /\ UNCHANGED <<queue, account, destroyed, tab, history>>
  BY <1>1 DEF Report, Run
<1>2. ASSUME NEW id, NEW r, NEW answers, Create(a, id, r, answers)
      PROVE  /\ Commands(a)
             /\ eligible' = Listening(a)
             /\ failed' = <<>> \/ failed' = failed
             /\ UNCHANGED <<queue, account, destroyed, tab, history>>
  BY <1>2 DEF Create, Run
<1>3. ASSUME NEW k, NEW g, NEW r, Transfer(a, k, g, r) \/ Stop(a, k, g, r)
      PROVE  /\ Commands(a)
             /\ eligible' = Listening(a)
             /\ failed' = <<>> \/ failed' = failed
             /\ UNCHANGED <<queue, account, destroyed, tab, history>>
  BY <1>3 DEF Transfer, Stop, Run
<1>4. ASSUME NEW k, Destroy(a, k)
      PROVE  /\ Commands(a)
             /\ eligible' = Listening(a)
             /\ failed' = <<>> \/ failed' = failed
             /\ UNCHANGED <<queue, account, destroyed, tab, history>>
  BY <1>4 DEF Destroy, Run
<1>5. CASE Rejected(a)
  BY <1>5 DEF Rejected, dispatch
<1>6. ASSUME NEW k, Update(a, k)
      PROVE  /\ Commands(a)
             /\ eligible' = Listening(a)
             /\ failed' = <<>> \/ failed' = failed
             /\ UNCHANGED <<queue, account, destroyed, tab, history>>
  BY <1>1, <1>6 DEF Update
<1>7. ASSUME NEW k, NEW g, NEW status, ReportState(a, k, g, status)
      PROVE  /\ Commands(a)
             /\ eligible' = Listening(a)
             /\ failed' = <<>> \/ failed' = failed
             /\ UNCHANGED <<queue, account, destroyed, tab, history>>
  BY <1>1, <1>7 DEF ReportState
<1>8. ASSUME NEW k, NEW g, ReportCapabilities(a, k, g) \/ Route(a, k, g)
      PROVE  /\ Commands(a)
             /\ eligible' = Listening(a)
             /\ failed' = <<>> \/ failed' = failed
             /\ UNCHANGED <<queue, account, destroyed, tab, history>>
  BY <1>1, <1>8 DEF ReportCapabilities, Route
<1> QED
  BY <1>2, <1>3, <1>4, <1>5, <1>6, <1>7, <1>8 DEF Command

\* What a dispatch step leaves alone.
LEMMA DispatchFrame ==
  ASSUME Dispatch
  PROVE  /\ UNCHANGED <<account, destroyed, tab>>
         /\ \/ UNCHANGED <<eligible, queue>>
            \/ UNCHANGED eligible /\ RunQueued
            \/ \E e \in effects : DeliverThrows(e)
<1>1. ASSUME NEW e \in effects, DeliverSent(e) \/ DeliverRefused(e)
      PROVE  UNCHANGED <<account, destroyed, tab, eligible, queue>>
  BY <1>1 DEF DeliverSent, DeliverRefused
<1>2. ASSUME NEW e \in effects, DeliverThrows(e)
      PROVE  UNCHANGED <<account, destroyed, tab>>
  BY <1>2 DEF DeliverThrows
<1>3. CASE RecoverFailed
  BY <1>3 DEF RecoverFailed
<1>4. CASE RunQueued
  BY <1>4 DEF RunQueued
<1> QED  BY <1>1, <1>2, <1>3, <1>4 DEF Dispatch

\* What an account change and the end of the runtime leave alone.
LEMMA AccountFrame ==
  ASSUME (\E acct \in Accounts : SignIn(acct)) \/ SignOut
  PROVE  /\ UNCHANGED <<queue, destroyed, tab, eligible, enacting>>
         /\ failed' = <<>>
<1>1. ASSUME NEW acct, ChangeAccount(acct)
      PROVE  /\ UNCHANGED <<queue, destroyed, tab, eligible, enacting>>
             /\ failed' = <<>>
  BY <1>1 DEF ChangeAccount, Run
<1> QED  BY <1>1 DEF SignIn, SignOut

LEMMA ShutdownFrame ==
  ASSUME Shutdown
  PROVE  UNCHANGED <<queue, account, tab, history>> /\ destroyed' /\ failed' = <<>>
BY DEF Shutdown, Run

LEMMA LifecycleFrame ==
  ASSUME NEW a, Lifecycle(a)
  PROVE  /\ UNCHANGED <<queue, account, destroyed>>
         /\ failed' = <<>> \/ failed' = failed
<1>1. CASE Attach(a)
  BY <1>1 DEF Attach, dispatch
<1>2. CASE Open(a)
  BY <1>2 DEF Open, dispatch
<1>3. CASE Detach(a)
  BY <1>3 DEF Detach, Run
<1>4. CASE ExpireOrigin(a)
  BY <1>4 DEF ExpireOrigin, Run
<1> QED  BY <1>1, <1>2, <1>3, <1>4 DEF Lifecycle

-------------------------------------------------------------------------------
(* A live session has an owner that is there, and its origin's window.       *)

HeldInv == SafeInv /\ SessionsAreHeld

\* What is live after a step was live before, or is new and was just taken.
LEMMA LiveAfter ==
  ASSUME SafeInv, Next, NEW k \in Live'
  PROVE  /\ k \in Known' /\ k \in Keys
         /\ k \in Known => k \in Live
         /\ KeptOrLost(k) \/ \E a \in Actors : Taken(k, a)
<1>1. k \in Known' /\ ~sessions'[k].terminal
  BY DEF Live
<1>2. k \in Keys
  BY <1>1, NextSafe DEF SafeInv, TypeInv, TypeOK
<1>3. ASSUME k \in Known  PROVE k \in Live
  <2>1. CASE UNCHANGED authority
    BY <1>1, <1>3, <2>1 DEF authority, Live
  <2>2. CASE FencedStep
    BY <1>1, <1>3, <2>2 DEF FencedStep, Live
  <2> QED  BY <2>1, <2>2, NextSafe
<1>4. OwnersMove
  BY NextMoves
<1> QED  BY <1>1, <1>2, <1>3, <1>4 DEF OwnersMove

\* A window expires only with the sessions it created.
LEMMA OriginsStayAlive ==
  ASSUME HeldInv, Next
  PROVE  OriginsAreAlive'
<1> SUFFICES ASSUME NEW k \in Live', tab'[sessions'[k].origin] = "expired"
             PROVE  FALSE
  BY DEF OriginsAreAlive
<1> DEFINE o == sessions'[k].origin
<1>0. SafeInv
  BY DEF HeldInv
<1>1. CASE \E a \in Actors : Taken(k, a) /\ k \notin Known
  BY <1>1 DEF Taken
<1>2. CASE ~ \E a \in Actors : Taken(k, a) /\ k \notin Known
  <2>1. k \in Live /\ o = sessions[k].origin
    BY <1>0, <1>2, LiveAfter DEF KeptOrLost, Taken
  <2>2. tab[o] # "expired" /\ o \in Actors
    BY <2>1 DEF HeldInv, SafeInv, TypeInv, TypeOK, Session, SessionsAreHeld,
                OriginsAreAlive, Live
  <2>3. \/ tab' = tab
        \/ \E a \in Actors : Attach(a) \/ Open(a) \/ Detach(a) \/ ExpireOrigin(a)
    BY CommandFrame, DispatchFrame, AccountFrame, ShutdownFrame DEF Next, Lifecycle
  <2>4. PICK a \in Actors : Attach(a) \/ Open(a) \/ Detach(a) \/ ExpireOrigin(a)
    BY <2>2, <2>3
  <2>5. a = o /\ ExpireOrigin(a)
    BY <2>2, <2>4 DEF Attach, Open, Detach, ExpireOrigin, SafeInv, HeldInv, TypeInv, TypeOK
  <2>6. k \in CreatedBy(a)
    BY <2>1, <2>5 DEF CreatedBy
  <2>7. Live' = {}
    <3>1. CreatedBy(a) \in SUBSET Live /\ eligible \in [Accounts -> SUBSET Actors]
      BY <1>0 DEF CreatedBy, SafeInv, TypeInv, TypeOK
    <3>2. Sweep(CreatedBy(a), TRUE, eligible)
      BY <2>5 DEF ExpireOrigin
    <3>3. PICK h \in Live : SweptOne(h, CreatedBy(a), TRUE, eligible)
      BY <1>0, <2>6, <3>1, <3>2, SweepHits
    <3> QED  BY <3>3 DEF SweptOne
  <2> QED  BY <2>7
<1> QED  BY <1>1, <1>2

\* A swept session loses its owner.
LEMMA SweptLoses ==
  ASSUME SafeInv, NEW A \in SUBSET Live, NEW ends \in BOOLEAN,
         NEW R \in [Accounts -> SUBSET Actors], Sweep(A, ends, R), NEW k \in A
  PROVE  sessions'[k].owner = NoActor /\ (ends => k \notin Live')
<1>1. PICK h \in Live : SweptOne(h, A, ends, R)
  BY SweepHits
<1> QED  BY <1>1 DEF SweptOne

\* The listeners and the nested detaches change so that an actor dropped from
\* the listeners is queued or has lost its socket.
LEMMA DroppedIsQueued ==
  ASSUME SafeInv, Next, NEW b \in Actors, NEW acct \in Accounts,
         b \in eligible[acct], b \notin eligible'[acct]
  PROVE  \/ \E i \in DOMAIN queue' : queue'[i].actor = b
         \/ Detach(b)
         \/ Shutdown
<1>1. /\ queue \in Seq([actor : Actors, recipients : [Accounts -> SUBSET Actors]])
      /\ eligible \in [Accounts -> SUBSET Actors]
  BY DEF SafeInv, TypeInv, TypeOK
<1>2. ASSUME NEW e \in effects, DeliverThrows(e)
      PROVE  \E i \in DOMAIN queue' : queue'[i].actor = b
  <2>1. b = e.to
    BY <1>1, <1>2 DEF DeliverThrows, Deaf
  <2> DEFINE q == [actor |-> e.to, recipients |-> Deaf(e.to)]
  <2>2. q \in [actor : Actors, recipients : [Accounts -> SUBSET Actors]]
    BY <2>1, ListeningType DEF SafeInv, TypeInv
  <2>3. queue' = Append(queue, q) /\ q.actor = b
    BY <1>2, <2>1 DEF DeliverThrows
  <2> HIDE DEF q
  <2>4. Len(queue') \in DOMAIN queue' /\ queue'[Len(queue')] = q
    BY <1>1, <2>2, <2>3, AppendProperties, LenProperties
  <2> QED  BY <2>3, <2>4
<1>3. CASE eligible' = eligible
  BY <1>3
<1>4. ASSUME NEW a, eligible' = Listening(a)
      PROVE  FALSE
  BY <1>1, <1>4 DEF Listening
<1>5. ASSUME NEW a \in Actors, Detach(a)
      PROVE  a = b
  BY <1>1, <1>5 DEF Detach, Deaf
<1>6. ASSUME NEW a \in Actors, Lifecycle(a)
      PROVE  eligible' = eligible \/ eligible' = Listening(a) \/ Detach(a)
  BY <1>6 DEF Lifecycle, Attach, Open, ExpireOrigin
<1>7. \/ eligible' = eligible
      \/ \E a : eligible' = Listening(a)
      \/ \E e \in effects : DeliverThrows(e)
      \/ \E a \in Actors : Detach(a)
      \/ Shutdown
  BY <1>6, CommandFrame, DispatchFrame, AccountFrame DEF Next
<1> QED  BY <1>2, <1>3, <1>4, <1>5, <1>7

\* A nested detach leaves the queue only by running.
LEMMA QueuedRuns ==
  ASSUME SafeInv, Next, NEW b \in Actors,
         \E i \in DOMAIN queue : queue[i].actor = b
  PROVE  \/ \E i \in DOMAIN queue' : queue'[i].actor = b
         \/ RunQueued /\ Head(queue).actor = b
<1> DEFINE Q == [actor : Actors, recipients : [Accounts -> SUBSET Actors]]
<1>1. queue \in Seq(Q)
  BY DEF SafeInv, TypeInv, TypeOK
<1>2. PICK i \in DOMAIN queue : queue[i].actor = b
  OBVIOUS
<1>3. i \in 1..Len(queue) /\ queue # <<>> /\ Len(queue) \in Nat
  BY <1>1, LenProperties, EmptySeq
<1>4. ASSUME NEW e \in effects, DeliverThrows(e)
      PROVE  i \in DOMAIN queue' /\ queue'[i] = queue[i]
  <2> DEFINE q == [actor |-> e.to, recipients |-> Deaf(e.to)]
  <2>1. e.to \in Actors
    BY DEF SafeInv, TypeInv, TypeOK, Effect
  <2>2. q \in Q
    BY <2>1, ListeningType DEF SafeInv, TypeInv
  <2>3. queue' = Append(queue, q)
    BY <1>4 DEF DeliverThrows
  <2> HIDE DEF q, Q
  <2> QED  BY <1>1, <1>3, <2>2, <2>3, AppendProperties, LenProperties
<1>5. CASE RunQueued
  <2>1. CASE i = 1
    BY <1>1, <1>2, <1>3, <1>5, <2>1, HeadTailProperties
  <2>2. CASE i # 1
    <3>1. queue' = Tail(queue)
      BY <1>5 DEF RunQueued
    <3> HIDE DEF Q
    <3>2. i - 1 \in DOMAIN queue' /\ queue'[i - 1] = queue[i]
      BY <1>1, <1>3, <2>2, <3>1, HeadTailProperties, LenProperties
    <3> QED  BY <1>2, <3>2
  <2> QED  BY <2>1, <2>2
<1>6. \/ queue' = queue
      \/ \E e \in effects : DeliverThrows(e)
      \/ RunQueued
  BY CommandFrame, DispatchFrame, AccountFrame, ShutdownFrame, LifecycleFrame DEF Next
<1> QED  BY <1>2, <1>4, <1>5, <1>6

\* An owner is always there and listens, or its revocation is queued.
LEMMA OwnersStayReachable ==
  ASSUME HeldInv, Next
  PROVE  OwnerIsReachable'
<1> DEFINE b(k) == sessions'[k].owner
<1> SUFFICES ASSUME NEW k \in Live', sessions'[k].owner # NoActor
             PROVE  /\ tab'[b(k)] \in {"connecting", "open"}
                    /\ \/ b(k) \in eligible'[k[1]]
                       \/ destroyed'
                       \/ \E i \in DOMAIN queue' : queue'[i].actor = b(k)
  BY DEF OwnerIsReachable
<1>0. SafeInv
  BY DEF HeldInv
<1>1. CASE \E a \in Actors : Taken(k, a)
  BY <1>1 DEF Taken
<1>2. CASE KeptOrLost(k)
  <2>1. /\ k \in Live
        /\ sessions[k].owner = b(k)
        /\ b(k) \in Actors
        /\ k[1] \in Accounts
    <3>1. k \in Live /\ k \in Keys
      BY <1>0, <1>2, LiveAfter DEF KeptOrLost
    <3>2. sessions[k].owner = b(k)
      BY <1>2 DEF KeptOrLost
    <3>3. sessions[k].owner \in Actors \cup {NoActor}
      BY <3>1, <1>0 DEF SafeInv, TypeInv, TypeOK, Session, Live
    <3> QED  BY <3>1, <3>2, <3>3 DEF Keys
  <2> DEFINE o == b(k)
  <2>2. /\ tab[o] \in {"connecting", "open"}
        /\ \/ o \in eligible[k[1]]
           \/ destroyed
           \/ \E i \in DOMAIN queue : queue[i].actor = o
    BY <2>1 DEF HeldInv, SessionsAreHeld, OwnerIsReachable
  <2>3. ~Detach(o)
    <3> SUFFICES ASSUME Detach(o)  PROVE FALSE
      OBVIOUS
    <3>1. k \in OwnedBy(o) /\ OwnedBy(o) \in SUBSET Live
      BY <2>1 DEF OwnedBy
    <3>2. Sweep(OwnedBy(o), FALSE, Deaf(o)) /\ Deaf(o) \in [Accounts -> SUBSET Actors]
      BY <1>0, <2>1, ListeningType DEF Detach, SafeInv, TypeInv
    <3> HIDE DEF o
    <3> QED  BY <1>0, <3>1, <3>2, SweptLoses
  <2>4. tab'[o] \in {"connecting", "open"}
    <3>1. \/ tab' = tab
          \/ \E a \in Actors : Attach(a) \/ Open(a) \/ Detach(a) \/ ExpireOrigin(a)
      BY CommandFrame, DispatchFrame, AccountFrame, ShutdownFrame DEF Next, Lifecycle
    <3>2. ASSUME NEW a \in Actors, Attach(a) \/ Open(a) \/ Detach(a) \/ ExpireOrigin(a)
          PROVE  tab'[o] \in {"connecting", "open"}
      <4>0. o \in Actors
        BY <2>1
      <4> HIDE DEF o
      <4>1. tab \in [Actors -> {"unopened", "connecting", "open", "closed", "expired"}]
        BY <1>0 DEF SafeInv, TypeInv, TypeOK
      <4>2. CASE Attach(a) \/ Open(a)
        BY <2>2, <4>0, <4>1, <4>2 DEF Attach, Open
      <4>3. CASE Detach(a)
        <5>1. a # o
          BY <2>3, <4>3
        <5> QED  BY <2>2, <4>0, <4>1, <4>3, <5>1 DEF Detach
      <4>4. CASE ExpireOrigin(a)
        BY <2>2, <4>0, <4>1, <4>4 DEF ExpireOrigin
      <4> QED  BY <3>2, <4>2, <4>3, <4>4
    <3> QED  BY <2>2, <3>1, <3>2
  <2>5. ~Shutdown
    <3> SUFFICES ASSUME Shutdown  PROVE FALSE
      OBVIOUS
    <3>1. Sweep(Live, TRUE, eligible) /\ eligible \in [Accounts -> SUBSET Actors]
      BY <1>0 DEF Shutdown, SafeInv, TypeInv, TypeOK
    <3> QED  BY <1>0, <2>1, <3>1, SweptLoses
  <2>6. ~(RunQueued /\ Head(queue).actor = o)
    <3> SUFFICES ASSUME RunQueued, Head(queue).actor = o  PROVE FALSE
      OBVIOUS
    <3>1. k \in OwnedBy(o) /\ OwnedBy(o) \in SUBSET Live
      BY <2>1 DEF OwnedBy
    <3>2. Sweep(OwnedBy(o), FALSE, Head(queue).recipients)
      BY DEF RunQueued
    <3>3. Head(queue).recipients \in [Accounts -> SUBSET Actors]
      <4>1. queue \in Seq([actor : Actors, recipients : [Accounts -> SUBSET Actors]])
            /\ queue # <<>>
        BY <1>0 DEF RunQueued, SafeInv, TypeInv, TypeOK
      <4>2. Head(queue) \in [actor : Actors, recipients : [Accounts -> SUBSET Actors]]
        BY <4>1, HeadTailProperties
      <4> QED  BY <4>2
    <3> HIDE DEF o
    <3> QED  BY <1>0, <3>1, <3>2, <3>3, SweptLoses
  <2>7. destroyed => destroyed'
    BY CommandFrame, DispatchFrame, AccountFrame, ShutdownFrame, LifecycleFrame DEF Next
  <2> HIDE DEF o
  <2>8. \/ o \in eligible'[k[1]]
        \/ destroyed'
        \/ \E i \in DOMAIN queue' : queue'[i].actor = o
    <3>1. CASE o \in eligible[k[1]]
      BY <1>0, <2>1, <2>3, <2>5, <3>1, DroppedIsQueued DEF o
    <3>2. CASE \E i \in DOMAIN queue : queue[i].actor = o
      BY <1>0, <2>1, <2>6, <3>2, QueuedRuns DEF o
    <3> QED  BY <2>2, <2>7, <3>1, <3>2
  <2> QED  BY <2>4, <2>8 DEF o
<1> QED  BY <1>0, <1>1, <1>2, LiveAfter

\* Every step keeps it.
LEMMA NextHeld == HeldInv /\ [Next]_vars => HeldInv'
<1> SUFFICES ASSUME HeldInv, [Next]_vars  PROVE HeldInv'
  OBVIOUS
<1>1. SafeInv'
  BY NextSafe DEF HeldInv
<1>2. CASE UNCHANGED vars
  BY <1>1, <1>2
  DEF vars, authority, dispatch, history, HeldInv, SessionsAreHeld, OwnerIsReachable,
      OriginsAreAlive, Live, Known
<1>3. CASE Next
  BY <1>1, <1>3, OriginsStayAlive, OwnersStayReachable DEF HeldInv, SessionsAreHeld
<1> QED  BY <1>2, <1>3

\* Nobody holds anything at the start.
LEMMA InitHeld == Init => HeldInv
<1> SUFFICES ASSUME Init  PROVE HeldInv
  OBVIOUS
<1>1. Live = {}
  BY DEF Init, Live, Known
<1> QED
  BY <1>1, InitSafe DEF HeldInv, SessionsAreHeld, OwnerIsReachable, OriginsAreAlive

\* A live session is never left with an owner that is gone: its socket is there
\* and it hears of every change, or the detach that revokes it is queued.  Nor
\* does a session outlive the window that created it.
THEOREM OwnersAreThere == Spec => []SessionsAreHeld
<1>1. Init => HeldInv
  BY InitHeld
<1>2. HeldInv /\ [Next]_vars => HeldInv'
  BY NextHeld
<1>3. HeldInv => SessionsAreHeld
  BY DEF HeldInv
<1> QED  BY <1>1, <1>2, <1>3, PTL DEF Spec

-------------------------------------------------------------------------------
(* Who listens: the recipients of a nested detach are those of its moment.   *)

\* A listener has a socket, open or about to open.
ListenersAreThere ==
  \A acct \in Accounts : \A a \in eligible[acct] :
    tab[a] \in {"connecting", "open"}

\* The recipients stored with a queued detach are out of date only in sockets
\* that are not open: every listener is still among them, and every open one
\* among them still listens.
QueueAgrees ==
  \A i \in DOMAIN queue, acct \in Accounts :
    /\ eligible[acct] \subseteq queue[i].recipients[acct]
    /\ \A a \in queue[i].recipients[acct] :
         tab[a] = "open" => a \in eligible[acct]

\* As the code has it: deliver never reports a failure by its result, so no
\* recipient is ever on the list of failures.
ListenInv == HeldInv /\ failed = <<>> /\ ListenersAreThere /\ QueueAgrees

\* The list of failures stays empty when deliver does not refuse.
LEMMA NoneFail ==
  ASSUME MayRefuse = FALSE, failed = <<>>, Next
  PROVE  failed' = <<>>
<1>1. CASE Dispatch
  <2>1. ASSUME NEW e \in effects, DeliverSent(e) \/ DeliverThrows(e)
        PROVE  failed' = failed
    BY <2>1 DEF DeliverSent, DeliverThrows
  <2>2. ASSUME NEW e \in effects, DeliverRefused(e)
        PROVE  FALSE
    BY <2>2 DEF DeliverRefused
  <2>3. CASE RecoverFailed
    BY <2>3 DEF RecoverFailed
  <2>4. CASE RunQueued
    BY <2>4 DEF RunQueued
  <2> QED  BY <1>1, <2>1, <2>2, <2>3, <2>4 DEF Dispatch
<1> QED
  BY <1>1, CommandFrame, LifecycleFrame, AccountFrame, ShutdownFrame DEF Next

\* A tab that starts or stops to listen.
LEMMA ListeningIs ==
  ASSUME SafeInv, account # NoAccount, NEW a \in Actors
  PROVE  \A acct \in Accounts :
           Listening(a)[acct] = IF acct = account THEN eligible[acct] \cup {a}
                                                  ELSE eligible[acct]
BY DEF Listening, SafeInv, TypeInv, TypeOK

LEMMA DeafIs ==
  ASSUME NEW a
  PROVE  \A acct \in Accounts : Deaf(a)[acct] = eligible[acct] \ {a}
BY DEF Deaf

\* A listener keeps its socket.
LEMMA ListenersStay ==
  ASSUME ListenInv, Next
  PROVE  ListenersAreThere'
<1>0. /\ SafeInv
      /\ tab \in [Actors -> {"unopened", "connecting", "open", "closed", "expired"}]
      /\ eligible \in [Accounts -> SUBSET Actors]
  BY DEF ListenInv, HeldInv, SafeInv, TypeInv, TypeOK
<1>1. \A acct \in Accounts : \A a \in eligible[acct] :
        a \in Actors /\ tab[a] \in {"connecting", "open"}
  BY <1>0 DEF ListenInv, ListenersAreThere
<1>2. ASSUME NEW a \in Actors, Command(a)
      PROVE  ListenersAreThere'
  <2>1. eligible' = Listening(a) /\ tab' = tab /\ tab[a] = "open" /\ account # NoAccount
    BY <1>2, CommandFrame DEF Commands
  <2>2. \A acct \in Accounts : \A b \in eligible'[acct] : b = a \/ b \in eligible[acct]
    BY <1>0, <2>1, ListeningIs
  <2> QED  BY <1>1, <2>1, <2>2 DEF ListenersAreThere
<1>3. CASE tab' = tab /\ eligible' = eligible
  BY <1>1, <1>3 DEF ListenersAreThere
<1>4. ASSUME NEW a, eligible' = Deaf(a), tab' = tab
      PROVE  ListenersAreThere'
  BY <1>1, <1>4, DeafIs DEF ListenersAreThere
<1>5. CASE Dispatch
  BY <1>3, <1>4, <1>5, DispatchFrame DEF DeliverThrows
<1>6. CASE Shutdown
  BY <1>6 DEF Shutdown, ListenersAreThere
<1>7. ASSUME NEW a \in Actors, Attach(a) \/ Open(a)
      PROVE  ListenersAreThere'
  <2>1. \/ eligible' = eligible
        \/ account # NoAccount /\ eligible' = Listening(a)
    BY <1>7 DEF Attach, Open
  <2>2. \A acct \in Accounts : \A b \in eligible'[acct] : b = a \/ b \in eligible[acct]
    BY <1>0, <2>1, ListeningIs
  <2>3. tab' = [tab EXCEPT ![a] = "connecting"] \/ tab' = [tab EXCEPT ![a] = "open"]
    BY <1>7 DEF Attach, Open
  <2>4. /\ tab'[a] \in {"connecting", "open"}
        /\ \A b \in Actors \ {a} : tab'[b] = tab[b]
    BY <1>0, <2>3
  <2> QED  BY <1>1, <2>2, <2>4 DEF ListenersAreThere
<1>8. ASSUME NEW a \in Actors, Detach(a)
      PROVE  ListenersAreThere'
  <2>1. eligible' = Deaf(a) /\ tab' = [tab EXCEPT ![a] = "closed"]
    BY <1>8 DEF Detach
  <2>2. \A b \in Actors \ {a} : tab'[b] = tab[b]
    BY <1>0, <2>1
  <2> QED  BY <1>1, <2>1, <2>2, DeafIs DEF ListenersAreThere
<1>9. ASSUME NEW a \in Actors, ExpireOrigin(a)
      PROVE  ListenersAreThere'
  <2>1. eligible' = eligible /\ tab' = [tab EXCEPT ![a] = "expired"] /\ tab[a] = "closed"
    BY <1>9 DEF ExpireOrigin
  <2>2. \A b \in Actors \ {a} : tab'[b] = tab[b]
    BY <1>0, <2>1
  <2> QED  BY <1>1, <2>1, <2>2 DEF ListenersAreThere
<1>10. CASE (\E acct \in Accounts : SignIn(acct)) \/ SignOut
  BY <1>3, <1>10, AccountFrame
<1> QED  BY <1>2, <1>5, <1>6, <1>7, <1>8, <1>9, <1>10 DEF Next, Lifecycle

\* Outside a dispatch nothing is queued.
LEMMA CallsAreIdle ==
  ASSUME Next, ~Dispatch
  PROVE  Idle /\ ~destroyed
<1>1. ASSUME NEW a, Command(a)
      PROVE  Idle /\ ~destroyed
  BY <1>1, CommandFrame DEF Commands, MayCall
<1>2. ASSUME NEW a, Lifecycle(a)
      PROVE  Idle /\ ~destroyed
  BY <1>2 DEF Lifecycle, Attach, Open, Detach, ExpireOrigin, MayCall
<1>3. CASE (\E acct \in Accounts : SignIn(acct)) \/ SignOut \/ Shutdown
  BY <1>3 DEF SignIn, SignOut, Shutdown, MayCall
<1> QED  BY <1>1, <1>2, <1>3 DEF Next

\* The recipients of the queued detaches stay right.
LEMMA QueueStays ==
  ASSUME ListenInv, Next
  PROVE  QueueAgrees'
<1> DEFINE Q == [actor : Actors, recipients : [Accounts -> SUBSET Actors]]
<1>0. /\ SafeInv
      /\ queue \in Seq(Q)
      /\ eligible \in [Accounts -> SUBSET Actors]
  BY DEF ListenInv, HeldInv, SafeInv, TypeInv, TypeOK
<1>1. CASE ~Dispatch
  <2>1. queue = <<>> /\ queue' = queue
    BY <1>1, CallsAreIdle, CommandFrame, LifecycleFrame, AccountFrame, ShutdownFrame
    DEF Next, Idle
  <2>2. DOMAIN queue' = {}
    BY <2>1
  <2> QED  BY <2>2 DEF QueueAgrees
<1>2. CASE tab' = tab /\ UNCHANGED <<eligible, queue>>
  BY <1>2 DEF ListenInv, QueueAgrees
<1>3. CASE RunQueued
  <2>1. eligible' = eligible /\ tab' = tab /\ queue' = Tail(queue) /\ queue # <<>>
    BY <1>3 DEF RunQueued
  <2> HIDE DEF Q
  <2>2. \A i \in DOMAIN queue' : i + 1 \in DOMAIN queue /\ queue'[i] = queue[i + 1]
    BY <1>0, <2>1, HeadTailProperties, LenProperties
  <2> QED  BY <2>1, <2>2 DEF ListenInv, QueueAgrees
<1>4. ASSUME NEW e \in effects, DeliverThrows(e)
      PROVE  QueueAgrees'
  <2> DEFINE q == [actor |-> e.to, recipients |-> Deaf(e.to)]
  <2>1. /\ eligible' = Deaf(e.to) /\ tab' = tab /\ tab[e.to] = "connecting"
        /\ queue' = Append(queue, q) /\ q.recipients = Deaf(e.to)
    BY <1>4 DEF DeliverThrows
  <2>2. q \in Q
    <3>1. e.to \in Actors
      BY <1>0 DEF SafeInv, TypeInv, TypeOK, Effect
    <3> QED  BY <1>0, <3>1, ListeningType DEF SafeInv, TypeInv
  <2> HIDE DEF q, Q
  <2>3. \A i \in DOMAIN queue' :
          \/ i \in DOMAIN queue /\ queue'[i] = queue[i]
          \/ queue'[i] = q
    BY <1>0, <2>1, <2>2, AppendProperties, LenProperties
  <2>4. \A acct \in Accounts : eligible'[acct] = eligible[acct] \ {e.to}
    BY <2>1, DeafIs
  <2> SUFFICES ASSUME NEW i \in DOMAIN queue', NEW acct \in Accounts
               PROVE  /\ eligible'[acct] \subseteq queue'[i].recipients[acct]
                      /\ \A a \in queue'[i].recipients[acct] :
                           tab'[a] = "open" => a \in eligible'[acct]
    BY DEF QueueAgrees
  <2>5. CASE queue'[i] = q
    BY <2>1, <2>4, <2>5
  <2>6. CASE i \in DOMAIN queue /\ queue'[i] = queue[i]
    <3>1. /\ eligible[acct] \subseteq queue[i].recipients[acct]
          /\ \A a \in queue[i].recipients[acct] :
               tab[a] = "open" => a \in eligible[acct]
      BY <2>6 DEF ListenInv, QueueAgrees
    <3> QED  BY <2>1, <2>4, <2>6, <3>1
  <2> QED  BY <2>3, <2>5, <2>6
<1> QED  BY <1>1, <1>2, <1>3, <1>4, DispatchFrame

\* Every step keeps it.
LEMMA NextListen ==
  ASSUME MayRefuse = FALSE, ListenInv, [Next]_vars
  PROVE  ListenInv'
<1>1. HeldInv'
  BY NextHeld DEF ListenInv
<1>2. CASE UNCHANGED vars
  BY <1>1, <1>2 DEF vars, dispatch, ListenInv, ListenersAreThere, QueueAgrees
<1>3. CASE Next
  BY <1>1, <1>3, NoneFail, ListenersStay, QueueStays DEF ListenInv
<1> QED  BY <1>2, <1>3

\* Nobody listens at the start.
LEMMA InitListen == Init => ListenInv
<1> SUFFICES ASSUME Init  PROVE ListenInv
  OBVIOUS
<1>1. HeldInv
  BY InitHeld
<1>2. failed = <<>> /\ \A acct \in Accounts : eligible[acct] = {}
  BY DEF Init
<1>3. DOMAIN queue = {}
  BY DEF Init
<1> QED  BY <1>1, <1>2, <1>3 DEF ListenInv, ListenersAreThere, QueueAgrees

-------------------------------------------------------------------------------
(* What the tabs play and show is what the authority decided.                *)

\* An effect that ends its recipient's playback, and one that allows it.
EndsPlay(e) ==
  \/ e.kind = "stop"
  \/ e.kind = "snapshot" /\ (e.owner # e.to \/ e.terminal)

Grants(e) == e.kind = "snapshot" /\ e.owner = e.to /\ ~e.terminal

\* Among the effects E one ends b's playback before any allows another's.
StopsFirst(E, b) ==
  \E e \in E : /\ e.to = b
               /\ EndsPlay(e)
               /\ \A f \in E : Grants(f) => Before(e, f)

\* The snapshots under way say what the authority has on record, and the tabs
\* that will read them listen.
SnapshotsAgree ==
  \A e \in effects : e.kind = "snapshot" =>
    /\ e.key \in Known
    /\ e.generation = sessions[e.key].generation
    /\ e.owner = sessions[e.key].owner
    /\ e.terminal = sessions[e.key].terminal
    /\ Live \subseteq {e.key}
    /\ ~destroyed /\ e.key[1] = account /\ tab[e.to] = "open"
         => e.to \in eligible[account]

\* A tab that plays owns the live session, or its end is under way, before any
\* other tab's grant.
PlayersStop ==
  \A a \in enacting : tab[a] = "open" =>
    (\E k \in Live : sessions[k].owner = a) \/ StopsFirst(effects, a)

\* A listener that has been told of the session knows its generation, or will.
Knows(a) ==
  \A k \in LiveOf(account) :
    \/ seen[a] = 0
    \/ seen[a] = sessions[k].generation
    \/ \E e \in effects : e.to = a /\ e.kind = "snapshot" /\ e.key = k

Follow ==
  account # NoAccount /\ ~destroyed => \A a \in eligible[account] : Knows(a)

\* A tab that does not listen has been told of nothing.
DeafSeeNothing ==
  /\ \A a \in Actors : tab[a] = "unopened" => seen[a] = 0
  /\ account # NoAccount /\ ~destroyed =>
       \A a \in Actors : tab[a] = "open" /\ a \notin eligible[account] => seen[a] = 0

PlayInv ==
  /\ ListenInv
  /\ SnapshotsAgree /\ PlayersStop /\ OnePlayer
  /\ Follow /\ DeafSeeNothing

\* The order of a stop and a snapshot.
LEMMA StopPrecedes ==
  ASSUME NEW e, NEW f, e.kind = "stop", f.kind = "snapshot",
         e.generation \in Nat, f.generation \in Nat, e.generation <= f.generation
  PROVE  Before(e, f)
<1>1. Phase["stop"] = 0 /\ Phase["snapshot"] = 3
  BY DEF Phase
<1>2. Phase[e.kind] < Phase[f.kind]
  BY <1>1
<1>3. CASE e.generation < f.generation
  BY <1>3 DEF Before
<1>4. CASE ~(e.generation < f.generation)
  <2>1. e.generation = f.generation
    BY <1>4
  <2> QED  BY <1>2, <2>1 DEF Before
<1> QED  BY <1>3, <1>4

\* What tab b has heard stays, as far as it counts: it is told of nothing new,
\* and does not leave or join the account's listeners.
HearsSame(b) ==
  \/ seen'[b] = 0
  \/ /\ seen'[b] = seen[b]
     /\ tab'[b] = "unopened" => tab[b] = "unopened"
     /\ account' # NoAccount /\ ~destroyed' =>
          /\ account' = account /\ ~destroyed
          /\ b \in eligible'[account] => b \in eligible[account]
          /\ tab'[b] = "open" => /\ tab[b] = "open"
                                 /\ b \in eligible[account] => b \in eligible'[account]

\* A tab that hears the same and does not listen is still told of nothing.
LEMMA DeafStay ==
  ASSUME DeafSeeNothing, \A b \in Actors : HearsSame(b)
  PROVE  DeafSeeNothing'
<1>1. ASSUME NEW b \in Actors, tab'[b] = "unopened"
      PROVE  seen'[b] = 0
  BY <1>1 DEF DeafSeeNothing, HearsSame
<1>2. ASSUME NEW b \in Actors, account' # NoAccount, ~destroyed',
             tab'[b] = "open", b \notin eligible'[account']
      PROVE  seen'[b] = 0
  BY <1>2 DEF DeafSeeNothing, HearsSame
<1> QED  BY <1>1, <1>2 DEF DeafSeeNothing

\* A quiet step: no session changes and nothing is to be delivered.
LEMMA QuietPlays ==
  ASSUME PlayInv, ListenInv', effects = {}, effects' = {}, sessions' = sessions,
         \A a \in enacting' : tab'[a] = "open" =>
           \E k \in Live : sessions[k].owner = a,
         Follow', DeafSeeNothing'
  PROVE  PlayInv'
<1>1. Live' = Live
  BY DEF Live, Known
<1>2. SnapshotsAgree'
  BY DEF SnapshotsAgree
<1>3. PlayersStop'
  BY <1>1 DEF PlayersStop
<1>4. OnePlayer'
  <2> SUFFICES ASSUME NEW a \in enacting', NEW b \in enacting',
                      tab'[a] = "open", tab'[b] = "open"
               PROVE  a = b
    BY DEF OnePlayer
  <2>1. PICK j \in Live : sessions[j].owner = a
    OBVIOUS
  <2>2. PICK k \in Live : sessions[k].owner = b
    OBVIOUS
  <2>3. j = k
    BY AtMostOneLive DEF PlayInv, ListenInv, HeldInv
  <2> QED  BY <2>1, <2>2, <2>3
<1> QED  BY <1>2, <1>3, <1>4 DEF PlayInv

\* When nothing is under way, a tab that plays owns the session.
LEMMA PlayersOwnNow ==
  ASSUME PlayInv, effects = {}, NEW a \in enacting, tab[a] = "open"
  PROVE  \E k \in Live : sessions[k].owner = a
BY DEF PlayInv, PlayersStop, StopsFirst

\* And a listener that has been told of the session knows its generation.
LEMMA ListenersKnowNow ==
  ASSUME PlayInv, effects = {}, account # NoAccount, ~destroyed,
         NEW a \in eligible[account], NEW k \in LiveOf(account), seen[a] # 0
  PROVE  seen[a] = sessions[k].generation
BY DEF PlayInv, Follow, Knows

\* A quiet step in which every tab hears the same.
LEMMA QuietHearing ==
  ASSUME PlayInv, ListenInv', effects = {}, effects' = {}, sessions' = sessions,
         enacting' = enacting,
         \A b \in Actors : tab'[b] = "open" => tab[b] = "open",
         \A b \in Actors : HearsSame(b)
  PROVE  PlayInv'
<1>0. /\ enacting \subseteq Actors
      /\ eligible' \in [Accounts -> SUBSET Actors]
      /\ account' \in Accounts \cup {NoAccount}
  BY DEF PlayInv, ListenInv, HeldInv, SafeInv, TypeInv, TypeOK
<1>1. \A a \in enacting' : tab'[a] = "open" => \E k \in Live : sessions[k].owner = a
  BY <1>0, PlayersOwnNow
<1>2. DeafSeeNothing'
  BY DeafStay DEF PlayInv
<1>3. Follow'
  <2> SUFFICES ASSUME account' # NoAccount, ~destroyed', NEW a \in eligible'[account'],
                      NEW k \in LiveOf(account)', seen'[a] # 0
               PROVE  seen'[a] = sessions'[k].generation
    BY DEF Follow, Knows
  <2>1. a \in Actors
    BY <1>0
  <2>2. /\ seen'[a] = seen[a] /\ account' = account /\ ~destroyed
        /\ a \in eligible[account]
    BY <2>1 DEF HearsSame
  <2>3. k \in LiveOf(account)
    BY <2>2 DEF LiveOf, Live, Known
  <2> QED  BY <2>2, <2>3, ListenersKnowNow
<1> QED  BY <1>1, <1>2, <1>3, QuietPlays

\* What is in a broadcast.
LEMMA BroadcastIs ==
  ASSUME NEW k, NEW s, NEW R
  PROVE  /\ \A e \in Broadcast(k, s, R) :
              /\ e.kind = "snapshot" /\ e.key = k /\ e.to \in R
              /\ e.generation = s.generation
              /\ e.owner = s.owner
              /\ e.terminal = s.terminal
         /\ \A a \in R : \E e \in Broadcast(k, s, R) :
              e.to = a /\ e.kind = "snapshot" /\ e.key = k
<1>1. \A e \in Broadcast(k, s, R) :
        \E a \in R : e = Tell(a, "snapshot", k, s.generation, s.owner, s.terminal)
  BY DEF Broadcast
<1>2. ASSUME NEW a
      PROVE  LET e == Tell(a, "snapshot", k, s.generation, s.owner, s.terminal)
             IN  /\ e.kind = "snapshot" /\ e.key = k /\ e.to = a
                 /\ e.generation = s.generation
                 /\ e.owner = s.owner
                 /\ e.terminal = s.terminal
                 /\ a \in R => e \in Broadcast(k, s, R)
  BY DEF Broadcast, Tell
<1> QED  BY <1>1, <1>2

\* A command about session k: it is the only one that may still play, the
\* recipients R and nobody else are sent its new state, and the owner it had
\* keeps it or is stopped first.
Tells(k, R) ==
  /\ k \in Known' /\ Live' \subseteq {k}
  /\ \A e \in effects' : e.kind = "snapshot" => e \in Broadcast(k, sessions'[k], R)
  /\ Broadcast(k, sessions'[k], R) \subseteq effects'
  /\ \A j \in Live : sessions[j].owner # NoActor =>
       \/ \E i \in Live' : sessions'[i].owner = sessions[j].owner
       \/ StopsFirst(effects', sessions[j].owner)

\* The recipients are the listeners, as far as their sockets are open.
Addresses(k, R) ==
  ~destroyed' /\ k[1] = account' =>
    /\ k \in Live' => eligible'[account'] \subseteq R
    /\ \A a \in R : tab'[a] = "open" => a \in eligible'[account']

\* Such a command keeps tabs and authority together.
LEMMA TellsPlays ==
  ASSUME PlayInv, ListenInv', effects = {}, NEW k, NEW R, Tells(k, R), Addresses(k, R),
         enacting' = enacting,
         \A b \in Actors : tab'[b] = "open" => tab[b] = "open",
         DeafSeeNothing'
  PROVE  PlayInv'
<1>0. enacting \subseteq Actors /\ NoActor \notin Actors
  BY ConstantsAssumption DEF PlayInv, ListenInv, HeldInv, SafeInv, TypeInv, TypeOK
<1>1. SnapshotsAgree'
  <2> SUFFICES ASSUME NEW e \in effects', e.kind = "snapshot"
               PROVE  /\ e.key \in Known'
                      /\ e.generation = sessions'[e.key].generation
                      /\ e.owner = sessions'[e.key].owner
                      /\ e.terminal = sessions'[e.key].terminal
                      /\ Live' \subseteq {e.key}
                      /\ ~destroyed' /\ e.key[1] = account' /\ tab'[e.to] = "open"
                           => e.to \in eligible'[account']
    BY DEF SnapshotsAgree
  <2>1. e \in Broadcast(k, sessions'[k], R)
    BY DEF Tells
  <2>2. /\ e.key = k /\ e.to \in R
        /\ e.generation = sessions'[k].generation
        /\ e.owner = sessions'[k].owner
        /\ e.terminal = sessions'[k].terminal
    BY <2>1, BroadcastIs
  <2> QED  BY <2>2 DEF Tells, Addresses
<1>2. PlayersStop'
  <2> SUFFICES ASSUME NEW a \in enacting', tab'[a] = "open"
               PROVE  \/ \E i \in Live' : sessions'[i].owner = a
                      \/ StopsFirst(effects', a)
    BY DEF PlayersStop
  <2>1. a \in Actors /\ a \in enacting /\ tab[a] = "open"
    BY <1>0
  <2>2. PICK j \in Live : sessions[j].owner = a
    BY <2>1, PlayersOwnNow
  <2>3. sessions[j].owner # NoActor
    BY <1>0, <2>1, <2>2
  <2> QED  BY <2>2, <2>3 DEF Tells
<1>3. OnePlayer'
  BY <1>0 DEF PlayInv, OnePlayer
<1>4. Follow'
  <2> SUFFICES ASSUME account' # NoAccount, ~destroyed', NEW a \in eligible'[account'],
                      NEW i \in LiveOf(account)'
               PROVE  \E e \in effects' : e.to = a /\ e.kind = "snapshot" /\ e.key = i
    BY DEF Follow, Knows
  <2>1. i \in Live' /\ i[1] = account' /\ i = k
    BY DEF LiveOf, Tells
  <2>2. a \in R
    BY <2>1 DEF Addresses
  <2>3. \E e \in Broadcast(k, sessions'[k], R) :
          e.to = a /\ e.kind = "snapshot" /\ e.key = k
    BY <2>2, BroadcastIs
  <2> QED  BY <2>1, <2>3 DEF Tells
<1> QED  BY <1>1, <1>2, <1>3, <1>4 DEF PlayInv

\* The stop command for an owner comes before any grant of a later generation.
LEMMA StopOwnerStops ==
  ASSUME SafeInv, NEW j \in Live, NEW g \in Nat, sessions[j].owner # NoActor,
         NEW E \in SUBSET Effect, StopOwner(j, g) \subseteq E,
         \A f \in E : Grants(f) => g <= f.generation
  PROVE  StopsFirst(E, sessions[j].owner)
<1> DEFINE e == Tell(sessions[j].owner, "stop", j, g, NoActor, FALSE)
<1>1. e \in E
  BY DEF StopOwner
<1>2. e.to = sessions[j].owner /\ e.kind = "stop" /\ e.generation = g
  BY DEF Tell
<1> HIDE DEF e
<1>3. ASSUME NEW f \in E, Grants(f)
      PROVE  Before(e, f)
  <2>1. f.kind = "snapshot" /\ f.generation \in Nat /\ g <= f.generation
    BY <1>3 DEF Grants, Effect
  <2> QED  BY <1>2, <2>1, StopPrecedes
<1> QED  BY <1>1, <1>2, <1>3 DEF StopsFirst, EndsPlay

\* An ownerless or terminal session grants nothing.
LEMMA NoGrants ==
  ASSUME NEW k, NEW s, NEW R \in SUBSET Actors, s.owner = NoActor \/ s.terminal
  PROVE  \A e \in Broadcast(k, s, R) : ~Grants(e)
<1>1. ASSUME NEW e \in Broadcast(k, s, R), Grants(e)
      PROVE  FALSE
  <2>1. e.to \in Actors /\ e.owner = s.owner /\ e.terminal = s.terminal
    BY BroadcastIs
  <2> QED  BY <1>1, <2>1, ConstantsAssumption DEF Grants
<1> QED  BY <1>1

\* No stop command is a snapshot.
LEMMA StopsAreStops ==
  ASSUME NEW j, NEW g
  PROVE  \A e \in StopOwner(j, g) : e.kind = "stop"
BY DEF StopOwner, Tell

\* A sweep that hits a session stops its owner and tells the recipients.
LEMMA SweptTells ==
  ASSUME SafeInv, TypeInv', NEW k \in Live, NEW A, NEW ends,
         NEW R \in [Accounts -> SUBSET Actors], SweptOne(k, A, ends, R)
  PROVE  Tells(k, R[k[1]])
<1> DEFINE g == nextGeneration + 1
           B == Broadcast(k, sessions'[k], R[k[1]])
<1>1. /\ k \in Known' /\ Live = {k} /\ Live' \subseteq {k}
      /\ effects' = StopOwner(k, g) \cup B
      /\ sessions'[k].owner = NoActor
      /\ sessions'[k].generation = g
  BY DEF SweptOne, Live
<1>2. R[k[1]] \in SUBSET Actors /\ g \in Nat /\ effects' \in SUBSET Effect
  BY DEF Live, SafeInv, TypeInv, TypeOK, Keys
<1>3. \A f \in effects' : ~Grants(f)
  <2>1. \A f \in StopOwner(k, g) : ~Grants(f)
    BY StopsAreStops DEF Grants
  <2>2. \A f \in B : ~Grants(f)
    BY <1>1, <1>2, NoGrants
  <2> QED  BY <1>1, <2>1, <2>2
<1>4. sessions[k].owner # NoActor => StopsFirst(effects', sessions[k].owner)
  <2> HIDE DEF g, B
  <2> QED  BY <1>1, <1>2, <1>3, StopOwnerStops
<1>5. \A e \in effects' : e.kind = "snapshot" => e \in B
  BY <1>1, StopsAreStops
<1> QED  BY <1>1, <1>4, <1>5 DEF Tells

\* A command on the live session tells the recipients of it.
LEMMA CommitTells ==
  ASSUME SafeInv, NEW k \in Live, NEW s \in Session, NEW active, NEW others, NEW R,
         Commit(k, s, active, others \cup Broadcast(k, s, R)),
         \A e \in others : e.kind # "snapshot",
         sessions[k].owner # NoActor =>
           \/ ~s.terminal /\ s.owner = sessions[k].owner
           \/ StopsFirst(others \cup Broadcast(k, s, R), sessions[k].owner)
  PROVE  Tells(k, R)
<1>1. /\ k \in Known /\ Live = {k} /\ Known' = Known
      /\ sessions'[k] = s
      /\ Live' = IF s.terminal THEN {} ELSE {k}
      /\ effects' = others \cup Broadcast(k, s, R)
  BY CommitHits
<1> QED  BY <1>1 DEF Tells

\* The sender of a command, if it did not listen before, had been told nothing.
LEMMA CommandHearing ==
  ASSUME PlayInv, NEW a \in Actors, Command(a)
  PROVE  /\ DeafSeeNothing'
         /\ \A b \in Actors : HearsSame(b)
<1>1. /\ account # NoAccount /\ ~destroyed /\ tab[a] = "open"
      /\ eligible' = Listening(a)
      /\ account' = account /\ destroyed' = destroyed /\ tab' = tab /\ seen' = seen
  BY CommandFrame DEF Commands, MayCall, history
<1>2. account \in Accounts /\ SafeInv
  BY <1>1 DEF PlayInv, ListenInv, HeldInv, SafeInv, TypeInv, TypeOK
<1>3. eligible'[account] = eligible[account] \cup {a}
  BY <1>1, <1>2, ListeningIs
<1>4. ASSUME NEW b \in Actors
      PROVE  HearsSame(b)
  <2>1. CASE b = a /\ a \notin eligible[account]
    <3>1. seen[a] = 0
      BY <1>1, <2>1 DEF PlayInv, DeafSeeNothing
    <3> QED  BY <1>1, <2>1, <3>1 DEF HearsSame
  <2>2. CASE ~(b = a /\ a \notin eligible[account])
    <3>1. b \in eligible'[account] <=> b \in eligible[account]
      BY <1>3, <2>2
    <3> QED  BY <1>1, <3>1 DEF HearsSame
  <2> QED  BY <2>1, <2>2
<1> QED  BY <1>4, DeafStay DEF PlayInv

\* A command that tells the listeners of the account's session.
LEMMA CommandTellsPlays ==
  ASSUME PlayInv, ListenInv', NEW a \in Actors, Command(a), NEW k,
         Tells(k, eligible'[account])
  PROVE  PlayInv'
<1>1. /\ effects = {}
      /\ account' = account /\ tab' = tab /\ enacting' = enacting
  BY CommandFrame DEF Commands, MayCall, Idle, history
<1>2. Addresses(k, eligible'[account])
  BY <1>1 DEF Addresses
<1> QED  BY <1>1, <1>2, CommandHearing, TellsPlays

\* Every command of a tab.
LEMMA CommandPlays ==
  ASSUME PlayInv, ListenInv', NEW a \in Actors, Command(a)
  PROVE  PlayInv'
<1> DEFINE L == eligible'[account]
<1>0. /\ SafeInv /\ SafeInv' /\ Idle /\ ~destroyed /\ account # NoAccount
      /\ account \in Accounts
      /\ account' = account
      /\ eligible' = Listening(a)
      /\ L \in SUBSET Actors
      /\ nextGeneration \in Nat
      /\ effects' \in SUBSET Effect
  <2>1. /\ SafeInv /\ SafeInv'
        /\ Idle /\ ~destroyed /\ account # NoAccount /\ account' = account
        /\ eligible' = Listening(a)
    BY CommandFrame DEF Commands, MayCall, PlayInv, ListenInv, HeldInv
  <2> QED  BY <2>1 DEF SafeInv, TypeInv, TypeOK
<1>1. ASSUME NEW k \in Live
      PROVE  /\ k \in Known /\ sessions[k] \in Session
             /\ sessions[k].owner \in Actors \cup {NoActor}
             /\ sessions[k].owner # NoActor => sessions[k].owner \in eligible[k[1]]
             /\ k[1] = account
  <2>1. /\ k \in Known /\ sessions[k] \in Session /\ k[1] = account
        /\ sessions[k].owner \in Actors \cup {NoActor}
    BY <1>0 DEF Live, SafeInv, TypeInv, TypeOK, OnlySignedInPlays, Session
  <2>2. DOMAIN queue = {}
    BY <1>0 DEF Idle
  <2> QED
    BY <1>0, <2>1, <2>2
    DEF PlayInv, ListenInv, HeldInv, SessionsAreHeld, OwnerIsReachable
<1>2. ASSUME NEW id \in SessionIds, NEW r \in RequestIds, NEW answers \in Answers,
             Create(a, id, r, answers)
      PROVE  PlayInv'
  <2> DEFINE k == <<account, id>>
  <2>1. PICK g \in Nat : CreatedAs(k, a, g, answers)
    BY <1>0, <1>2, CreateHits
  <2> DEFINE stops == UNION {StopOwner(j, nextGeneration + 1) : j \in Live}
             told == {Tell(a, kind, k, g, a, FALSE) : kind \in answers}
             B == Broadcast(k, sessions'[k], L)
  <2> HIDE DEF k
  <2>2. /\ effects' = stops \cup told \cup B
        /\ k \in Known' /\ Live' = {k}
        /\ sessions'[k].generation = g
        /\ Live # {} => g > nextGeneration + 1
    BY <2>1 DEF CreatedAs
  <2>3. \A e \in stops \cup told : e.kind # "snapshot"
    <3>1. \A e \in stops : e.kind = "stop"
      BY StopsAreStops
    <3>2. \A e \in told : e.kind \in {"result", "grant"}
      BY DEF Tell, Answers
    <3> QED  BY <3>1, <3>2
  <2>4. ASSUME NEW j \in Live, sessions[j].owner # NoActor
        PROVE  StopsFirst(effects', sessions[j].owner)
    <3>1. StopOwner(j, nextGeneration + 1) \subseteq effects'
      BY <2>2
    <3>2. \A f \in effects' : Grants(f) => nextGeneration + 1 <= f.generation
      <4>1. ASSUME NEW f \in effects', Grants(f)
            PROVE  nextGeneration + 1 <= f.generation
        <5>1. f \in B
          BY <2>2, <2>3, <4>1 DEF Grants
        <5>2. f.generation = g
          BY <2>2, <5>1, BroadcastIs
        <5>3. g > nextGeneration + 1
          BY <2>2
        <5> QED  BY <1>0, <5>2, <5>3
      <4> QED  BY <4>1
    <3>3. nextGeneration + 1 \in Nat
      BY <1>0
    <3> HIDE DEF L, stops, told, B
    <3> QED  BY <1>0, <2>4, <3>1, <3>2, <3>3, StopOwnerStops
  <2> HIDE DEF stops, told
  <2>5. Tells(k, L)
    BY <2>2, <2>3, <2>4 DEF Tells
  <2> QED  BY <2>5, CommandTellsPlays
<1>3. ASSUME NEW k \in Live, NEW g \in 1..nextGeneration, NEW r \in RequestIds,
             NEW o \in {a, NoActor}, NEW others \in SUBSET Effect, NEW active,
             Commit(k, Reassigned(k, o, g, r), active,
                    others \cup Broadcast(k, Reassigned(k, o, g, r), L)),
             StopOwner(k, nextGeneration + 1) \subseteq others,
             \A e \in others : e.kind # "snapshot"
      PROVE  PlayInv'
  <2>0. GivenTo(Reassigned(k, o, g, r), k, o)
    <3>1. o \in Actors \cup {NoActor}
      OBVIOUS
    <3> QED  BY <1>0, <3>1, ReassignedFields
  <2> DEFINE s == Reassigned(k, o, g, r)
             E == others \cup Broadcast(k, s, L)
  <2>1. s \in Session /\ s.generation = nextGeneration + 1
    BY <2>0 DEF GivenTo
  <2>2. E \in SUBSET Effect
    <3>1. k \in Keys
      BY <1>0, <1>1 DEF SafeInv, TypeInv, TypeOK
    <3> QED  BY <1>0, <2>1, <3>1, BroadcastType
  <2>3. ASSUME sessions[k].owner # NoActor
        PROVE  StopsFirst(E, sessions[k].owner)
    <3>1. \A f \in E : Grants(f) => nextGeneration + 1 <= f.generation
      <4>1. ASSUME NEW f \in E, Grants(f)
            PROVE  nextGeneration + 1 <= f.generation
        <5>1. f \in Broadcast(k, s, L)
          BY <1>3, <4>1 DEF Grants
        <5>2. f.generation = nextGeneration + 1
          BY <2>1, <5>1, BroadcastIs
        <5> QED  BY <1>0, <5>2
      <4> QED  BY <4>1
    <3>2. nextGeneration + 1 \in Nat /\ StopOwner(k, nextGeneration + 1) \subseteq E
      BY <1>0, <1>3
    <3> HIDE DEF s, E
    <3> QED  BY <1>0, <2>2, <2>3, <3>1, <3>2, StopOwnerStops
  <2>4. Tells(k, L)
    <3> HIDE DEF s, L
    <3> QED  BY <1>0, <1>3, <2>1, <2>3, CommitTells DEF s
  <2> QED  BY <2>4, CommandTellsPlays
<1>4. ASSUME NEW k \in Live, NEW g \in 1..nextGeneration, NEW r \in RequestIds,
             Transfer(a, k, g, r)
      PROVE  PlayInv'
  <2>0. GivenTo(Reassigned(k, a, g, r), k, a)
    <3>1. a \in Actors \cup {NoActor}
      OBVIOUS
    <3> QED  BY <1>0, <3>1, ReassignedFields
  <2> DEFINE s == Reassigned(k, a, g, r)
             others == StopOwner(k, nextGeneration + 1)
                       \cup {Tell(a, "grant", k, nextGeneration + 1, a, FALSE)}
  <2>1. s.generation = nextGeneration + 1
    BY <2>0 DEF GivenTo
  <2>2. Commit(k, s, [activeByAccount EXCEPT ![account] = k[2]],
               others \cup Broadcast(k, s, L))
    <3> HIDE DEF L, s
    <3>1. Commit(k, s, [activeByAccount EXCEPT ![account] = k[2]],
                 StopOwner(k, s.generation)
                 \cup {Tell(a, "grant", k, s.generation, a, FALSE)}
                 \cup Broadcast(k, s, L))
      BY <1>4 DEF Transfer, s, L
    <3> QED  BY <2>1, <3>1
  <2>3. \A e \in others : e.kind # "snapshot"
    BY StopsAreStops DEF Tell
  <2>4. others \in SUBSET Effect
    <3>1. k \in Keys /\ k \in Known /\ nextGeneration + 1 \in Nat
      BY <1>0, <1>1 DEF SafeInv, TypeInv, TypeOK
    <3>2. Tell(a, "grant", k, nextGeneration + 1, a, FALSE) \in Effect
      BY <3>1, TellType
    <3>3. StopOwner(k, nextGeneration + 1) \subseteq Effect
      BY <1>0, <3>1, StopOwnerType DEF SafeInv, TypeInv
    <3> QED  BY <3>2, <3>3
  <2>5. StopOwner(k, nextGeneration + 1) \subseteq others
    OBVIOUS
  <2> HIDE DEF others, L
  <2> QED  BY <1>3, <2>2, <2>3, <2>4, <2>5 DEF s
<1>5. ASSUME NEW k \in Live, NEW g \in 1..nextGeneration, NEW r \in RequestIds,
             Stop(a, k, g, r)
      PROVE  PlayInv'
  <2>0. GivenTo(Reassigned(k, NoActor, g, r), k, NoActor)
    <3>1. NoActor \in Actors \cup {NoActor}
      OBVIOUS
    <3> QED  BY <1>0, <3>1, ReassignedFields
  <2> DEFINE s == Reassigned(k, NoActor, g, r)
             others == StopOwner(k, nextGeneration + 1)
  <2>1. s.generation = nextGeneration + 1
    BY <2>0 DEF GivenTo
  <2>2. Commit(k, s, [activeByAccount EXCEPT ![account] = k[2]],
               others \cup Broadcast(k, s, L))
    <3> HIDE DEF L, s
    <3>1. Commit(k, s, [activeByAccount EXCEPT ![account] = k[2]],
                 StopOwner(k, s.generation) \cup Broadcast(k, s, L))
      BY <1>5 DEF Stop, s, L
    <3> QED  BY <2>1, <3>1
  <2>3. \A e \in others : e.kind # "snapshot"
    BY StopsAreStops
  <2>4. others \in SUBSET Effect
    <3>1. k \in Known /\ nextGeneration + 1 \in Nat
      BY <1>0, <1>1
    <3> QED  BY <1>0, <3>1, StopOwnerType DEF SafeInv, TypeInv
  <2>5. StopOwner(k, nextGeneration + 1) \subseteq others
    OBVIOUS
  <2> HIDE DEF others, L
  <2> QED  BY <1>3, <2>2, <2>3, <2>4, <2>5 DEF s
<1>6. ASSUME NEW k \in Live, Destroy(a, k)
      PROVE  PlayInv'
  <2> DEFINE s == Ended(sessions[k], nextGeneration + 1)
             o == sessions[k].owner
             B == Broadcast(k, s, L)
  <2>1. s \in Session /\ s.terminal = TRUE
    BY <1>0, EndedFields
  <2>2. PICK active : Commit(k, s, active, B)
    BY <1>6 DEF Destroy
  <2>3. ASSUME o # NoActor
        PROVE  StopsFirst(B, o)
    <3>1. o \in L
      BY <1>0, <1>1, <2>3, ListeningIs
    <3> HIDE DEF s, o, L
    <3>2. PICK e \in B : e.to = o /\ e.kind = "snapshot"
      BY <3>1, BroadcastIs
    <3>3. e.terminal
      BY <2>1, BroadcastIs
    <3>4. \A f \in B : ~Grants(f)
      BY <1>0, <2>1, NoGrants
    <3> QED  BY <3>2, <3>3, <3>4 DEF StopsFirst, EndsPlay
  <2>4. Tells(k, L)
    <3> DEFINE none == {}
    <3>1. none \cup B = B /\ \A e \in none : e.kind # "snapshot"
      OBVIOUS
    <3> HIDE DEF s, L, none
    <3>2. Commit(k, s, active, none \cup Broadcast(k, s, L))
      BY <2>2, <3>1
    <3>3. sessions[k].owner # NoActor
            => StopsFirst(none \cup Broadcast(k, s, L), sessions[k].owner)
      BY <2>3, <3>1
    <3> QED  BY <1>0, <2>1, <3>1, <3>2, <3>3, CommitTells
  <2> QED  BY <2>4, CommandTellsPlays
<1>7. ASSUME NEW k \in Live,
             \/ Update(a, k)
             \/ \E g \in 1..nextGeneration :
                  \/ \E status \in {"stopped", "playing"} : ReportState(a, k, g, status)
                  \/ ReportCapabilities(a, k, g)
                  \/ Route(a, k, g)
      PROVE  PlayInv'
  <2>1. PICK s \in Session, told \in SUBSET Effect :
          /\ Report(a, k, s, told)
          /\ s.generation = sessions[k].generation
          /\ s.owner = sessions[k].owner
          /\ s.origin = sessions[k].origin
          /\ s.terminal = FALSE
          /\ \A e \in told : e.kind = "route"
    BY <1>0, <1>7, ReportKinds
  <2>2. Commit(k, s, [activeByAccount EXCEPT ![account] = k[2]],
               told \cup Broadcast(k, s, L))
    BY <2>1 DEF Report
  <2>3. \A e \in told : e.kind # "snapshot"
    BY <2>1
  <2> HIDE DEF L
  <2>4. Tells(k, L)
    BY <1>0, <2>1, <2>2, <2>3, CommitTells
  <2> QED  BY <2>4, CommandTellsPlays DEF L
<1>8. CASE Rejected(a)
  <2>1. /\ effects = {} /\ effects' = {} /\ sessions' = sessions
        /\ enacting' = enacting /\ tab' = tab
    BY <1>0, <1>8 DEF Rejected, Idle, dispatch, authority, history
  <2> QED  BY <2>1, CommandHearing, QuietHearing
<1> QED  BY <1>2, <1>4, <1>5, <1>6, <1>7, <1>8 DEF Command

\* A delivered effect: the tab does what it says.
LEMMA SentPlays ==
  ASSUME PlayInv, ListenInv', NEW e \in effects, DeliverSent(e)
  PROVE  PlayInv'
<1>0. /\ SafeInv
      /\ e \in Effect /\ e.to \in Actors
      /\ seen \in [Actors -> Nat] /\ enacting \subseteq Actors
      /\ eligible \in [Accounts -> SUBSET Actors]
      /\ account \in Accounts \cup {NoAccount}
  BY DEF PlayInv, ListenInv, HeldInv, SafeInv, TypeInv, TypeOK, Effect
<1>1. /\ effects' = effects \ {e}
      /\ tab[e.to] # "connecting"
      /\ sessions' = sessions /\ Live' = Live /\ Known' = Known
      /\ eligible' = eligible /\ account' = account /\ destroyed' = destroyed
      /\ tab' = tab
      /\ LiveOf(account)' = LiveOf(account)
      /\ \A f \in effects : ~Before(f, e)
  BY DEF DeliverSent, authority, NextEffects, Live, Known, LiveOf
<1>2. SnapshotsAgree'
  BY <1>1 DEF PlayInv, SnapshotsAgree
<1>3. ASSUME NEW a, a # e.to, StopsFirst(effects, a)
      PROVE  StopsFirst(effects', a)
  BY <1>1, <1>3 DEF StopsFirst
<1>4. ASSUME NEW a \in Actors, a # e.to, Knows(a), seen'[a] = seen[a]
      PROVE  Knows(a)'
  BY <1>1, <1>4 DEF Knows
<1>5. CASE tab[e.to] # "open"
  <2>1. enacting' = enacting /\ seen' = seen
    BY <1>5 DEF DeliverSent, history
  <2>2. PlayersStop'
    BY <1>1, <1>3, <1>5, <2>1 DEF PlayInv, PlayersStop
  <2>3. OnePlayer'
    BY <1>1, <2>1 DEF PlayInv, OnePlayer
  <2>4. Follow'
    <3> SUFFICES ASSUME account # NoAccount, ~destroyed, NEW a \in eligible[account]
                 PROVE  Knows(a)'
      BY <1>1 DEF Follow
    <3>1. a \in Actors /\ tab[a] \in {"connecting", "open"}
      BY <1>0 DEF PlayInv, ListenInv, ListenersAreThere
    <3>2. a # e.to
      BY <1>1, <1>5, <3>1
    <3>3. Knows(a)
      BY DEF PlayInv, Follow
    <3> QED  BY <1>4, <2>1, <3>1, <3>2, <3>3
  <2>5. DeafSeeNothing'
    BY <1>1, <2>1 DEF PlayInv, DeafSeeNothing
  <2> QED  BY <1>2, <2>2, <2>3, <2>4, <2>5 DEF PlayInv
<1>6. CASE tab[e.to] = "open"
  <2>1. /\ enacting' = IF Grants(e) THEN enacting \cup {e.to}
                       ELSE IF e.kind \in {"stop", "snapshot"} THEN enacting \ {e.to}
                       ELSE enacting
        /\ seen' = IF e.kind = "snapshot" /\ e.key[1] = account
                   THEN [seen EXCEPT ![e.to] = e.generation] ELSE seen
    BY <1>6 DEF DeliverSent, Receives, Grants
  <2>2. ASSUME Grants(e)
        PROVE  /\ e.key \in Live /\ sessions[e.key].owner = e.to
               /\ Live = {e.key}
    BY <2>2 DEF PlayInv, SnapshotsAgree, Grants, Live
  <2>3. PlayersStop'
    <3> SUFFICES ASSUME NEW a \in enacting', tab[a] = "open"
                 PROVE  \/ \E k \in Live : sessions[k].owner = a
                        \/ StopsFirst(effects', a)
      BY <1>1 DEF PlayersStop
    <3>1. CASE a # e.to
      <4>1. a \in enacting
        BY <2>1, <3>1
      <4> QED  BY <1>3, <3>1, <4>1 DEF PlayInv, PlayersStop
    <3>2. CASE a = e.to /\ Grants(e)
      BY <2>2, <3>2
    <3>3. CASE a = e.to /\ ~Grants(e)
      <4>1. a \in enacting /\ ~EndsPlay(e)
        BY <2>1, <3>3 DEF EndsPlay
      <4>2. StopsFirst(effects, a) => StopsFirst(effects', a)
        BY <1>1, <4>1 DEF StopsFirst
      <4> QED  BY <4>1, <4>2 DEF PlayInv, PlayersStop
    <3> QED  BY <3>1, <3>2, <3>3
  <2>4. OnePlayer'
    <3>1. CASE ~Grants(e)
      <4>1. enacting' \subseteq enacting
        BY <2>1, <3>1
      <4> QED  BY <1>1, <4>1 DEF PlayInv, OnePlayer
    <3>2. CASE Grants(e)
      <4>1. ASSUME NEW b \in enacting, tab[b] = "open"
            PROVE  b = e.to
        <5>1. ~StopsFirst(effects, b)
          BY <1>1, <3>2 DEF StopsFirst
        <5>2. \E k \in Live : sessions[k].owner = b
          BY <4>1, <5>1 DEF PlayInv, PlayersStop
        <5> QED  BY <2>2, <3>2, <5>2
      <4>2. enacting' = enacting \cup {e.to}
        BY <2>1, <3>2
      <4> QED  BY <1>1, <4>1, <4>2 DEF OnePlayer
    <3> QED  BY <3>1, <3>2
  <2>5. Follow'
    <3> SUFFICES ASSUME account # NoAccount, ~destroyed, NEW a \in eligible[account]
                 PROVE  Knows(a)'
      BY <1>1 DEF Follow
    <3>1. a \in Actors
      BY <1>0
    <3>2. Knows(a)
      BY DEF PlayInv, Follow
    <3>3. CASE a # e.to
      <4>1. seen'[a] = seen[a]
        BY <1>0, <2>1, <3>1, <3>3
      <4> QED  BY <1>4, <3>1, <3>2, <3>3, <4>1
    <3>4. CASE a = e.to /\ e.kind # "snapshot"
      <4>1. seen' = seen
        BY <2>1, <3>4
      <4> QED  BY <1>1, <3>2, <3>4, <4>1 DEF Knows
    <3>5. CASE a = e.to /\ e.kind = "snapshot"
      <4>1. Live \subseteq {e.key} /\ e.generation = sessions[e.key].generation
        BY <3>5 DEF PlayInv, SnapshotsAgree
      <4>2. ASSUME NEW k \in LiveOf(account)
            PROVE  seen'[a] = sessions'[k].generation
        <5>1. k = e.key /\ k[1] = account
          BY <4>1 DEF LiveOf
        <5>2. seen' = [seen EXCEPT ![e.to] = e.generation]
          BY <2>1, <3>5, <5>1
        <5> QED  BY <1>0, <1>1, <3>5, <4>1, <5>1, <5>2
      <4> QED  BY <1>1, <4>2 DEF Knows
    <3> QED  BY <3>3, <3>4, <3>5
  <2>6. DeafSeeNothing'
    <3>1. ASSUME NEW b \in Actors, seen'[b] # seen[b]
          PROVE  b = e.to /\ e.kind = "snapshot" /\ e.key[1] = account
      BY <1>0, <2>1, <3>1
    <3>2. ASSUME NEW b \in Actors, tab[b] = "unopened"
          PROVE  seen'[b] = 0
      BY <1>6, <3>1, <3>2 DEF PlayInv, DeafSeeNothing
    <3>3. ASSUME account # NoAccount, ~destroyed, NEW b \in Actors, tab[b] = "open",
                 b \notin eligible[account]
          PROVE  seen'[b] = 0
      <4>1. seen[b] = 0
        BY <3>3 DEF PlayInv, DeafSeeNothing
      <4>2. ~(b = e.to /\ e.kind = "snapshot" /\ e.key[1] = account)
        BY <3>3 DEF PlayInv, SnapshotsAgree
      <4> QED  BY <3>1, <4>1, <4>2
    <3> QED  BY <1>1, <3>2, <3>3 DEF DeafSeeNothing
  <2> QED  BY <1>2, <2>3, <2>4, <2>5, <2>6 DEF PlayInv
<1> QED  BY <1>5, <1>6

\* A throwing socket is not open: it plays nothing, and listens no more.
LEMMA ThrowsPlays ==
  ASSUME PlayInv, ListenInv', NEW e \in effects, DeliverThrows(e)
  PROVE  PlayInv'
<1>0. /\ SafeInv
      /\ eligible \in [Accounts -> SUBSET Actors]
      /\ account \in Accounts \cup {NoAccount}
  BY DEF PlayInv, ListenInv, HeldInv, SafeInv, TypeInv, TypeOK
<1>1. /\ effects' = effects \ {e}
      /\ tab[e.to] = "connecting"
      /\ sessions' = sessions /\ Live' = Live /\ Known' = Known
      /\ account' = account /\ destroyed' = destroyed /\ tab' = tab
      /\ enacting' = enacting /\ seen' = seen
      /\ LiveOf(account)' = LiveOf(account)
      /\ \A acct \in Accounts : eligible'[acct] = eligible[acct] \ {e.to}
  BY DeafIs DEF DeliverThrows, authority, history, Live, Known, LiveOf
<1>2. \A a \in Actors : tab[a] = "open" => a # e.to
  BY <1>1
<1>3. SnapshotsAgree'
  <2> SUFFICES ASSUME NEW f \in effects', f.kind = "snapshot"
               PROVE  /\ f.key \in Known
                      /\ f.generation = sessions[f.key].generation
                      /\ f.owner = sessions[f.key].owner
                      /\ f.terminal = sessions[f.key].terminal
                      /\ Live \subseteq {f.key}
                      /\ ~destroyed /\ f.key[1] = account /\ tab[f.to] = "open"
                           => f.to \in eligible'[account]
    BY <1>1 DEF SnapshotsAgree
  <2>1. f \in effects /\ f.key \in Known
    BY <1>1 DEF PlayInv, SnapshotsAgree
  <2>2. f.key[1] \in Accounts
    BY <1>0, <2>1 DEF SafeInv, TypeInv, TypeOK, Keys
  <2> QED  BY <1>1, <2>1, <2>2 DEF PlayInv, SnapshotsAgree
<1>4. PlayersStop'
  <2>1. ASSUME NEW a, tab[a] = "open", StopsFirst(effects, a)
        PROVE  StopsFirst(effects', a)
    BY <1>1, <2>1 DEF StopsFirst
  <2> QED  BY <1>1, <2>1 DEF PlayInv, PlayersStop
<1>5. OnePlayer'
  BY <1>1 DEF PlayInv, OnePlayer
<1>6. Follow'
  <2> SUFFICES ASSUME account # NoAccount, ~destroyed, NEW a \in eligible'[account]
               PROVE  Knows(a)'
    BY <1>1 DEF Follow
  <2>1. a \in eligible[account] /\ a # e.to
    BY <1>0, <1>1
  <2>2. Knows(a)
    BY <2>1 DEF PlayInv, Follow
  <2> QED  BY <1>1, <2>1, <2>2 DEF Knows
<1>7. DeafSeeNothing'
  BY <1>0, <1>1, <1>2 DEF PlayInv, DeafSeeNothing
<1> QED  BY <1>3, <1>4, <1>5, <1>6, <1>7 DEF PlayInv

\* A sweep, whichever call it is part of.
LEMMA SweepPlays ==
  ASSUME PlayInv, ListenInv', effects = {}, NEW A \in SUBSET Live, NEW ends \in BOOLEAN,
         NEW R \in [Accounts -> SUBSET Actors], Sweep(A, ends, R),
         \A k \in Live : k[1] = account => Addresses(k, R[k[1]]),
         enacting' = enacting,
         \A b \in Actors : tab'[b] = "open" => tab[b] = "open",
         \A b \in Actors : HearsSame(b)
  PROVE  PlayInv'
<1>1. SafeInv /\ TypeInv'
  BY DEF PlayInv, ListenInv, HeldInv, SafeInv
<1>2. CASE sessions' = sessions /\ effects' = {}
  BY <1>2, QuietHearing
<1>3. CASE ~(sessions' = sessions /\ effects' = {})
  <2>1. PICK k \in Live : SweptOne(k, A, ends, R)
    BY <1>1, <1>3, SweepHits
  <2>2. k[1] = account
    BY <1>1 DEF SafeInv, OnlySignedInPlays
  <2>3. Tells(k, R[k[1]]) /\ Addresses(k, R[k[1]])
    BY <1>1, <2>1, <2>2, SweptTells
  <2>4. DeafSeeNothing'
    BY DeafStay DEF PlayInv
  <2> QED  BY <2>3, <2>4, TellsPlays
<1> QED  BY <1>2, <1>3

\* Deliveries and nested detaches.
LEMMA DispatchPlays ==
  ASSUME MayRefuse = FALSE, PlayInv, ListenInv', Dispatch
  PROVE  PlayInv'
<1>1. ASSUME NEW e \in effects, DeliverRefused(e)
      PROVE  FALSE
  BY <1>1 DEF DeliverRefused
<1>2. CASE RecoverFailed
  BY <1>2 DEF RecoverFailed, PlayInv, ListenInv
<1>3. CASE RunQueued
  <2> DEFINE R == Head(queue).recipients
             A == OwnedBy(Head(queue).actor)
  <2>1. /\ effects = {} /\ queue # <<>>
        /\ eligible' = eligible /\ account' = account /\ destroyed' = destroyed
        /\ tab' = tab /\ enacting' = enacting /\ seen' = seen
        /\ Sweep(A, FALSE, R)
    BY <1>3 DEF RunQueued, history
  <2>2. R \in [Accounts -> SUBSET Actors] /\ 1 \in DOMAIN queue /\ queue[1] = Head(queue)
    <3>1. queue \in Seq([actor : Actors, recipients : [Accounts -> SUBSET Actors]])
      BY DEF PlayInv, ListenInv, HeldInv, SafeInv, TypeInv, TypeOK
    <3>2. Head(queue) \in [actor : Actors, recipients : [Accounts -> SUBSET Actors]]
      BY <2>1, <3>1, HeadTailProperties
    <3>3. Len(queue) \in Nat /\ Len(queue) # 0 /\ DOMAIN queue = 1..Len(queue)
      BY <2>1, <3>1, LenProperties, EmptySeq
    <3>4. queue[1] = Head(queue)
      BY <2>1, <3>1, HeadTailProperties
    <3> QED  BY <3>2, <3>3, <3>4
  <2>3. A \in SUBSET Live
    BY DEF OwnedBy
  <2>4. ASSUME NEW k \in Live, k[1] = account
        PROVE  Addresses(k, R[k[1]])
    <3>1. account \in Accounts
      BY <2>4 DEF PlayInv, ListenInv, HeldInv, SafeInv, TypeInv, TypeOK, Live, Keys
    <3>2. /\ eligible[account] \subseteq R[account]
          /\ \A a \in R[account] : tab[a] = "open" => a \in eligible[account]
      BY <2>2, <3>1 DEF PlayInv, ListenInv, QueueAgrees
    <3> HIDE DEF R
    <3> QED  BY <2>1, <2>4, <3>2 DEF Addresses
  <2>5. \A b \in Actors : HearsSame(b)
    BY <2>1 DEF HearsSame
  <2> HIDE DEF R, A
  <2> QED  BY <2>1, <2>2, <2>3, <2>4, <2>5, SweepPlays
<1> QED  BY <1>1, <1>2, <1>3, SentPlays, ThrowsPlays DEF Dispatch

\* The resumed tab is told what there is, and plays only what it owns.
LEMMA OpenPlays ==
  ASSUME PlayInv, ListenInv', NEW a \in Actors, Open(a)
  PROVE  PlayInv'
<1> DEFINE current == {k \in Known : account # NoAccount
                                     /\ k = <<account, activeByAccount[account]>>}
           owns == \E k \in current : sessions[k].owner = a /\ ~sessions[k].terminal
<1>0. /\ SafeInv
      /\ seen \in [Actors -> Nat] /\ enacting \subseteq Actors
      /\ tab \in [Actors -> {"unopened", "connecting", "open", "closed", "expired"}]
      /\ eligible \in [Accounts -> SUBSET Actors]
      /\ account \in Accounts \cup {NoAccount}
  BY DEF PlayInv, ListenInv, HeldInv, SafeInv, TypeInv, TypeOK
<1>1. /\ effects = {} /\ effects' = {}
      /\ sessions' = sessions
      /\ account' = account /\ destroyed' = destroyed /\ ~destroyed
      /\ tab' = [tab EXCEPT ![a] = "open"]
      /\ eligible' = IF account # NoAccount THEN Listening(a) ELSE eligible
      /\ enacting' = IF owns THEN enacting \cup {a} ELSE enacting \ {a}
      /\ seen' = [seen EXCEPT ![a] =
                    IF current = {} THEN 0
                    ELSE sessions[CHOOSE k \in current : TRUE].generation]
  BY DEF Open, MayCall, Idle, authority, dispatch
<1>2. owns => \E k \in Live : sessions[k].owner = a
  BY DEF Live
<1>3. ASSUME NEW k \in LiveOf(account)
      PROVE  current = {k}
  <2>1. k \in Keys /\ k \in Known /\ k[1] = account /\ account # NoAccount
    BY <1>0, ConstantsAssumption DEF LiveOf, Live, SafeInv, TypeInv, TypeOK, Keys
  <2>2. k[2] = activeByAccount[account]
    BY <1>0, <2>1 DEF LiveOf, SafeInv, OneLiveSession
  <2> QED  BY <2>1, <2>2 DEF Keys
<1> HIDE DEF owns
<1>4. \A b \in enacting' : tab'[b] = "open" => \E k \in Live : sessions[k].owner = b
  <2> SUFFICES ASSUME NEW b \in enacting', tab'[b] = "open"
               PROVE  \E k \in Live : sessions[k].owner = b
    OBVIOUS
  <2>1. CASE b = a
    BY <1>1, <1>2, <2>1
  <2>2. CASE b # a
    <3>1. b \in enacting /\ tab[b] = "open"
      BY <1>0, <1>1, <2>2
    <3> QED  BY <1>1, <3>1, PlayersOwnNow
  <2> QED  BY <2>1, <2>2
<1>5. Follow'
  <2> SUFFICES ASSUME account # NoAccount, NEW b \in eligible'[account],
                      NEW k \in LiveOf(account)', seen'[b] # 0
               PROVE  seen'[b] = sessions'[k].generation
    BY <1>1 DEF Follow, Knows
  <2>1. k \in LiveOf(account)
    BY <1>1 DEF LiveOf, Live, Known
  <2>2. eligible'[account] = eligible[account] \cup {a}
    BY <1>0, <1>1, ListeningIs
  <2>3. CASE b = a
    <3>1. current # {} /\ (CHOOSE i \in current : TRUE) = k
      BY <1>3, <2>1
    <3> HIDE DEF current
    <3>2. seen'[a] = sessions[CHOOSE i \in current : TRUE].generation
      BY <1>0, <1>1, <3>1
    <3> QED  BY <1>1, <2>3, <3>1, <3>2
  <2>4. CASE b # a
    <3>1. b \in eligible[account] /\ b \in Actors
      BY <1>0, <2>2, <2>4
    <3>2. seen'[b] = seen[b]
      <4> HIDE DEF current
      <4> QED  BY <1>0, <1>1, <2>4, <3>1
    <3> QED  BY <1>1, <2>1, <3>1, <3>2, ListenersKnowNow
  <2> QED  BY <2>3, <2>4
<1>6. DeafSeeNothing'
  <2> HIDE DEF current
  <2>1. \A b \in Actors \ {a} : tab'[b] = tab[b] /\ seen'[b] = seen[b]
    BY <1>0, <1>1
  <2>2. tab'[a] = "open"
    BY <1>0, <1>1
  <2>3. account # NoAccount => eligible'[account] = eligible[account] \cup {a}
    BY <1>0, <1>1, ListeningIs
  <2> QED  BY <1>1, <2>1, <2>2, <2>3 DEF PlayInv, DeafSeeNothing
<1> QED  BY <1>1, <1>4, <1>5, <1>6, QuietPlays

\* A new attachment is not open, and a tab it is the first of has been told of
\* nothing.
LEMMA AttachPlays ==
  ASSUME PlayInv, ListenInv', NEW a \in Actors, Attach(a)
  PROVE  PlayInv'
<1>0. /\ SafeInv
      /\ tab \in [Actors -> {"unopened", "connecting", "open", "closed", "expired"}]
      /\ account \in Accounts \cup {NoAccount}
  BY DEF PlayInv, ListenInv, HeldInv, SafeInv, TypeInv, TypeOK
<1>1. /\ effects = {} /\ effects' = {} /\ sessions' = sessions
      /\ account' = account /\ destroyed' = destroyed /\ ~destroyed
      /\ enacting' = enacting /\ seen' = seen
      /\ tab' = [tab EXCEPT ![a] = "connecting"]
      /\ eligible' = IF tab[a] = "unopened" /\ account # NoAccount
                     THEN Listening(a) ELSE eligible
  BY DEF Attach, MayCall, Idle, authority, dispatch, history
<1>2. tab'[a] = "connecting" /\ \A b \in Actors \ {a} : tab'[b] = tab[b]
  BY <1>0, <1>1
<1>3. account # NoAccount =>
        \A b \in Actors \ {a} : b \in eligible'[account] <=> b \in eligible[account]
  BY <1>0, <1>1, ListeningIs
<1>4. HearsSame(a)
  <2>1. CASE tab[a] = "unopened"
    <3>1. seen[a] = 0
      BY <2>1 DEF PlayInv, DeafSeeNothing
    <3> QED  BY <1>1, <3>1 DEF HearsSame
  <2>2. CASE tab[a] # "unopened"
    BY <1>1, <1>2, <2>2 DEF HearsSame
  <2> QED  BY <2>1, <2>2
<1>5. \A b \in Actors \ {a} : HearsSame(b)
  BY <1>1, <1>2, <1>3 DEF HearsSame
<1>6. \A b \in Actors : tab'[b] = "open" => tab[b] = "open"
  BY <1>2
<1> QED  BY <1>1, <1>4, <1>5, <1>6, QuietHearing

\* A closing socket and an expiring window.
LEMMA ClosePlays ==
  ASSUME PlayInv, ListenInv', NEW a \in Actors, Detach(a) \/ ExpireOrigin(a)
  PROVE  PlayInv'
<1>0. /\ SafeInv
      /\ seen \in [Actors -> Nat]
      /\ tab \in [Actors -> {"unopened", "connecting", "open", "closed", "expired"}]
      /\ eligible \in [Accounts -> SUBSET Actors]
      /\ account \in Accounts \cup {NoAccount}
  BY DEF PlayInv, ListenInv, HeldInv, SafeInv, TypeInv, TypeOK
<1>1. CASE Detach(a)
  <2>1. /\ effects = {} /\ account' = account /\ ~destroyed
        /\ enacting' = enacting
        /\ seen' = [seen EXCEPT ![a] = 0]
        /\ tab' = [tab EXCEPT ![a] = "closed"]
        /\ eligible' = Deaf(a)
        /\ Sweep(OwnedBy(a), FALSE, eligible')
    BY <1>1 DEF Detach, MayCall, Idle
  <2>2. /\ seen'[a] = 0 /\ tab'[a] = "closed"
        /\ \A b \in Actors \ {a} : tab'[b] = tab[b] /\ seen'[b] = seen[b]
        /\ \A acct \in Accounts : eligible'[acct] = eligible[acct] \ {a}
    BY <1>0, <2>1, DeafIs
  <2>3. \A b \in Actors : HearsSame(b)
    BY <1>0, <2>1, <2>2 DEF HearsSame
  <2>4. \A b \in Actors : tab'[b] = "open" => tab[b] = "open"
    BY <2>2
  <2>5. \A k \in Live : k[1] = account => Addresses(k, eligible'[k[1]])
    BY <2>1 DEF Addresses
  <2>6. OwnedBy(a) \in SUBSET Live /\ eligible' \in [Accounts -> SUBSET Actors]
    BY <1>0, <2>1, ListeningType DEF OwnedBy, SafeInv, TypeInv
  <2> QED  BY <2>1, <2>3, <2>4, <2>5, <2>6, SweepPlays
<1>2. CASE ExpireOrigin(a)
  <2>1. /\ effects = {} /\ account' = account /\ destroyed' = destroyed
        /\ enacting' = enacting /\ seen' = seen /\ eligible' = eligible
        /\ tab' = [tab EXCEPT ![a] = "expired"]
        /\ Sweep(CreatedBy(a), TRUE, eligible)
    BY <1>2 DEF ExpireOrigin, MayCall, Idle, history
  <2>2. tab'[a] = "expired" /\ \A b \in Actors \ {a} : tab'[b] = tab[b]
    BY <1>0, <2>1
  <2>3. \A b \in Actors : HearsSame(b)
    BY <2>1, <2>2 DEF HearsSame
  <2>4. \A b \in Actors : tab'[b] = "open" => tab[b] = "open"
    BY <2>2
  <2>5. \A k \in Live : k[1] = account => Addresses(k, eligible[k[1]])
    BY <2>1, <2>4, <1>0 DEF Addresses
  <2>6. CreatedBy(a) \in SUBSET Live
    BY DEF CreatedBy
  <2> QED  BY <1>0, <2>1, <2>3, <2>4, <2>5, <2>6, SweepPlays
<1> QED  BY <1>1, <1>2

\* Sign-in, sign-out and the end of the runtime.
LEMMA AccountPlays ==
  ASSUME PlayInv, ListenInv',
         (\E acct \in Accounts : SignIn(acct)) \/ SignOut \/ Shutdown
  PROVE  PlayInv'
<1>0. /\ SafeInv
      /\ eligible \in [Accounts -> SUBSET Actors]
  BY DEF PlayInv, ListenInv, HeldInv, SafeInv, TypeInv, TypeOK
<1>1. ASSUME NEW acct, MayCall, acct # account, ChangeAccount(acct)
      PROVE  PlayInv'
  <2> DEFINE ended == IF account = NoAccount THEN {} ELSE LiveOf(account)
  <2>1. /\ effects = {} /\ account' = acct /\ tab' = tab /\ enacting' = enacting
        /\ seen' = [b \in Actors |-> 0]
        /\ Sweep(ended, TRUE, eligible)
    BY <1>1 DEF ChangeAccount, MayCall, Idle
  <2>2. ended \in SUBSET Live
    BY DEF LiveOf
  <2>3. \A b \in Actors : HearsSame(b)
    BY <2>1 DEF HearsSame
  <2>4. \A k \in Live : k[1] = account => Addresses(k, eligible[k[1]])
    BY <1>1, <2>1 DEF Addresses
  <2> HIDE DEF ended
  <2> QED  BY <1>0, <2>1, <2>2, <2>3, <2>4, SweepPlays
<1>2. CASE Shutdown
  <2>1. /\ effects = {} /\ destroyed' /\ tab' = tab /\ enacting' = enacting
        /\ seen' = seen
        /\ Sweep(Live, TRUE, eligible)
    BY <1>2 DEF Shutdown, MayCall, Idle, history
  <2>2. \A b \in Actors : HearsSame(b)
    BY <2>1 DEF HearsSame
  <2>3. \A k \in Live : k[1] = account => Addresses(k, eligible[k[1]])
    BY <2>1 DEF Addresses
  <2> QED  BY <1>0, <2>1, <2>2, <2>3, SweepPlays
<1>3. CASE SignOut
  <2>1. MayCall /\ NoAccount # account /\ ChangeAccount(NoAccount)
    BY <1>3 DEF SignOut
  <2> QED  BY <1>1, <2>1
<1> QED  BY <1>1, <1>2, <1>3 DEF SignIn

\* Every step keeps tabs and authority together.
LEMMA NextPlays ==
  ASSUME MayRefuse = FALSE, PlayInv, [Next]_vars
  PROVE  PlayInv'
<1>1. ListenInv'
  BY NextListen DEF PlayInv
<1>2. CASE UNCHANGED vars
  BY <1>1, <1>2
  DEF vars, authority, dispatch, history, PlayInv, SnapshotsAgree, PlayersStop, OnePlayer,
      Follow, Knows, DeafSeeNothing, StopsFirst, LiveOf, Live, Known
<1>3. CASE Next
  BY <1>1, <1>3, DispatchPlays, CommandPlays, AttachPlays, OpenPlays, ClosePlays,
     AccountPlays
  DEF Next, Lifecycle
<1> QED  BY <1>2, <1>3

\* No tab plays or has heard of anything at the start.
LEMMA InitPlays == Init => PlayInv
<1> SUFFICES ASSUME Init  PROVE PlayInv
  OBVIOUS
<1>1. ListenInv
  BY InitListen
<1>2. /\ effects = {} /\ enacting = {} /\ account = NoAccount
      /\ \A a \in Actors : seen[a] = 0
  BY DEF Init
<1> QED
  BY <1>1, <1>2
  DEF PlayInv, SnapshotsAgree, PlayersStop, OnePlayer, Follow, DeafSeeNothing

\* The invariant says what the tabs do.
LEMMA PlayImplies == PlayInv => TabsFollow
<1> SUFFICES ASSUME PlayInv  PROVE TabsFollow
  OBVIOUS
<1>1. OnePlayer
  BY DEF PlayInv
<1>2. PlayersOwn
  BY PlayersOwnNow DEF PlayersOwn, Idle
<1>3. ListenersFollow
  BY ListenersKnowNow DEF ListenersFollow, Idle
<1> QED  BY <1>1, <1>2, <1>3 DEF TabsFollow

\* With the deliver callback of the portal, which never reports a failure by
\* its result: at no moment have two connected tabs been told to play; once a
\* call is dispatched, a tab that plays is the owner on record; and a listener
\* that was told of the session once is told of every later change of it, the
\* nested detaches of other tabs included.
THEOREM TabsAlwaysFollow == ASSUME MayRefuse = FALSE  PROVE Spec => []TabsFollow
<1>1. Init => PlayInv
  BY InitPlays
<1>2. PlayInv /\ [Next]_vars => PlayInv'
  BY NextPlays
<1>3. PlayInv => TabsFollow
  BY PlayImplies
<1> QED  BY <1>1, <1>2, <1>3, PTL DEF Spec
===============================================================================
