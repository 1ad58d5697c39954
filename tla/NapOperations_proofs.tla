-------------------------- MODULE NapOperations_proofs --------------------------
(***************************************************************************)
(* Proofs about what napplets ask of the portal: that operations are       *)
(* bounded and answered for whom they were asked (NapDispatcher), that     *)
(* events are published for who asked and lists keep what was accepted     *)
(* (CommonActions), and that streams hear while they are registered        *)
(* (RelaySubscriptions).  For all windows, releases, accounts, streams,    *)
(* requests and bounds.                                                    *)
(***************************************************************************)
EXTENDS NapDispatcher, CommonActions, RelaySubscriptions, FiniteSetTheorems, SequenceTheorems,
        TLAPS

-----------------------------------------------------------------------------
(***************************************************************************)
(* NapDispatcher                                                           *)
(***************************************************************************)

\* Each authority is that of the window's last launch.
LaunchesInv ==
  /\ account \in NapAccounts \cup {Nothing}
  /\ windowAuthorities \in [NapWindows -> Authority \cup {Nothing}]
  /\ launched \in [NapWindows -> 0..MaxLaunches]
  /\ bridges \in [NapWindows -> [authority : Authority \cup {Nothing},
                                 verified : Releases \cup {Nothing}]]
  /\ \A w \in NapWindows :
       windowAuthorities[w] # Nothing => windowAuthorities[w].launch = launched[w]

\* An operation that is not void is of the window's last launch.
OpsInv ==
  /\ IsFiniteSet(DOMAIN operations)
  /\ \A r \in DOMAIN operations :
       /\ operations[r] \in Operation
       /\ operations[r].valid => operations[r].launch = launched[operations[r].window]
  /\ OperationsAreBounded

DispatcherInv == LaunchesInv /\ OpsInv /\ AnswersAreDue

-----------------------------------------------------------------------------
LEMMA InitDispatcher == DispatcherInit => DispatcherInv
<1> SUFFICES ASSUME DispatcherInit  PROVE DispatcherInv
  OBVIOUS
<1>1. LaunchesInv
  BY DispatcherAssumption DEF DispatcherInit, LaunchesInv
<1>2. DOMAIN operations = {}
  BY DEF DispatcherInit
<1>3. \A w \in NapWindows : /\ ActiveOf(w) = {}
                            /\ {r \in ActiveOf(w) : operations[r].kind = "transfer"} = {}
  BY <1>2 DEF ActiveOf, Of
<1>4. OperationsAreBounded
  BY <1>3, FS_EmptySet, DispatcherAssumption DEF OperationsAreBounded
<1>5. OpsInv
  BY <1>2, <1>4, FS_EmptySet DEF OpsInv
<1>6. AnswersTheLaunch /\ AnswersTheSignedIn
  BY DEF DispatcherInit, AnswersTheLaunch, AnswersTheSignedIn
<1> QED  BY <1>1, <1>4, <1>5, <1>6 DEF DispatcherInv, AnswersAreDue

\* Operations that end, or only become void, keep the bounds.
LEMMA FewerOps ==
  ASSUME OpsInv, DOMAIN operations' \subseteq DOMAIN operations,
         \A r \in DOMAIN operations' : /\ operations'[r].window = operations[r].window
                                       /\ operations'[r].kind = operations[r].kind
  PROVE  IsFiniteSet(DOMAIN operations') /\ OperationsAreBounded'
<1>1. IsFiniteSet(DOMAIN operations')
  BY FS_Subset DEF OpsInv
<1>2. ASSUME NEW w \in NapWindows
      PROVE  /\ Cardinality({r \in ActiveOf(w)' : operations'[r].kind = "transfer"}) <= MaxTransfers
             /\ Cardinality(ActiveOf(w)') <= MaxActive
  <2> DEFINE T == {r \in ActiveOf(w) : operations[r].kind = "transfer"}
             U == {r \in ActiveOf(w)' : operations'[r].kind = "transfer"}
  <2>1. ActiveOf(w) \subseteq DOMAIN operations /\ T \subseteq DOMAIN operations
    BY DEF ActiveOf, Of
  <2>2. IsFiniteSet(ActiveOf(w)) /\ IsFiniteSet(T)
    BY <2>1, FS_Subset DEF OpsInv
  <2>3. ActiveOf(w)' \subseteq ActiveOf(w) /\ U \subseteq T
    BY DEF ActiveOf, Of
  <2>4. Cardinality(T) <= MaxTransfers /\ Cardinality(ActiveOf(w)) <= MaxActive
    BY DEF OpsInv, OperationsAreBounded
  <2> HIDE DEF T, U
  <2>5. Cardinality(U) <= Cardinality(T) /\ Cardinality(ActiveOf(w)') <= Cardinality(ActiveOf(w))
    BY <2>2, <2>3, FS_Subset
  <2>6. IsFiniteSet(U) /\ IsFiniteSet(ActiveOf(w)')
    BY <2>2, <2>3, FS_Subset
  <2>7. {Cardinality(U), Cardinality(T), Cardinality(ActiveOf(w)), Cardinality(ActiveOf(w)')}
          \subseteq Nat
    BY <2>2, <2>6, FS_CardinalityType
  <2> QED  BY <2>4, <2>5, <2>7, DispatcherAssumption DEF U
<1> QED  BY <1>1, <1>2 DEF OperationsAreBounded

\* Operations stay as they are, and so does what they are checked against.
LEMMA SameOps ==
  ASSUME OpsInv, UNCHANGED <<operations, launched>>
  PROVE  OpsInv'
BY DEF OpsInv, OperationsAreBounded, ActiveOf, Of

\* What a new launch or an abort voids need not be of the last launch.
LEMMA VoidedOps ==
  ASSUME OpsInv, NEW windows, Voided(windows),
         \A w \in NapWindows \ windows : launched'[w] = launched[w]
  PROVE  OpsInv'
<1>1. DOMAIN operations' = DOMAIN operations
  BY DEF Voided
<1>2. ASSUME NEW r \in DOMAIN operations'
      PROVE  /\ operations'[r].window = operations[r].window
             /\ operations'[r].kind = operations[r].kind
             /\ operations'[r] \in Operation
             /\ operations'[r].valid =>
                  operations[r].valid /\ operations[r].window \notin windows
             /\ operations'[r].launch = operations[r].launch
  <2>1. operations[r] \in Operation
    BY <1>1 DEF OpsInv
  <2>2. operations'[r] = [operations[r] EXCEPT !.valid =
                            operations[r].valid /\ operations[r].window \notin windows]
    BY <1>1 DEF Voided
  <2>3. (operations[r].valid /\ operations[r].window \notin windows) \in BOOLEAN
    OBVIOUS
  <2> QED  BY <2>1, <2>2, <2>3 DEF Operation
<1>3. IsFiniteSet(DOMAIN operations') /\ OperationsAreBounded'
  BY <1>1, <1>2, FewerOps
<1>4. ASSUME NEW r \in DOMAIN operations', operations'[r].valid
      PROVE  operations'[r].launch = launched'[operations'[r].window]
  <2>1. operations[r] \in Operation /\ operations[r].valid
    BY <1>1, <1>2, <1>4 DEF OpsInv
  <2>2. operations[r].window \in NapWindows \ windows
    BY <1>2, <1>4, <2>1 DEF Operation
  <2> QED  BY <1>1, <1>2, <2>1, <2>2 DEF OpsInv
<1> QED  BY <1>2, <1>3, <1>4 DEF OpsInv

\* A request takes one more place, if there is one.
LEMMA DispatchedOps ==
  ASSUME OpsInv, NEW r, r \notin DOMAIN operations, NEW w \in NapWindows,
         NEW kind \in {"transfer", "common", "storage"}, NEW a \in NapAccounts,
         NEW release \in Releases, NEW launch \in 0..MaxLaunches, launch = launched[w],
         kind = "transfer" => ~Full(w, kind, MaxTransfers),
         kind = "common" => ~Full(w, kind, MaxActive),
         Dispatched(r, w, kind, a, release, launch)
  PROVE  OpsInv'
<1> DEFINE op == [window |-> w, kind |-> kind, account |-> a, release |-> release,
                  launch |-> launch, valid |-> TRUE]
<1>1. op \in Operation /\ op.window = w /\ op.kind = kind /\ op.launch = launch
  BY DEF Operation
<1>2. /\ DOMAIN operations' = DOMAIN operations \cup {r}
      /\ operations'[r] = op
      /\ \A q \in DOMAIN operations : operations'[q] = operations[q]
      /\ launched' = launched
  BY DEF Dispatched, held
<1> HIDE DEF op
<1>3. IsFiniteSet(DOMAIN operations')
  BY <1>2, FS_AddElement DEF OpsInv
<1>4. \A q \in DOMAIN operations' :
        /\ operations'[q] \in Operation
        /\ operations'[q].valid => operations'[q].launch = launched'[operations'[q].window]
  BY <1>1, <1>2 DEF OpsInv
<1>5. ASSUME NEW v \in NapWindows
      PROVE  /\ Cardinality({q \in ActiveOf(v)' : operations'[q].kind = "transfer"}) <= MaxTransfers
             /\ Cardinality(ActiveOf(v)') <= MaxActive
  <2> DEFINE A == ActiveOf(v)
             B == ActiveOf(v)'
             T == {q \in ActiveOf(v) : operations[q].kind = "transfer"}
             U == {q \in ActiveOf(v)' : operations'[q].kind = "transfer"}
  <2>1. A \subseteq DOMAIN operations /\ T \subseteq A
    BY DEF ActiveOf, Of
  <2>2. IsFiniteSet(A) /\ IsFiniteSet(T)
    BY <2>1, FS_Subset DEF OpsInv
  <2>3. Cardinality(A) \in Nat /\ Cardinality(T) \in Nat /\ Cardinality(T) <= Cardinality(A)
    BY <2>1, <2>2, FS_CardinalityType, FS_Subset
  <2>4. Cardinality(T) <= MaxTransfers /\ Cardinality(A) <= MaxActive
    BY DEF OpsInv, OperationsAreBounded
  <2>5. B = IF v = w /\ kind # "storage" THEN A \cup {r} ELSE A
    BY <1>1, <1>2 DEF ActiveOf, Of
  <2>6. U = IF v = w /\ kind = "transfer" THEN T \cup {r} ELSE T
    BY <1>1, <1>2 DEF ActiveOf, Of
  <2>7. v = w /\ kind = "transfer" => Cardinality(A) < MaxTransfers
    BY <2>3, DispatcherAssumption DEF Full
  <2>8. v = w /\ kind = "common" => Cardinality(A) < MaxActive
    BY <2>3, DispatcherAssumption DEF Full
  <2> HIDE DEF A, B, T, U
  <2>9. ASSUME NEW S, IsFiniteSet(S), Cardinality(S) \in Nat
        PROVE  Cardinality(S \cup {r}) <= Cardinality(S) + 1
    <3>1. Cardinality(S \cup {r}) = IF r \in S THEN Cardinality(S) ELSE Cardinality(S) + 1
      BY <2>9, FS_AddElement
    <3> QED  BY <2>9, <3>1
  <2>10. Cardinality(A \cup {r}) \in Nat /\ Cardinality(T \cup {r}) \in Nat
    BY <2>2, FS_AddElement, FS_CardinalityType
  <2>11. Cardinality(U) <= MaxTransfers
    BY <2>2, <2>3, <2>4, <2>6, <2>7, <2>9, <2>10, DispatcherAssumption
  <2>12. Cardinality(B) <= MaxActive
    BY <2>2, <2>3, <2>4, <2>5, <2>7, <2>8, <2>9, <2>10, DispatcherAssumption
  <2> QED  BY <2>11, <2>12 DEF B, U
<1>6. OperationsAreBounded'
  BY <1>5 DEF OperationsAreBounded
<1> QED  BY <1>3, <1>4, <1>6 DEF OpsInv

-----------------------------------------------------------------------------
\* Without an authority taken or given, and with no new launch, launches stay right.
LEMMA SameLaunches ==
  ASSUME LaunchesInv, UNCHANGED <<account, windowAuthorities, launched, bridges>>
  PROVE  LaunchesInv'
BY DEF LaunchesInv

\* Authorities that are taken leave the others as they were.
LEMMA UnauthorizedLaunches ==
  ASSUME LaunchesInv, NEW windows, Unauthorized(windows), UNCHANGED <<launched, bridges>>,
         account' \in NapAccounts \cup {Nothing}
  PROVE  LaunchesInv'
<1>1. \A w \in NapWindows : windowAuthorities'[w] = Nothing
                            \/ windowAuthorities'[w] = windowAuthorities[w]
  BY DEF Unauthorized
<1>2. windowAuthorities' \in [NapWindows -> Authority \cup {Nothing}]
  BY DEF Unauthorized, LaunchesInv
<1> QED  BY <1>1, <1>2 DEF LaunchesInv

LEMMA RegisterLaunches ==
  ASSUME LaunchesInv, NEW w \in NapWindows, NEW release \in Releases, NEW start \in BOOLEAN,
         RegisterLaunch(w, release, start)
  PROVE  LaunchesInv' /\ \A v \in NapWindows \ {w} : launched'[v] = launched[v]
<1>1. launched[w] \in 0..MaxLaunches /\ launched[w] < MaxLaunches /\ MaxLaunches \in Nat
      /\ account \in NapAccounts
  BY DispatcherAssumption DEF RegisterLaunch, LaunchesInv
<1> DEFINE n == launched[w] + 1
           a == [account |-> account, release |-> release, launch |-> n]
           b == [authority |-> a, verified |-> IF start THEN release ELSE bridges[w].verified]
<1>2. n \in 1..MaxLaunches /\ n \in 0..MaxLaunches
  BY <1>1
<1>3. launched' = [launched EXCEPT ![w] = n] /\ launched'[w] = n
  BY DEF RegisterLaunch, LaunchesInv
<1>4. windowAuthorities' = [windowAuthorities EXCEPT ![w] = a] /\ windowAuthorities'[w] = a
  BY <1>3 DEF RegisterLaunch, LaunchesInv
<1>5. bridges' = [bridges EXCEPT ![w] = b]
  BY <1>4 DEF RegisterLaunch, LaunchesInv
<1> HIDE DEF n
<1>6. a \in Authority /\ a.launch = n
  BY <1>1, <1>2 DEF Authority
<1> HIDE DEF a
<1>7. bridges[w].verified \in Releases \cup {Nothing}
  BY DEF LaunchesInv
<1>8. b \in [authority : Authority \cup {Nothing}, verified : Releases \cup {Nothing}]
  BY <1>6, <1>7
<1> HIDE DEF b
<1>9. /\ windowAuthorities' \in [NapWindows -> Authority \cup {Nothing}]
      /\ launched' \in [NapWindows -> 0..MaxLaunches]
      /\ bridges' \in [NapWindows -> [authority : Authority \cup {Nothing},
                                      verified : Releases \cup {Nothing}]]
  BY <1>2, <1>3, <1>4, <1>5, <1>6, <1>8 DEF LaunchesInv
<1>10. \A v \in NapWindows :
         windowAuthorities'[v] # Nothing => windowAuthorities'[v].launch = launched'[v]
  BY <1>3, <1>4, <1>6 DEF LaunchesInv
<1>11. account' = account
  BY DEF RegisterLaunch
<1> QED  BY <1>3, <1>9, <1>10, <1>11 DEF LaunchesInv

\* A step that answers nobody has nothing to account for.
LEMMA QuietAnswers ==
  ASSUME Quiet, OpsInv'
  PROVE  AnswersAreDue'
BY DEF Quiet, OpsInv, AnswersAreDue, AnswersTheLaunch, AnswersTheSignedIn

LEMMA RuntimeInv ==
  ASSUME DispatcherInv, RuntimeStep
  PROVE  DispatcherInv'
<1> USE DEF DispatcherInv
<1>1. ASSUME NEW w \in NapWindows, OpenNapWindow(w)
      PROVE  DispatcherInv'
  <2>1. bridges' \in [NapWindows -> [authority : Authority \cup {Nothing},
                                     verified : Releases \cup {Nothing}]]
    BY <1>1 DEF OpenNapWindow, LaunchesInv
  <2>2. LaunchesInv'
    BY <1>1, <2>1 DEF OpenNapWindow, LaunchesInv
  <2>3. OpsInv'
    BY <1>1, SameOps DEF OpenNapWindow
  <2> QED  BY <1>1, <2>2, <2>3, QuietAnswers DEF OpenNapWindow
<1>2. ASSUME NEW w \in NapWindows, DestroyWindow(w)
      PROVE  DispatcherInv'
  <2>1. Unauthorized({w}) /\ Voided({w}) /\ Quiet /\ UNCHANGED <<account, launched, bridges>>
    BY <1>2 DEF DestroyWindow, AbortWindows
  <2>2. LaunchesInv' /\ OpsInv'
    BY <2>1, UnauthorizedLaunches, VoidedOps DEF LaunchesInv
  <2> QED  BY <2>1, <2>2, QuietAnswers
<1>3. ASSUME NEW w \in NapWindows, NEW release \in Releases, NEW start \in BOOLEAN,
             RegisterLaunch(w, release, start)
      PROVE  DispatcherInv'
  <2>1. Voided({w}) /\ Quiet
    BY <1>3 DEF RegisterLaunch, AuthorizeWindow
  <2>2. LaunchesInv' /\ \A v \in NapWindows \ {w} : launched'[v] = launched[v]
    BY <1>3, RegisterLaunches
  <2>3. OpsInv'
    BY <2>1, <2>2, VoidedOps
  <2> QED  BY <2>1, <2>2, <2>3, QuietAnswers
<1>4. ASSUME NEW a \in NapAccounts, NapSignIn(a)
      PROVE  DispatcherInv'
  <2>1. LaunchesInv'
    BY <1>4 DEF NapSignIn, LaunchesInv
  <2>2. OpsInv'
    BY <1>4, SameOps DEF NapSignIn
  <2> QED  BY <1>4, <2>1, <2>2, QuietAnswers DEF NapSignIn
<1>5. ASSUME NapSignOut
      PROVE  DispatcherInv'
  <2>1. /\ Unauthorized(NapWindows) /\ Voided(openWindows) /\ Quiet
        /\ account' = Nothing /\ UNCHANGED <<launched, bridges>>
    BY <1>5 DEF NapSignOut, AbortWindows
  <2>2. LaunchesInv' /\ OpsInv'
    BY <2>1, UnauthorizedLaunches, VoidedOps
  <2> QED  BY <2>1, <2>2, QuietAnswers
<1>6. ASSUME NEW releases \in SUBSET Releases, CatalogIs(releases)
      PROVE  DispatcherInv'
  <2>1. LaunchesInv' /\ OpsInv'
    BY <1>6, SameLaunches, SameOps DEF CatalogIs
  <2> QED  BY <1>6, <2>1, QuietAnswers DEF CatalogIs
<1>7. ASSUME NEW release \in Releases, RevokeObsolete(release)
      PROVE  DispatcherInv'
  <2>1. /\ \E windows : Unauthorized(windows) /\ Voided(windows)
        /\ Quiet /\ UNCHANGED <<account, launched, bridges>>
    BY <1>7 DEF RevokeObsolete, AbortWindows
  <2>2. LaunchesInv' /\ OpsInv'
    BY <2>1, UnauthorizedLaunches, VoidedOps DEF LaunchesInv
  <2> QED  BY <2>1, <2>2, QuietAnswers
<1>8. ASSUME DestroyDispatcher
      PROVE  DispatcherInv'
  <2>1. Unauthorized(NapWindows) /\ Voided(NapWindows) /\ Quiet
        /\ UNCHANGED <<account, launched, bridges>>
    BY <1>8 DEF DestroyDispatcher
  <2>2. LaunchesInv' /\ OpsInv'
    BY <2>1, UnauthorizedLaunches, VoidedOps DEF LaunchesInv
  <2> QED  BY <2>1, <2>2, QuietAnswers
<1> QED
  BY <1>1, <1>2, <1>3, <1>4, <1>5, <1>6, <1>7, <1>8 DEF RuntimeStep

LEMMA RequestInv ==
  ASSUME DispatcherInv, NEW r \in Requests, RequestStep(r)
  PROVE  DispatcherInv'
<1> USE DEF DispatcherInv
<1>1. ASSUME NEW w \in NapWindows, AskTransfer(r, w)
      PROVE  DispatcherInv'
  <2> DEFINE release == bridges[w].verified
  <2>1. /\ r \notin DOMAIN operations /\ account \in NapAccounts
        /\ release \in Releases /\ launched[w] \in 0..MaxLaunches
    BY <1>1 DEF AskTransfer, MayAsk, LaunchesInv
  <2>2. ~Full(w, "transfer", MaxTransfers)
        /\ Dispatched(r, w, "transfer", account, release, launched[w])
    BY <1>1 DEF AskTransfer
  <2>3. OpsInv'
    BY <2>1, <2>2, DispatchedOps
  <2>4. LaunchesInv' /\ Quiet
    BY <2>2, SameLaunches DEF Dispatched, held
  <2> QED  BY <2>3, <2>4, QuietAnswers
<1>2. ASSUME NEW w \in NapWindows, NEW kind \in {"common", "storage"},
             AskCommonOrStorage(r, w, kind)
      PROVE  DispatcherInv'
  <2> DEFINE a == bridges[w].authority
  <2>1. r \notin DOMAIN operations /\ windowAuthorities[w] = a /\ a # Nothing
    BY <1>2 DEF AskCommonOrStorage, MayAsk, IsAuthorized
  <2>2. a \in Authority /\ a.launch = launched[w]
    BY <2>1 DEF LaunchesInv
  <2>3. (kind = "common" => ~Full(w, kind, MaxActive))
        /\ Dispatched(r, w, kind, a.account, a.release, a.launch)
    BY <1>2 DEF AskCommonOrStorage
  <2>4. a.account \in NapAccounts /\ a.release \in Releases /\ a.launch \in 0..MaxLaunches
    BY <2>2, DispatcherAssumption DEF Authority
  <2> HIDE DEF a
  <2>5. OpsInv'
    BY <2>1, <2>2, <2>3, <2>4, DispatchedOps
  <2>6. LaunchesInv' /\ Quiet
    BY <2>3, SameLaunches DEF Dispatched, held
  <2> QED  BY <2>5, <2>6, QuietAnswers
<1>3. ASSUME CancelTransfer(r)
      PROVE  DispatcherInv'
  <2>1. /\ r \in DOMAIN operations /\ Quiet /\ UNCHANGED held
        /\ operations' = [operations EXCEPT ![r].valid = FALSE]
    BY <1>3 DEF CancelTransfer
  <2>2. DOMAIN operations' = DOMAIN operations
        /\ \A q \in DOMAIN operations : q # r => operations'[q] = operations[q]
    BY <2>1
  <2>3. operations'[r] = [operations[r] EXCEPT !.valid = FALSE] /\ operations[r] \in Operation
    BY <2>1 DEF OpsInv
  <2>4. /\ operations'[r] \in Operation /\ operations'[r].valid = FALSE
        /\ operations'[r].window = operations[r].window
        /\ operations'[r].kind = operations[r].kind
    BY <2>3 DEF Operation
  <2>5. IsFiniteSet(DOMAIN operations') /\ OperationsAreBounded'
    BY <2>2, <2>4, FewerOps
  <2>6. launched' = launched
    BY <2>1 DEF held
  <2>7. OpsInv'
    BY <2>2, <2>4, <2>5, <2>6 DEF OpsInv
  <2>8. LaunchesInv'
    BY <2>1, SameLaunches DEF held
  <2> QED  BY <2>1, <2>7, <2>8, QuietAnswers
<1> QED  BY <1>1, <1>2, <1>3 DEF RequestStep

\* What may be answered is of the launch that holds the window now.
LEMMA DoneInv ==
  ASSUME DispatcherInv, NEW r, Done(r)
  PROVE  DispatcherInv'
<1> USE DEF DispatcherInv
<1> DEFINE op == operations[r]
<1>1. /\ r \in DOMAIN operations /\ UNCHANGED held
      /\ operations' = [q \in DOMAIN operations \ {r} |-> operations[q]]
      /\ answered' = {}
         \/ (answered' = {op} /\ MayAnswer(op) /\ op.window \in openWindows)
  BY DEF Done
<1>2. LaunchesInv' /\ UNCHANGED <<account, accepted, openWindows, windowAuthorities, launched>>
  BY <1>1, SameLaunches DEF held
<1>3. DOMAIN operations' \subseteq DOMAIN operations
      /\ \A q \in DOMAIN operations' : operations'[q] = operations[q]
  BY <1>1
<1>4. OpsInv'
  <2>1. IsFiniteSet(DOMAIN operations') /\ OperationsAreBounded'
    BY <1>3, FewerOps
  <2> QED  BY <1>2, <1>3, <2>1 DEF OpsInv
<1>5. op \in Operation /\ (op.valid => op.launch = launched[op.window])
  BY <1>1 DEF OpsInv
<1>6. op.window \in NapWindows
      /\ op.kind \in {"transfer", "common", "storage"}
  BY <1>5 DEF Operation
<1>7. ASSUME MayAnswer(op)
      PROVE  /\ windowAuthorities[op.window] # Nothing
             /\ windowAuthorities[op.window].launch = op.launch
             /\ op.kind # "transfer" => account = op.account /\ op.release \in accepted
  <2>1. CASE op.kind = "transfer"
    <3>1. op.valid /\ windowAuthorities[op.window] # Nothing
      BY <1>7, <2>1 DEF MayAnswer, MayReceive
    <3> QED  BY <2>1, <3>1, <1>5, <1>6 DEF LaunchesInv
  <2>2. CASE op.kind \in {"common", "storage"}
    <3>1. IsAuthorized(op.window, LaunchOf(op))
      BY <1>7, <2>2 DEF MayAnswer
    <3>2. windowAuthorities[op.window] = LaunchOf(op) /\ LaunchOf(op) # Nothing
          /\ account = LaunchOf(op).account /\ LaunchOf(op).release \in accepted
      BY <3>1 DEF IsAuthorized
    <3>3. LaunchOf(op).launch = op.launch /\ LaunchOf(op).account = op.account
          /\ LaunchOf(op).release = op.release
      BY DEF LaunchOf
    <3> QED  BY <3>2, <3>3
  <2> QED  BY <1>6, <2>1, <2>2
<1> HIDE DEF op
<1>8. AnswersTheLaunch' /\ AnswersTheSignedIn'
  BY <1>1, <1>2, <1>7 DEF AnswersTheLaunch, AnswersTheSignedIn
<1> QED  BY <1>2, <1>4, <1>8 DEF AnswersAreDue, OpsInv

LEMMA DispatcherStep ==
  ASSUME DispatcherInv, [DispatcherNext]_dispatcherVars
  PROVE  DispatcherInv'
<1>1. CASE UNCHANGED dispatcherVars
  <2>1. LaunchesInv' /\ OpsInv'
    BY <1>1, SameLaunches, SameOps DEF dispatcherVars, DispatcherInv
  <2>2. AnswersTheLaunch' /\ AnswersTheSignedIn'
    BY <1>1 DEF dispatcherVars, DispatcherInv, AnswersAreDue, AnswersTheLaunch,
                AnswersTheSignedIn
  <2> QED  BY <2>1, <2>2 DEF DispatcherInv, AnswersAreDue, OpsInv
<1> QED  BY <1>1, RuntimeInv, RequestInv, DoneInv DEF DispatcherNext

LEMMA DispatcherSafe ==
  DispatcherInit /\ [][DispatcherNext]_dispatcherVars => [](DispatcherInv /\ AnswersAreDue)
<1>1. DispatcherInv => AnswersAreDue
  BY DEF DispatcherInv
<1> QED  BY <1>1, InitDispatcher, DispatcherStep, PTL

(***************************************************************************)
(* What is answered late is due to the launch and the account it reaches,  *)
(* and no window has more under way than its bounds.                       *)
(***************************************************************************)
THEOREM AnswersHold == DispatcherSpec => []AnswersAreDue
BY DispatcherSafe, PTL DEF DispatcherSpec

\* A revoked window holds no authority; the other fields have their types.
RevokedInv ==
  /\ accepted \subseteq Releases /\ openWindows \cup revoked \subseteq NapWindows
  /\ DOMAIN operations \subseteq Requests /\ answered \subseteq Operation
  /\ ended \in BOOLEAN
  /\ \A w \in revoked : windowAuthorities[w] = Nothing

LEMMA VoidedDomain ==
  ASSUME NEW windows, Voided(windows)
  PROVE  DOMAIN operations' = DOMAIN operations
BY DEF Voided

LEMMA RevokedStep ==
  ASSUME DispatcherInv, RevokedInv, [DispatcherNext]_dispatcherVars
  PROVE  RevokedInv'
<1>1. CASE UNCHANGED dispatcherVars
  BY <1>1 DEF dispatcherVars, RevokedInv
<1>2. ASSUME NEW w \in NapWindows, OpenNapWindow(w)  PROVE RevokedInv'
  BY <1>2 DEF OpenNapWindow, Quiet, RevokedInv
<1>3. ASSUME NEW w \in NapWindows, DestroyWindow(w)  PROVE RevokedInv'
  <2>1. DOMAIN operations' = DOMAIN operations
    BY <1>3, VoidedDomain DEF DestroyWindow, AbortWindows
  <2> QED  BY <1>3, <2>1 DEF DestroyWindow, AbortWindows, Unauthorized, Quiet, RevokedInv
<1>4. ASSUME NEW w \in NapWindows, NEW release \in Releases, NEW start \in BOOLEAN,
             RegisterLaunch(w, release, start)
      PROVE  RevokedInv'
  <2>1. DOMAIN operations' = DOMAIN operations
    BY <1>4, VoidedDomain DEF RegisterLaunch, AuthorizeWindow
  <2>2. /\ revoked' = revoked \ {w} /\ answered' = {}
        /\ UNCHANGED <<accepted, openWindows, ended>>
        /\ \A v \in NapWindows \ {w} : windowAuthorities'[v] = windowAuthorities[v]
    BY <1>4 DEF RegisterLaunch, AuthorizeWindow, Quiet, DispatcherInv, LaunchesInv
  <2> QED  BY <2>1, <2>2 DEF RevokedInv
<1>5. ASSUME NEW a \in NapAccounts, NapSignIn(a)  PROVE RevokedInv'
  BY <1>5 DEF NapSignIn, Quiet, RevokedInv
<1>6. CASE NapSignOut
  <2>1. DOMAIN operations' = DOMAIN operations
    BY <1>6, VoidedDomain DEF NapSignOut, AbortWindows
  <2> QED  BY <1>6, <2>1 DEF NapSignOut, AbortWindows, Unauthorized, Quiet, RevokedInv
<1>7. ASSUME NEW releases \in SUBSET Releases, CatalogIs(releases)  PROVE RevokedInv'
  BY <1>7 DEF CatalogIs, Quiet, RevokedInv
<1>8. ASSUME NEW release \in Releases, RevokeObsolete(release)  PROVE RevokedInv'
  <2> DEFINE windows == {w \in NapWindows : /\ windowAuthorities[w] # Nothing
                                            /\ windowAuthorities[w].release = release}
  <2>1. /\ Unauthorized(windows) /\ AbortWindows(windows) /\ answered' = {}
        /\ UNCHANGED <<accepted, openWindows, ended>>
    BY <1>8 DEF RevokeObsolete, Quiet
  <2>2. windows \subseteq NapWindows
    OBVIOUS
  <2> HIDE DEF windows
  <2>3. DOMAIN operations' = DOMAIN operations
    BY <2>1, VoidedDomain DEF AbortWindows
  <2> QED  BY <2>1, <2>2, <2>3 DEF AbortWindows, Unauthorized, RevokedInv
<1>9. CASE DestroyDispatcher
  <2>1. DOMAIN operations' = DOMAIN operations
    BY <1>9, VoidedDomain DEF DestroyDispatcher
  <2> QED  BY <1>9, <2>1 DEF DestroyDispatcher, Unauthorized, Quiet, RevokedInv
<1>10. ASSUME NEW r \in Requests, RequestStep(r)  PROVE RevokedInv'
  <2>1. DOMAIN operations' \subseteq DOMAIN operations \cup {r}
    BY <1>10 DEF RequestStep, AskTransfer, AskCommonOrStorage, CancelTransfer, Dispatched
  <2>2. UNCHANGED held /\ answered' = {}
    BY <1>10 DEF RequestStep, AskTransfer, AskCommonOrStorage, CancelTransfer, Dispatched, Quiet
  <2> QED  BY <2>1, <2>2 DEF held, RevokedInv
<1>11. ASSUME NEW r \in Requests, Done(r)  PROVE RevokedInv'
  BY <1>11 DEF Done, held, RevokedInv, DispatcherInv, OpsInv
<1> QED
  BY <1>1, <1>2, <1>3, <1>4, <1>5, <1>6, <1>7, <1>8, <1>9, <1>10, <1>11
  DEF DispatcherNext, RuntimeStep

LEMMA DispatcherTypesSafe ==
  DispatcherInit /\ [][DispatcherNext]_dispatcherVars => []DispatcherTypeOK
<1>1. DispatcherInit => RevokedInv
  BY DEF DispatcherInit, RevokedInv
<1>2. DispatcherInv /\ RevokedInv => DispatcherTypeOK
  BY DEF DispatcherInv, LaunchesInv, OpsInv, RevokedInv, DispatcherTypeOK
<1> QED  BY <1>1, <1>2, DispatcherSafe, RevokedStep, PTL

-----------------------------------------------------------------------------
(***************************************************************************)
(* CommonActions                                                           *)
(***************************************************************************)

IsChange(op) == op.step # "idle" /\ op.kind \in Changes
Running(op) == op.step \in {"signing", "sending"} /\ op.kind \in Changes
Waits(o, q) == \E n \in 1..Len(q) : q[n] = o

\* The queue of an account: its changes, each once, the one that runs first.
QueueOf(u, q, os) ==
  /\ q \in Seq(Ops)
  /\ \A m, n \in 1..Len(q) : q[m] = q[n] => m = n
  /\ \A o \in Ops : Waits(o, q) <=> (IsChange(os[o]) /\ os[o].by.user = u)
  /\ \A o \in Ops : Running(os[o]) /\ os[o].by.user = u => q[1] = o

OpKnown(op) ==
  /\ op \in Op
  /\ op.step # "idle" => op.by.user \in Users
  /\ op.step = "queued" => op.kind \in Changes

\* A change that runs is built on the list the store still has, or was overtaken.
Result(op, people) == IF op.kind = "follow" THEN people \cup {op.person}
                      ELSE people \ {op.person}

BuiltOn(op, list, over) ==
  over \/ (op.list.at > list.at /\ op.list.people = Result(op, list.people))

WorldInv ==
  /\ identity \in Identity
  /\ contacts \in [Users -> List] /\ intended \in [Users -> SUBSET People]
  /\ overtaken \in [Users -> BOOLEAN] /\ serviceClosed \in BOOLEAN
  /\ loads \in [CommonWindows -> SUBSET Users]
  /\ FollowsAreKept

ChangesInv ==
  /\ ops \in [Ops -> Op]
  /\ tails \in [Users -> Seq(Ops)]
  /\ \A o \in Ops : OpKnown(ops[o])
  /\ \A u \in Users : QueueOf(u, tails[u], ops)
  /\ \A o \in Ops :
       Running(ops[o]) => BuiltOn(ops[o], contacts[ops[o].by.user], overtaken[ops[o].by.user])

CommonInv == WorldInv /\ ChangesInv

-----------------------------------------------------------------------------
\* A queue without its first.
LEMMA QueueShrinks ==
  ASSUME NEW q \in Seq(Ops), NEW o \in Ops, Len(q) >= 1, q[1] = o,
         \A m, n \in 1..Len(q) : q[m] = q[n] => m = n
  PROVE  /\ Tail(q) \in Seq(Ops)
         /\ \A m, n \in 1..Len(Tail(q)) : Tail(q)[m] = Tail(q)[n] => m = n
         /\ \A p \in Ops : Waits(p, Tail(q)) <=> (Waits(p, q) /\ p # o)
<1>1. q # <<>> /\ Len(q) \in Nat
  BY EmptySeq, LenProperties
<1> DEFINE t == Tail(q)
<1>2. /\ t \in Seq(Ops) /\ Len(t) = Len(q) - 1
      /\ \A i \in 1..Len(t) : t[i] = q[i + 1]
  BY <1>1, HeadTailProperties
<1> HIDE DEF t
<1>3. \A m, n \in 1..Len(t) : t[m] = t[n] => m = n
  <2> TAKE m, n \in 1..Len(t)
  <2>1. m + 1 \in 1..Len(q) /\ n + 1 \in 1..Len(q) /\ m \in Nat /\ n \in Nat
    BY <1>1, <1>2
  <2>2. t[m] = q[m + 1] /\ t[n] = q[n + 1]
    BY <1>2
  <2> HAVE t[m] = t[n]
  <2>3. m + 1 = n + 1
    BY <2>1, <2>2
  <2> QED  BY <2>1, <2>3
<1>4. ASSUME NEW p \in Ops  PROVE Waits(p, t) <=> (Waits(p, q) /\ p # o)
  <2>1. ASSUME NEW i \in 1..Len(t), t[i] = p  PROVE Waits(p, q) /\ p # o
    <3>1. i + 1 \in 1..Len(q) /\ 1 \in 1..Len(q) /\ i + 1 # 1 /\ q[i + 1] = p
      BY <1>1, <1>2, <2>1
    <3> QED  BY <3>1 DEF Waits
  <2>2. ASSUME NEW i \in 1..Len(q), q[i] = p, p # o  PROVE Waits(p, t)
    <3>1. i # 1
      BY <2>2
    <3>2. i - 1 \in 1..Len(t) /\ (i - 1) + 1 = i
      BY <1>1, <1>2, <3>1
    <3>3. t[i - 1] = p
      BY <1>2, <2>2, <3>2
    <3> QED  BY <3>2, <3>3 DEF Waits
  <2> QED  BY <2>1, <2>2 DEF Waits
<1> QED  BY <1>2, <1>3, <1>4 DEF t

\* A queue with one that was not in it.
LEMMA QueueGrows ==
  ASSUME NEW q \in Seq(Ops), NEW o \in Ops, ~Waits(o, q),
         \A m, n \in 1..Len(q) : q[m] = q[n] => m = n
  PROVE  /\ Append(q, o) \in Seq(Ops)
         /\ \A m, n \in 1..Len(Append(q, o)) : Append(q, o)[m] = Append(q, o)[n] => m = n
         /\ \A p \in Ops : Waits(p, Append(q, o)) <=> (Waits(p, q) \/ p = o)
         /\ Len(q) >= 1 => Append(q, o)[1] = q[1]
<1> DEFINE t == Append(q, o)
<1>1. /\ t \in Seq(Ops) /\ Len(t) = Len(q) + 1 /\ Len(q) \in Nat
      /\ \A i \in 1..Len(q) : t[i] = q[i]
      /\ t[Len(q) + 1] = o
  BY AppendProperties, LenProperties
<1> HIDE DEF t
<1>2. \A i \in 1..Len(t) : i \in 1..Len(q) \/ i = Len(q) + 1
  BY <1>1
<1>3. \A i \in 1..Len(q) : q[i] # o /\ i \in 1..Len(t)
  BY <1>1 DEF Waits
<1>4. \A m, n \in 1..Len(t) : t[m] = t[n] => m = n
  BY <1>1, <1>2, <1>3
<1>5. ASSUME NEW p \in Ops  PROVE Waits(p, t) <=> (Waits(p, q) \/ p = o)
  <2>1. Len(q) + 1 \in 1..Len(t)
    BY <1>1
  <2> QED  BY <1>1, <1>2, <1>3, <2>1 DEF Waits
<1>6. Len(q) >= 1 => t[1] = q[1]
  BY <1>1
<1> QED  BY <1>1, <1>4, <1>5, <1>6 DEF t

LEMMA FirstOfQueue ==
  ASSUME ChangesInv, NEW o \in Ops, IsChange(ops[o])
  PROVE  /\ ops[o].by.user \in Users
         /\ Len(tails[ops[o].by.user]) \in Nat /\ Len(tails[ops[o].by.user]) >= 1
<1>1. ops[o].by.user \in Users
  BY DEF ChangesInv, OpKnown, IsChange
<1>2. tails[ops[o].by.user] \in Seq(Ops) /\ Waits(o, tails[ops[o].by.user])
  BY <1>1 DEF ChangesInv, QueueOf
<1> QED  BY <1>1, <1>2, LenProperties DEF Waits

\* An operation is over, and at most the list of its account changed.
LEMMA OverChanges ==
  ASSUME ChangesInv, NEW o \in Ops, ops[o].step # "idle", OpOver(o),
         IsChange(ops[o]) => tails[ops[o].by.user][1] = o,
         \A v \in Users : contacts'[v] = contacts[v] \/ (IsChange(ops[o]) /\ v = ops[o].by.user),
         overtaken \in [Users -> BOOLEAN]
  PROVE  ChangesInv' /\ overtaken' \in [Users -> BOOLEAN]
<1> DEFINE u == ops[o].by.user
<1>1. /\ ops \in [Ops -> Op] /\ u \in Users /\ ops[o].kind \in Changes \cup {"note"}
      /\ "note" \notin Changes
  BY DEF ChangesInv, OpKnown, Op, Changes
<1>2. ops' = [ops EXCEPT ![o] = NoOp]
  BY DEF OpOver
<1>3. NoOp \in Op /\ NoOp.step = "idle" /\ ~IsChange(NoOp) /\ ~Running(NoOp) /\ OpKnown(NoOp)
  <2>1. Somebody \in People /\ 0 \in 0..MaxSwitches /\ 0 \in 0..MaxSeconds
    BY CommonAssumption DEF Somebody
  <2> QED  BY <2>1 DEF NoOp, Op, Identity, List, EmptyList, OpKnown, IsChange, Running, Changes
<1>4. ops' \in [Ops -> Op] /\ ops'[o] = NoOp /\ \A p \in Ops \ {o} : ops'[p] = ops[p]
  BY <1>1, <1>2, <1>3
<1>5. \A p \in Ops : OpKnown(ops'[p])
  BY <1>3, <1>4 DEF ChangesInv
<1>6. CASE ops[o].kind = "note"
  <2>1. tails' = tails /\ overtaken' = overtaken /\ \A v \in Users : contacts'[v] = contacts[v]
    BY <1>1, <1>6 DEF OpOver, IsChange
  <2>2. ~IsChange(ops[o]) /\ ~Running(ops[o])
    BY <1>1, <1>6 DEF IsChange, Running
  <2>3. \A p \in Ops : /\ IsChange(ops'[p]) <=> IsChange(ops[p])
                       /\ Running(ops'[p]) => Running(ops[p])
                       /\ IsChange(ops[p]) => ops'[p] = ops[p]
                       /\ Running(ops[p]) => ops'[p] = ops[p]
    BY <1>3, <1>4, <2>2
  <2>4. ASSUME NEW v \in Users  PROVE QueueOf(v, tails'[v], ops')
    <3>1. QueueOf(v, tails[v], ops)
      BY DEF ChangesInv
    <3>2. \A p \in Ops : (IsChange(ops'[p]) /\ ops'[p].by.user = v)
                           <=> (IsChange(ops[p]) /\ ops[p].by.user = v)
      BY <2>3
    <3>3. \A p \in Ops : Running(ops'[p]) /\ ops'[p].by.user = v
                           => Running(ops[p]) /\ ops[p].by.user = v
      BY <2>3
    <3> QED  BY <2>1, <3>1, <3>2, <3>3 DEF QueueOf
  <2>5. ASSUME NEW p \in Ops, Running(ops'[p])
        PROVE  BuiltOn(ops'[p], contacts'[ops'[p].by.user], overtaken'[ops'[p].by.user])
    <3>1. Running(ops[p]) /\ ops'[p] = ops[p]
      BY <2>3, <2>5
    <3>2. ops[p].by.user \in Users
      BY <3>1 DEF ChangesInv, OpKnown, Running
    <3> QED  BY <2>1, <3>1, <3>2 DEF ChangesInv
  <2>6. tails' \in [Users -> Seq(Ops)]
    BY <2>1 DEF ChangesInv
  <2> QED  BY <1>4, <1>5, <2>1, <2>4, <2>5, <2>6 DEF ChangesInv
<1>7. CASE ops[o].kind \in Changes
  <2>1. IsChange(ops[o]) /\ tails[u][1] = o /\ Len(tails[u]) >= 1
    BY <1>7, FirstOfQueue DEF IsChange
  <2>2. tails' = [tails EXCEPT ![u] = Tail(@)] /\ overtaken' = [overtaken EXCEPT ![u] = FALSE]
    BY <1>1, <1>7 DEF OpOver
  <2>3. QueueOf(u, tails[u], ops) /\ tails \in [Users -> Seq(Ops)]
    BY <1>1 DEF ChangesInv
  <2>4. /\ Tail(tails[u]) \in Seq(Ops)
        /\ \A m, n \in 1..Len(Tail(tails[u])) : Tail(tails[u])[m] = Tail(tails[u])[n] => m = n
        /\ \A p \in Ops : Waits(p, Tail(tails[u])) <=> (Waits(p, tails[u]) /\ p # o)
    BY <2>1, <2>3, QueueShrinks DEF QueueOf
  <2>5. tails' \in [Users -> Seq(Ops)] /\ tails'[u] = Tail(tails[u])
        /\ \A v \in Users \ {u} : tails'[v] = tails[v]
    BY <1>1, <2>2, <2>3, <2>4
  <2>6. \A p \in Ops : Running(ops[p]) /\ ops[p].by.user = u => p = o
    BY <2>1, <2>3 DEF QueueOf
  <2>7. ASSUME NEW v \in Users  PROVE QueueOf(v, tails'[v], ops')
    <3>1. QueueOf(v, tails[v], ops)
      BY DEF ChangesInv
    <3>2. CASE v = u
      <4>1. \A p \in Ops : ~(Running(ops'[p]) /\ ops'[p].by.user = u)
        BY <1>3, <1>4, <2>6
      <4>2. \A p \in Ops : (IsChange(ops'[p]) /\ ops'[p].by.user = u)
                             <=> (IsChange(ops[p]) /\ ops[p].by.user = u /\ p # o)
        BY <1>3, <1>4
      <4>3. \A p \in Ops : Waits(p, tails[u]) <=> (IsChange(ops[p]) /\ ops[p].by.user = u)
        BY <2>3 DEF QueueOf
      <4>4. \A p \in Ops : Waits(p, tails'[u]) <=> (IsChange(ops'[p]) /\ ops'[p].by.user = u)
        BY <2>4, <2>5, <4>2, <4>3
      <4>5. \A p \in Ops : Running(ops'[p]) /\ ops'[p].by.user = u => tails'[u][1] = p
        BY <4>1
      <4>6. /\ tails'[u] \in Seq(Ops)
            /\ \A m, n \in 1..Len(tails'[u]) : tails'[u][m] = tails'[u][n] => m = n
        BY <2>4, <2>5
      <4> HIDE DEF u
      <4>7. QueueOf(u, tails'[u], ops')
        BY <4>4, <4>5, <4>6 DEF QueueOf
      <4> QED  BY <3>2, <4>7
    <3>3. CASE v # u
      <4>1. tails'[v] = tails[v]
        BY <2>5, <3>3
      <4>2. \A p \in Ops : (IsChange(ops'[p]) /\ ops'[p].by.user = v)
                             <=> (IsChange(ops[p]) /\ ops[p].by.user = v)
        BY <1>3, <1>4, <3>3
      <4>3. \A p \in Ops : Running(ops'[p]) /\ ops'[p].by.user = v
                             => Running(ops[p]) /\ ops[p].by.user = v
        BY <1>3, <1>4
      <4> QED  BY <3>1, <4>1, <4>2, <4>3 DEF QueueOf
    <3> QED  BY <3>2, <3>3
  <2>8. ASSUME NEW p \in Ops, Running(ops'[p])
        PROVE  BuiltOn(ops'[p], contacts'[ops'[p].by.user], overtaken'[ops'[p].by.user])
    <3>1. p # o /\ ops'[p] = ops[p] /\ Running(ops[p])
      BY <1>3, <1>4, <2>8
    <3>2. ops[p].by.user \in Users /\ ops[p].by.user # u
      BY <2>6, <3>1 DEF ChangesInv, OpKnown, Running
    <3>3. /\ contacts'[ops[p].by.user] = contacts[ops[p].by.user]
          /\ overtaken'[ops[p].by.user] = overtaken[ops[p].by.user]
      BY <2>2, <3>2
    <3>4. BuiltOn(ops[p], contacts[ops[p].by.user], overtaken[ops[p].by.user])
      BY <3>1 DEF ChangesInv
    <3> QED  BY <3>1, <3>3, <3>4
  <2> QED  BY <1>4, <1>5, <2>2, <2>5, <2>7, <2>8 DEF ChangesInv
<1> QED  BY <1>1, <1>6, <1>7

\* Nothing about the changes themselves moves.
LEMMA SameChanges ==
  ASSUME ChangesInv, UNCHANGED <<ops, tails, contacts, overtaken>>
  PROVE  ChangesInv'
BY DEF ChangesInv

LEMMA InitCommon == CommonInit => CommonInv
<1> SUFFICES ASSUME CommonInit  PROVE CommonInv
  OBVIOUS
<1>1. Somebody \in People /\ 0 \in 0..MaxSwitches /\ 0 \in 0..MaxSeconds
  BY CommonAssumption DEF Somebody
<1>2. EmptyList \in List /\ NoOp \in Op /\ NoOp.step = "idle"
  BY <1>1 DEF NoOp, Op, Identity, List, EmptyList
<1>3. identity \in Identity
  BY <1>1 DEF CommonInit, Identity
<1>4. FollowsAreKept
  BY DEF CommonInit, FollowsAreKept, EmptyList
<1>5. WorldInv
  BY <1>2, <1>3, <1>4 DEF CommonInit, WorldInv
<1>6. \A o \in Ops : ops[o] = NoOp /\ OpKnown(ops[o]) /\ ~IsChange(ops[o]) /\ ~Running(ops[o])
  BY <1>2 DEF CommonInit, OpKnown, IsChange, Running
<1>7. ASSUME NEW u \in Users  PROVE tails[u] \in Seq(Ops) /\ QueueOf(u, tails[u], ops)
  <2>1. tails[u] = <<>> /\ tails[u] \in Seq(Ops) /\ Len(tails[u]) = 0
    BY EmptySeq DEF CommonInit
  <2>2. \A n \in 1..Len(tails[u]) : FALSE
    BY <2>1
  <2> QED  BY <1>6, <2>1, <2>2 DEF QueueOf, Waits
<1>8. ops \in [Ops -> Op] /\ tails \in [Users -> Seq(Ops)]
  BY <1>2, <1>7 DEF CommonInit
<1>9. ChangesInv
  BY <1>6, <1>7, <1>8 DEF ChangesInv
<1> QED  BY <1>5, <1>9 DEF CommonInv

LEMMA UserCommon ==
  ASSUME CommonInv, UserStep
  PROVE  CommonInv' /\ ops' = ops
<1>1. UNCHANGED <<world, ops, tails>>
  BY DEF UserStep, IdentityChanges, CancelLoads, CloseCommon
<1>2. ChangesInv'
  BY <1>1, SameChanges DEF CommonInv, world, histories
<1>3. identity' \in Identity
  <2>1. CASE \E u \in Users \cup {NobodyActive} : IdentityChanges(u)
    <3>1. PICK u \in Users \cup {NobodyActive} : IdentityChanges(u)
      BY <2>1
    <3>2. identity.generation \in 0..MaxSwitches /\ MaxSwitches \in Nat
      BY CommonAssumption DEF CommonInv, WorldInv, Identity
    <3>3. identity.generation + 1 \in 0..MaxSwitches
      BY <3>1, <3>2 DEF IdentityChanges
    <3> QED  BY <3>1, <3>3 DEF IdentityChanges, Identity
  <2>2. CASE identity' = identity
    BY <2>2 DEF CommonInv, WorldInv
  <2> QED  BY <2>1, <2>2 DEF UserStep, CancelLoads, CloseCommon
<1>4. loads' \in [CommonWindows -> SUBSET Users] /\ serviceClosed' \in BOOLEAN
  BY DEF UserStep, IdentityChanges, CancelLoads, CloseCommon, CommonInv, WorldInv
<1> QED  BY <1>1, <1>2, <1>3, <1>4 DEF CommonInv, WorldInv, world, histories, FollowsAreKept

\* Loads begin and end; lists do not.
LEMMA LoadsCommon ==
  ASSUME CommonInv,
         (\E w \in CommonWindows : AskFollows(w))
           \/ (\E w \in CommonWindows, u \in Users : LoadEnds(w, u))
  PROVE  CommonInv' /\ ops' = ops
<1>1. UNCHANGED <<identity, world, ops, tails, serviceClosed>>
  BY DEF AskFollows, LoadEnds
<1>2. ChangesInv'
  BY <1>1, SameChanges DEF CommonInv, world, histories
<1>3. loads' \in [CommonWindows -> SUBSET Users]
  BY DEF AskFollows, LoadEnds, CommonInv, WorldInv, Identity
<1> QED  BY <1>1, <1>2, <1>3 DEF CommonInv, WorldInv, world, histories, FollowsAreKept

\* The list of an account, when another is stored for it.
LEMMA StoredList ==
  ASSUME contacts \in [Users -> List], NEW u \in Users, NEW list \in List, Stored(u, list)
  PROVE  /\ contacts' \in [Users -> List] /\ contacts'[u] \in Newest(contacts[u], list)
         /\ list.at > contacts[u].at => contacts'[u] = list
         /\ \A v \in Users \ {u} : contacts'[v] = contacts[v]
<1>1. PICK kept \in Newest(contacts[u], list) : contacts' = [contacts EXCEPT ![u] = kept]
  BY DEF Stored
<1>2. /\ kept \in {contacts[u], list} /\ kept.at >= list.at
      /\ contacts[u].at \in Nat /\ list.at \in Nat /\ contacts[u] \in List
  BY <1>1, CommonAssumption DEF Newest, List
<1>3. list.at > contacts[u].at => kept = list
  BY <1>2
<1>4. contacts'[u] = kept /\ \A v \in Users \ {u} : contacts'[v] = contacts[v]
  BY <1>1
<1>5. contacts' \in [Users -> List]
  BY <1>1, <1>2
<1> QED  BY <1>1, <1>3, <1>4, <1>5

\* A list comes from the relays: a change that runs is overtaken if the store's list moves.
LEMMA ArrivedCommon ==
  ASSUME CommonInv, NEW u \in Users, NEW list \in List, ListArrives(u, list)
  PROVE  CommonInv' /\ ops' = ops
<1>1. /\ contacts' \in [Users -> List]
      /\ \A v \in Users \ {u} : contacts'[v] = contacts[v]
  BY StoredList DEF CommonInv, WorldInv, ListArrives
<1>2. /\ intended' = [intended EXCEPT ![u] = contacts'[u].people]
      /\ overtaken' = [overtaken EXCEPT ![u] =
                         @ \/ (contacts'[u] # contacts[u] /\ BeingChanged(u))]
      /\ UNCHANGED <<identity, ops, tails, loads, serviceClosed>>
  BY DEF ListArrives
<1>3. contacts'[u].people \in SUBSET People
  BY <1>1 DEF List
<1>4. BeingChanged(u) \in BOOLEAN
  BY DEF BeingChanged
<1>5. /\ intended' \in [Users -> SUBSET People] /\ overtaken' \in [Users -> BOOLEAN]
      /\ intended'[u] = contacts'[u].people
      /\ overtaken'[u] <=> (overtaken[u] \/ (contacts'[u] # contacts[u] /\ BeingChanged(u)))
      /\ \A v \in Users \ {u} : intended'[v] = intended[v] /\ overtaken'[v] = overtaken[v]
  <2> DEFINE moved == contacts'[u] # contacts[u] /\ BeingChanged(u)
  <2>1. moved \in BOOLEAN
    OBVIOUS
  <2>2. overtaken' = [overtaken EXCEPT ![u] = @ \/ moved]
    BY <1>2
  <2> HIDE DEF moved
  <2>3. overtaken' \in [Users -> BOOLEAN] /\ (overtaken'[u] <=> (overtaken[u] \/ moved))
        /\ \A v \in Users \ {u} : overtaken'[v] = overtaken[v]
    BY <2>1, <2>2 DEF CommonInv, WorldInv
  <2>4. /\ intended' \in [Users -> SUBSET People] /\ intended'[u] = contacts'[u].people
        /\ \A v \in Users \ {u} : intended'[v] = intended[v]
    BY <1>2, <1>3 DEF CommonInv, WorldInv
  <2> QED  BY <2>3, <2>4 DEF moved
<1>6. FollowsAreKept'
  BY <1>1, <1>5 DEF CommonInv, WorldInv, FollowsAreKept
<1>7. WorldInv'
  BY <1>1, <1>2, <1>5, <1>6 DEF CommonInv, WorldInv
<1>8. ASSUME NEW o \in Ops, Running(ops[o])
      PROVE  BuiltOn(ops[o], contacts'[ops[o].by.user], overtaken'[ops[o].by.user])
  <2>1. ops[o].by.user \in Users
    BY <1>8 DEF CommonInv, ChangesInv, OpKnown, Running
  <2>2. BuiltOn(ops[o], contacts[ops[o].by.user], overtaken[ops[o].by.user])
    BY <1>8 DEF CommonInv, ChangesInv
  <2>3. CASE ops[o].by.user = u
    <3>1. BeingChanged(u)
      BY <1>8, <2>3 DEF BeingChanged, Running
    <3> QED  BY <1>5, <2>2, <2>3, <3>1 DEF BuiltOn
  <2>4. CASE ops[o].by.user # u
    BY <1>1, <1>5, <2>1, <2>2, <2>4
  <2> QED  BY <2>3, <2>4
<1>9. ChangesInv'
  BY <1>2, <1>8 DEF CommonInv, ChangesInv
<1> QED  BY <1>2, <1>7, <1>9 DEF CommonInv

\* A note is asked for: no list is about to change.
LEMMA ActNote ==
  ASSUME CommonInv, NEW o \in Ops, Act(o, "note", Somebody)
  PROVE  CommonInv' /\ ops'[o].step # "sending" /\ \A p \in Ops \ {o} : ops'[p] = ops[p]
<1> DEFINE new == [step |-> "signing", kind |-> "note", person |-> Somebody,
                   by |-> identity, list |-> EmptyList]
<1>1. /\ ops' = [ops EXCEPT ![o] = new] /\ ops[o].step = "idle"
      /\ tails' = tails /\ UNCHANGED <<identity, world, loads, serviceClosed>>
      /\ identity.user # NobodyActive
  BY DEF Act
<1>2. new.by.user \in Users
  BY <1>1 DEF CommonInv, WorldInv, Identity
<1>3. Somebody \in People /\ EmptyList \in List
  BY CommonAssumption DEF Somebody, EmptyList, List
<1>4. /\ new \in Op /\ OpKnown(new) /\ ~IsChange(new) /\ ~Running(new)
      /\ new.step # "sending"
  BY <1>2, <1>3 DEF CommonInv, WorldInv, Op, OpKnown, IsChange, Running, Changes
<1>5. ~IsChange(ops[o]) /\ ~Running(ops[o])
  BY <1>1 DEF IsChange, Running
<1> HIDE DEF new
<1>6. ops' \in [Ops -> Op] /\ ops'[o] = new /\ \A p \in Ops \ {o} : ops'[p] = ops[p]
  BY <1>1, <1>4 DEF CommonInv, ChangesInv
<1>7. \A p \in Ops : /\ IsChange(ops'[p]) <=> IsChange(ops[p])
                     /\ IsChange(ops[p]) => ops'[p] = ops[p]
                     /\ Running(ops'[p]) <=> Running(ops[p])
                     /\ Running(ops[p]) => ops'[p] = ops[p]
  BY <1>4, <1>5, <1>6
<1>8. ASSUME NEW v \in Users  PROVE QueueOf(v, tails'[v], ops')
  <2>1. QueueOf(v, tails[v], ops)
    BY DEF CommonInv, ChangesInv
  <2>2. \A p \in Ops : (IsChange(ops'[p]) /\ ops'[p].by.user = v)
                         <=> (IsChange(ops[p]) /\ ops[p].by.user = v)
    BY <1>7
  <2>3. \A p \in Ops : Running(ops'[p]) /\ ops'[p].by.user = v
                         => Running(ops[p]) /\ ops[p].by.user = v
    BY <1>7
  <2> QED  BY <1>1, <2>1, <2>2, <2>3 DEF QueueOf
<1>9. ASSUME NEW p \in Ops, Running(ops'[p])
      PROVE  BuiltOn(ops'[p], contacts'[ops'[p].by.user], overtaken'[ops'[p].by.user])
  <2>1. Running(ops[p]) /\ ops'[p] = ops[p]
    BY <1>7, <1>9
  <2> QED  BY <1>1, <2>1 DEF CommonInv, ChangesInv, world, histories
<1>10. \A p \in Ops : OpKnown(ops'[p])
  BY <1>4, <1>6 DEF CommonInv, ChangesInv
<1>11. ChangesInv'
  BY <1>1, <1>6, <1>8, <1>9, <1>10 DEF CommonInv, ChangesInv
<1>12. WorldInv'
  BY <1>1 DEF CommonInv, WorldInv, world, histories, FollowsAreKept
<1> QED  BY <1>4, <1>6, <1>11, <1>12 DEF CommonInv

\* A change is asked for: it is last in the queue of the account.
LEMMA ActChange ==
  ASSUME CommonInv, NEW o \in Ops, NEW kind \in Changes, NEW person \in People,
         Act(o, kind, person)
  PROVE  CommonInv' /\ ops'[o].step # "sending" /\ \A p \in Ops \ {o} : ops'[p] = ops[p]
<1> DEFINE new == [step |-> "queued", kind |-> kind, person |-> person,
                   by |-> identity, list |-> EmptyList]
           u == identity.user
<1>1. kind # "note"
  BY DEF Changes
<1>2. /\ ops' = [ops EXCEPT ![o] = new] /\ ops[o].step = "idle"
      /\ tails' = [tails EXCEPT ![u] = Append(@, o)]
      /\ UNCHANGED <<identity, world, loads, serviceClosed>>
      /\ u # NobodyActive
  BY <1>1 DEF Act
<1>3. u \in Users
  BY <1>2 DEF CommonInv, WorldInv, Identity
<1>4. EmptyList \in List
  BY CommonAssumption DEF EmptyList, List
<1>5. /\ new \in Op /\ OpKnown(new) /\ IsChange(new) /\ ~Running(new)
      /\ new.step # "sending" /\ new.by.user = u
  BY <1>3, <1>4 DEF CommonInv, WorldInv, Op, OpKnown, IsChange, Running, Changes
<1>6. ~IsChange(ops[o]) /\ ~Running(ops[o])
  BY <1>2 DEF IsChange, Running
<1> HIDE DEF new, u
<1>7. ops' \in [Ops -> Op] /\ ops'[o] = new /\ \A p \in Ops \ {o} : ops'[p] = ops[p]
  BY <1>2, <1>5 DEF CommonInv, ChangesInv
<1>8. tails \in [Users -> Seq(Ops)] /\ QueueOf(u, tails[u], ops)
  BY <1>3 DEF CommonInv, ChangesInv
<1>9. ~Waits(o, tails[u])
  BY <1>6, <1>8 DEF QueueOf
<1>10. /\ Append(tails[u], o) \in Seq(Ops)
       /\ \A m, n \in 1..Len(Append(tails[u], o)) :
            Append(tails[u], o)[m] = Append(tails[u], o)[n] => m = n
       /\ \A p \in Ops : Waits(p, Append(tails[u], o)) <=> (Waits(p, tails[u]) \/ p = o)
       /\ Len(tails[u]) >= 1 => Append(tails[u], o)[1] = tails[u][1]
  BY <1>8, <1>9, QueueGrows DEF QueueOf
<1>11. tails' \in [Users -> Seq(Ops)] /\ tails'[u] = Append(tails[u], o)
       /\ \A v \in Users \ {u} : tails'[v] = tails[v]
  BY <1>2, <1>3, <1>8, <1>10
<1>12. \A p \in Ops : /\ Running(ops'[p]) <=> Running(ops[p])
                      /\ Running(ops[p]) => ops'[p] = ops[p]
                      /\ IsChange(ops'[p]) <=> (IsChange(ops[p]) \/ p = o)
                      /\ IsChange(ops[p]) => ops'[p] = ops[p]
  BY <1>5, <1>6, <1>7
<1>13. ASSUME NEW v \in Users  PROVE QueueOf(v, tails'[v], ops')
  <2>1. QueueOf(v, tails[v], ops)
    BY DEF CommonInv, ChangesInv
  <2>2. CASE v # u
    <3>1. \A p \in Ops : (IsChange(ops'[p]) /\ ops'[p].by.user = v)
                           <=> (IsChange(ops[p]) /\ ops[p].by.user = v)
      BY <1>5, <1>7, <1>12, <2>2
    <3>2. \A p \in Ops : Running(ops'[p]) /\ ops'[p].by.user = v
                           => Running(ops[p]) /\ ops[p].by.user = v
      BY <1>12
    <3>3. tails'[v] = tails[v]
      BY <1>11, <2>2
    <3> QED  BY <2>1, <3>1, <3>2, <3>3 DEF QueueOf
  <2>3. CASE v = u
    <3>1. \A p \in Ops : (IsChange(ops'[p]) /\ ops'[p].by.user = u)
                           <=> ((IsChange(ops[p]) /\ ops[p].by.user = u) \/ p = o)
      BY <1>5, <1>7, <1>12
    <3>2. \A p \in Ops : Waits(p, tails'[u]) <=> (IsChange(ops'[p]) /\ ops'[p].by.user = u)
      BY <1>8, <1>10, <1>11, <3>1 DEF QueueOf
    <3>3. ASSUME NEW p \in Ops, Running(ops'[p]), ops'[p].by.user = u
          PROVE  tails'[u][1] = p
      <4>1. Running(ops[p]) /\ ops[p].by.user = u
        BY <1>12, <3>3
      <4>2. tails[u][1] = p
        BY <1>8, <4>1 DEF QueueOf
      <4>3. IsChange(ops[p])
        BY <4>1 DEF IsChange, Running
      <4>4. Len(tails[u]) >= 1
        BY <4>1, <4>3, FirstOfQueue DEF CommonInv
      <4> QED  BY <1>10, <1>11, <4>2, <4>4
    <3>4. /\ tails'[u] \in Seq(Ops)
          /\ \A m, n \in 1..Len(tails'[u]) : tails'[u][m] = tails'[u][n] => m = n
      BY <1>10, <1>11
    <3>5. QueueOf(u, tails'[u], ops')
      BY <3>2, <3>3, <3>4 DEF QueueOf
    <3> QED  BY <2>3, <3>5
  <2> QED  BY <2>2, <2>3
<1>14. ASSUME NEW p \in Ops, Running(ops'[p])
       PROVE  BuiltOn(ops'[p], contacts'[ops'[p].by.user], overtaken'[ops'[p].by.user])
  <2>1. Running(ops[p]) /\ ops'[p] = ops[p]
    BY <1>12, <1>14
  <2> QED  BY <1>2, <2>1 DEF CommonInv, ChangesInv, world, histories
<1>15. \A p \in Ops : OpKnown(ops'[p])
  BY <1>5, <1>7 DEF CommonInv, ChangesInv
<1>16. ChangesInv'
  BY <1>7, <1>11, <1>13, <1>14, <1>15 DEF CommonInv, ChangesInv
<1>17. WorldInv'
  BY <1>2 DEF CommonInv, WorldInv, world, histories, FollowsAreKept
<1> QED  BY <1>5, <1>7, <1>16, <1>17 DEF CommonInv

\* An operation that fails leaves the list as it is.
LEMMA FailsCommon ==
  ASSUME CommonInv, NEW o \in Ops, ops[o].step # "idle", Fails(o),
         IsChange(ops[o]) => tails[ops[o].by.user][1] = o,
         UNCHANGED <<identity, loads, serviceClosed>>
  PROVE  CommonInv' /\ ops'[o].step # "sending" /\ \A p \in Ops \ {o} : ops'[p] = ops[p]
<1>1. OpOver(o) /\ contacts' = contacts /\ ops' = [ops EXCEPT ![o] = NoOp]
  BY DEF Fails, OpOver
<1>2. ChangesInv' /\ overtaken' \in [Users -> BOOLEAN]
  BY <1>1, OverChanges DEF CommonInv, WorldInv
<1>3. intended' \in [Users -> SUBSET People]
  BY DEF Fails, CommonInv, WorldInv, List
<1>4. ASSUME NEW v \in Users  PROVE overtaken'[v] \/ contacts'[v].people = intended'[v]
  <2>1. overtaken[v] \/ contacts[v].people = intended[v]
    BY DEF CommonInv, WorldInv, FollowsAreKept
  <2>2. intended'[v] = IF overtaken[v] /\ ops[o].kind # "note" /\ v = ops[o].by.user
                       THEN contacts[v].people ELSE intended[v]
    BY DEF Fails
  <2>3. ~(ops[o].kind # "note" /\ v = ops[o].by.user) => overtaken'[v] = overtaken[v]
    BY <1>1 DEF OpOver, CommonInv, WorldInv
  <2> QED  BY <1>1, <2>1, <2>2, <2>3
<1>5. WorldInv'
  BY <1>1, <1>2, <1>3, <1>4 DEF CommonInv, WorldInv, FollowsAreKept
<1>6. ops'[o].step # "sending" /\ \A p \in Ops \ {o} : ops'[p] = ops[p]
  BY <1>1 DEF CommonInv, ChangesInv, NoOp
<1> QED  BY <1>2, <1>5, <1>6 DEF CommonInv

\* An operation goes on as it is, a step further.
LEMMA StepOfOp ==
  ASSUME CommonInv, NEW o \in Ops, NEW new \in Op, ops' = [ops EXCEPT ![o] = new],
         ops[o].step # "idle", new.step \in {"signing", "sending"},
         new.kind = ops[o].kind, new.by = ops[o].by,
         UNCHANGED <<contacts, tails, intended, overtaken, identity, loads, serviceClosed>>,
         IsChange(ops[o]) => tails[ops[o].by.user][1] = o,
         Running(new) => BuiltOn(new, contacts[new.by.user], overtaken[new.by.user])
  PROVE  CommonInv' /\ \A p \in Ops \ {o} : ops'[p] = ops[p]
<1>1. ops' \in [Ops -> Op] /\ ops'[o] = new /\ \A p \in Ops \ {o} : ops'[p] = ops[p]
  BY DEF CommonInv, ChangesInv
<1>2. OpKnown(new)
  BY DEF CommonInv, ChangesInv, OpKnown
<1>3. IsChange(new) <=> IsChange(ops[o])
  BY DEF IsChange
<1>4. ASSUME NEW v \in Users  PROVE QueueOf(v, tails'[v], ops')
  <2>1. QueueOf(v, tails[v], ops)
    BY DEF CommonInv, ChangesInv
  <2>2. \A p \in Ops : (IsChange(ops'[p]) /\ ops'[p].by.user = v)
                         <=> (IsChange(ops[p]) /\ ops[p].by.user = v)
    BY <1>1, <1>3
  <2>3. ASSUME NEW p \in Ops, Running(ops'[p]), ops'[p].by.user = v  PROVE tails[v][1] = p
    <3>1. CASE p = o
      BY <1>1, <1>3, <2>3, <3>1 DEF Running, IsChange
    <3>2. CASE p # o
      BY <1>1, <2>1, <2>3, <3>2 DEF QueueOf
    <3> QED  BY <3>1, <3>2
  <2> QED  BY <2>1, <2>2, <2>3 DEF QueueOf
<1>5. ASSUME NEW p \in Ops, Running(ops'[p])
      PROVE  BuiltOn(ops'[p], contacts'[ops'[p].by.user], overtaken'[ops'[p].by.user])
  BY <1>1, <1>5 DEF CommonInv, ChangesInv
<1>6. \A p \in Ops : OpKnown(ops'[p])
  BY <1>1, <1>2 DEF CommonInv, ChangesInv
<1>7. ChangesInv'
  BY <1>1, <1>4, <1>5, <1>6 DEF CommonInv, ChangesInv
<1>8. WorldInv'
  BY DEF CommonInv, WorldInv, FollowsAreKept
<1> QED  BY <1>1, <1>7, <1>8 DEF CommonInv

ForTheAsker == \A o \in Ops : ops[o].step = "signing" /\ ops'[o].step = "sending"
                              => ops[o].by = identity

\* The change that runs, or whose turn has come, is first of its queue.
LEMMA RunsFirst ==
  ASSUME CommonInv, NEW o \in Ops,
         ops[o].step \in {"signing", "sending"} \/ IsNext(o), IsChange(ops[o])
  PROVE  tails[ops[o].by.user][1] = o
<1>1. ops[o].by.user \in Users
  BY FirstOfQueue DEF CommonInv
<1>2. QueueOf(ops[o].by.user, tails[ops[o].by.user], ops)
  BY <1>1 DEF CommonInv, ChangesInv
<1>3. CASE ops[o].step \in {"signing", "sending"}
  BY <1>2, <1>3 DEF QueueOf, Running, IsChange
<1>4. CASE IsNext(o)
  <2> DEFINE q == tails[ops[o].by.user]
  <2>1. q \in Seq(Ops) /\ Len(q) >= 1 /\ Head(q) = o
    BY <1>1, <1>2, <1>4, FirstOfQueue DEF CommonInv, QueueOf, IsNext
  <2> HIDE DEF q
  <2>2. Head(q) = q[1]
    BY <2>1
  <2> QED  BY <2>1, <2>2 DEF q
<1> QED  BY <1>3, <1>4

\* The list is built on the store's, at a time past its own.
LEMMA TurnCommon ==
  ASSUME CommonInv, NEW o \in Ops, TurnComes(o)
  PROVE  CommonInv' /\ ForTheAsker
<1>1. /\ ops[o].step = "queued" /\ IsNext(o) /\ UNCHANGED <<identity, loads, serviceClosed>>
      /\ IsChange(ops[o])
  BY DEF TurnComes, IsNext, CommonInv, ChangesInv, OpKnown, IsChange
<1>2. tails[ops[o].by.user][1] = o
  BY <1>1, RunsFirst
<1>3. CASE ~SameIdentity(ops[o].by)
  <2>1. CommonInv' /\ ops'[o].step # "sending" /\ \A p \in Ops \ {o} : ops'[p] = ops[p]
    BY <1>1, <1>2, <1>3, FailsCommon DEF TurnComes
  <2> QED  BY <2>1, <1>1 DEF ForTheAsker
<1>4. CASE SameIdentity(ops[o].by)
  <2> DEFINE u == ops[o].by.user
  <2>1. PICK list \in Changed(u, ops[o].kind, ops[o].person) :
          ops' = [ops EXCEPT ![o].step = "signing", ![o].list = list]
    BY <1>4 DEF TurnComes
  <2>2. UNCHANGED <<contacts, tails, intended, overtaken>>
    BY <1>4 DEF TurnComes
  <2> DEFINE new == [ops[o] EXCEPT !.step = "signing", !.list = list]
  <2>3. ops[o] \in Op /\ u \in Users /\ Len(tails[u]) \in Nat /\ Len(tails[u]) >= 1
        /\ contacts[u] \in List
    BY <1>1, FirstOfQueue DEF CommonInv, ChangesInv, WorldInv
  <2>4. list.at \in contacts[u].at + 1 .. Room(u) + 1
        /\ list.people = Result(ops[o], contacts[u].people)
        /\ list \in [at : contacts[u].at + 1 .. Room(u) + 1, people : {list.people}]
    BY <2>1 DEF Changed, Result
  <2>5. contacts[u].at \in 0..MaxSeconds /\ contacts[u].people \in SUBSET People
        /\ ops[o].person \in People /\ MaxSeconds \in Nat
    BY <2>3, CommonAssumption DEF List, Op
  <2>6. list.at \in 0..MaxSeconds /\ list.at > contacts[u].at
    BY <2>3, <2>4, <2>5 DEF Room
  <2>7. list.people \in SUBSET People
    BY <2>4, <2>5 DEF Result
  <2>8. list \in List
    BY <2>4, <2>6, <2>7 DEF List
  <2>9. /\ new \in Op /\ new.step = "signing" /\ new.kind = ops[o].kind
        /\ new.by = ops[o].by /\ new.person = ops[o].person /\ new.list = list
    BY <2>3, <2>8 DEF Op
  <2>10. ops' = [ops EXCEPT ![o] = new]
    BY <2>1, <2>3 DEF CommonInv, ChangesInv
  <2> HIDE DEF new, u
  <2>11. BuiltOn(new, contacts[new.by.user], overtaken[new.by.user])
    BY <2>4, <2>6, <2>9 DEF BuiltOn, Result, u
  <2>12. CommonInv' /\ \A p \in Ops \ {o} : ops'[p] = ops[p]
    BY <1>1, <1>2, <2>2, <2>9, <2>10, <2>11, StepOfOp
  <2> QED  BY <1>1, <2>12 DEF ForTheAsker
<1> QED  BY <1>3, <1>4

LEMMA SignedCommon ==
  ASSUME CommonInv, NEW o \in Ops, Signed(o)
  PROVE  CommonInv' /\ ForTheAsker
<1>1. ops[o].step = "signing" /\ UNCHANGED <<identity, loads, serviceClosed>>
  BY DEF Signed
<1>2. IsChange(ops[o]) => tails[ops[o].by.user][1] = o
  BY <1>1, RunsFirst
<1>3. CASE ~SameIdentity(ops[o].by)
  <2>1. CommonInv' /\ ops'[o].step # "sending" /\ \A p \in Ops \ {o} : ops'[p] = ops[p]
    BY <1>1, <1>2, <1>3, FailsCommon DEF Signed
  <2> QED  BY <2>1, <1>1 DEF ForTheAsker
<1>4. CASE SameIdentity(ops[o].by)
  <2> DEFINE new == [ops[o] EXCEPT !.step = "sending"]
  <2>1. ops[o] \in Op /\ UNCHANGED <<contacts, tails, intended, overtaken>>
    BY <1>4 DEF Signed, CommonInv, ChangesInv
  <2>2. /\ new \in Op /\ new.step = "sending" /\ new.kind = ops[o].kind
        /\ new.by = ops[o].by /\ new.person = ops[o].person /\ new.list = ops[o].list
    BY <2>1 DEF Op
  <2>3. ops' = [ops EXCEPT ![o] = new]
    BY <1>4 DEF Signed, CommonInv, ChangesInv
  <2> HIDE DEF new
  <2>4. Running(new) => BuiltOn(new, contacts[new.by.user], overtaken[new.by.user])
    <3>1. Running(new) => Running(ops[o])
      BY <1>1, <2>2 DEF Running
    <3>2. Running(ops[o]) =>
            BuiltOn(ops[o], contacts[ops[o].by.user], overtaken[ops[o].by.user])
      BY DEF CommonInv, ChangesInv
    <3> QED  BY <2>2, <3>1, <3>2 DEF BuiltOn, Result
  <2>5. CommonInv' /\ \A p \in Ops \ {o} : ops'[p] = ops[p]
    BY <1>1, <1>2, <2>1, <2>2, <2>3, <2>4, StepOfOp
  <2>6. ops[o].by = identity
    BY <1>4 DEF SameIdentity
  <2> QED  BY <2>5, <2>6 DEF ForTheAsker
<1> QED  BY <1>3, <1>4

LEMMA RefusedCommon ==
  ASSUME CommonInv, NEW o \in Ops, SigningFails(o) \/ SendingFails(o)
  PROVE  CommonInv' /\ ForTheAsker
<1>1. /\ ops[o].step \in {"signing", "sending"} /\ Fails(o)
      /\ UNCHANGED <<identity, loads, serviceClosed>>
  BY DEF SigningFails, SendingFails
<1>2. IsChange(ops[o]) => tails[ops[o].by.user][1] = o
  BY <1>1, RunsFirst
<1>3. CommonInv' /\ ops'[o].step # "sending" /\ \A p \in Ops \ {o} : ops'[p] = ops[p]
  BY <1>1, <1>2, FailsCommon
<1> QED  BY <1>3 DEF ForTheAsker

\* The list that all relays accepted is what the user meant, unless overtaken.
LEMMA AcceptedCommon ==
  ASSUME CommonInv, NEW o \in Ops, AllRelaysAccept(o)
  PROVE  CommonInv' /\ ForTheAsker
<1> DEFINE u == ops[o].by.user
<1>1. /\ ops[o].step = "sending" /\ OpOver(o) /\ ops' = [ops EXCEPT ![o] = NoOp]
      /\ UNCHANGED <<identity, loads, serviceClosed>>
  BY DEF AllRelaysAccept, OpOver
<1>2. ops[o] \in Op /\ u \in Users /\ ops[o].kind \in Changes \cup {"note"}
  BY <1>1 DEF CommonInv, ChangesInv, OpKnown, Op
<1>3. IsChange(ops[o]) => tails[u][1] = o
  BY <1>1, RunsFirst
<1>4. ops'[o].step # "sending" /\ \A p \in Ops \ {o} : ops'[p] = ops[p]
  BY <1>1 DEF CommonInv, ChangesInv, NoOp
<1>5. CASE ops[o].kind = "note"
  <2>1. contacts' = contacts /\ intended' = intended /\ overtaken' = overtaken
    BY <1>1, <1>5 DEF AllRelaysAccept, OpOver
  <2>2. ChangesInv'
    BY <1>1, <1>3, <2>1, OverChanges DEF CommonInv, WorldInv
  <2>3. WorldInv'
    BY <1>1, <2>1 DEF CommonInv, WorldInv, FollowsAreKept
  <2> QED  BY <1>4, <2>2, <2>3 DEF CommonInv, ForTheAsker
<1>6. CASE ops[o].kind \in Changes
  <2>1. /\ Stored(u, ops[o].list) /\ ops[o].list \in List
        /\ IsChange(ops[o]) /\ Running(ops[o])
        /\ intended' = [intended EXCEPT ![u] = IF overtaken[u] THEN contacts'[u].people
                                               ELSE Meant(ops[o])]
    BY <1>1, <1>2, <1>6 DEF AllRelaysAccept, Changes, IsChange, Running, Op
  <2>2. /\ contacts' \in [Users -> List]
        /\ ops[o].list.at > contacts[u].at => contacts'[u] = ops[o].list
        /\ \A v \in Users \ {u} : contacts'[v] = contacts[v]
    BY <1>2, <2>1, StoredList DEF CommonInv, WorldInv
  <2>3. ChangesInv' /\ overtaken' \in [Users -> BOOLEAN]
    BY <1>1, <1>3, <2>1, <2>2, OverChanges DEF CommonInv, WorldInv
  <2>4. BuiltOn(ops[o], contacts[u], overtaken[u])
    BY <2>1 DEF CommonInv, ChangesInv
  <2>5. overtaken[u] \/ contacts[u].people = intended[u]
    BY <1>2 DEF CommonInv, WorldInv, FollowsAreKept
  <2>6. Meant(ops[o]) = Result(ops[o], intended[u])
    BY DEF Meant, Result
  <2>7. ~overtaken[u] => contacts'[u].people = Meant(ops[o])
    BY <2>2, <2>4, <2>5, <2>6 DEF BuiltOn
  <2>8. intended[u] \in SUBSET People /\ ops[o].person \in People
    BY <1>2 DEF CommonInv, WorldInv, Op
  <2>9. Meant(ops[o]) \in SUBSET People /\ contacts'[u].people \in SUBSET People
    BY <1>2, <2>2, <2>6, <2>8 DEF Result, List
  <2>10. /\ intended' \in [Users -> SUBSET People] /\ intended'[u] = contacts'[u].people
         /\ \A v \in Users \ {u} : intended'[v] = intended[v]
    BY <1>2, <2>1, <2>7, <2>9 DEF CommonInv, WorldInv
  <2>11. \A v \in Users \ {u} : overtaken'[v] = overtaken[v]
    BY <1>1, <1>6 DEF OpOver, CommonInv, WorldInv
  <2>12. FollowsAreKept'
    BY <2>2, <2>10, <2>11 DEF CommonInv, WorldInv, FollowsAreKept
  <2>13. WorldInv'
    BY <1>1, <2>2, <2>3, <2>10, <2>12 DEF CommonInv, WorldInv
  <2> QED  BY <1>4, <2>3, <2>13 DEF CommonInv, ForTheAsker
<1> QED  BY <1>2, <1>5, <1>6

\* Nothing moves but what the relays have.
LEMMA OnlyRelays ==
  ASSUME CommonInv,
         UNCHANGED <<identity, contacts, intended, overtaken, ops, tails, loads, serviceClosed>>
  PROVE  CommonInv' /\ ops' = ops
<1>1. ChangesInv'
  BY SameChanges DEF CommonInv
<1> QED  BY <1>1 DEF CommonInv, WorldInv, FollowsAreKept

LEMMA CommonStepInv ==
  ASSUME CommonInv, [CommonNext]_commonVars
  PROVE  CommonInv' /\ ForTheAsker
<1> USE DEF ForTheAsker
<1>1. CASE UNCHANGED commonVars
  <2>1. ChangesInv'
    BY <1>1, SameChanges DEF CommonInv, commonVars, world, histories
  <2> QED  BY <1>1, <2>1 DEF CommonInv, WorldInv, FollowsAreKept, commonVars, world, histories
<1>2. CASE UserStep
  BY <1>2, UserCommon
<1>3. CASE AskStep
  <2>1. CASE \E w \in CommonWindows : AskFollows(w)
    BY <2>1, LoadsCommon
  <2>2. ASSUME NEW o \in Ops, Act(o, "note", Somebody)  PROVE CommonInv' /\ ForTheAsker
    BY <2>2, ActNote
  <2>3. ASSUME NEW o \in Ops, NEW kind \in Changes, NEW person \in People, Act(o, kind, person)
        PROVE  CommonInv' /\ ForTheAsker
    BY <2>3, ActChange
  <2> QED  BY <1>3, <2>1, <2>2, <2>3 DEF AskStep
<1>4. CASE RelayStep
  <2>1. CASE \E w \in CommonWindows, u \in Users : LoadEnds(w, u)
    BY <2>1, LoadsCommon
  <2>2. ASSUME NEW u \in Users, NEW list \in List, ListArrives(u, list)
        PROVE  CommonInv' /\ ForTheAsker
    BY <2>2, ArrivedCommon
  <2>3. ASSUME NEW u \in Users, NEW list \in List, ListPublished(u, list)
        PROVE  CommonInv' /\ ForTheAsker
    BY <2>3, OnlyRelays DEF ListPublished
  <2>4. ASSUME NEW o \in Ops, RelaysTake(o)  PROVE CommonInv' /\ ForTheAsker
    BY <2>4, OnlyRelays DEF RelaysTake, histories
  <2> QED  BY <1>4, <2>1, <2>2, <2>3, <2>4 DEF RelayStep
<1>5. ASSUME NEW o \in Ops, OpGoesOn(o)  PROVE CommonInv' /\ ForTheAsker
  BY <1>5, TurnCommon, SignedCommon, RefusedCommon, AcceptedCommon DEF OpGoesOn
<1> QED  BY <1>1, <1>2, <1>3, <1>4, <1>5 DEF CommonNext

-----------------------------------------------------------------------------
\* What the relays have is the store's, or the change that is being sent to them,
\* or was never given to the store.
Sending(op) == op.step = "sending" /\ op.kind \in Changes

Agrees(u) ==
  \/ unseen[u]
  \/ relayLists[u] = contacts[u]
  \/ \E o \in Ops : Sending(ops[o]) /\ ops[o].by.user = u /\ relayLists[u] = ops[o].list

RelaysInv ==
  /\ relayLists \in [Users -> List] /\ unseen \in [Users -> BOOLEAN]
  /\ \A u \in Users : Agrees(u)

\* A person leaves the list the relays have.
TakenOff(u) ==
  unseen[u] \/ unseen'[u] \/ overtaken[u]
    \/ \A p \in relayLists[u].people \ relayLists'[u].people :
         \E o \in Ops : /\ ops[o].step = "sending" /\ ops[o].kind = "unfollow"
                        /\ ops[o].person = p /\ ops[o].by.user = u

LEMMA InitRelays == CommonInit => RelaysInv
<1> SUFFICES ASSUME CommonInit  PROVE RelaysInv
  OBVIOUS
<1>1. EmptyList \in List /\ PublishedList \subseteq List
  BY CommonAssumption DEF EmptyList, List, PublishedList
<1> QED  BY <1>1 DEF CommonInit, RelaysInv, Agrees

\* The one change that is sent is that of the first of the queue.
LEMMA OneIsSent ==
  ASSUME CommonInv, NEW o \in Ops, NEW p \in Ops, Sending(ops[o]), Sending(ops[p]),
         ops[o].by.user = ops[p].by.user
  PROVE  o = p
<1>1. Running(ops[o]) /\ Running(ops[p]) /\ ops[o].by.user \in Users
  BY DEF Sending, Running, CommonInv, ChangesInv, OpKnown
<1> QED  BY <1>1 DEF CommonInv, ChangesInv, QueueOf

\* A step that leaves the lists alone, and what is being sent.
LEMMA RelaysKept ==
  ASSUME RelaysInv, UNCHANGED <<contacts, relayLists, unseen>>,
         \A o \in Ops : Sending(ops[o]) => ops'[o] = ops[o]
  PROVE  RelaysInv' /\ \A u \in Users : TakenOff(u)
<1>1. ASSUME NEW u \in Users  PROVE Agrees(u)'
  <2>1. Agrees(u)
    BY DEF RelaysInv
  <2> QED  BY <2>1 DEF Agrees
<1> QED  BY <1>1 DEF RelaysInv, TakenOff

\* Another list at the relays is one the store was not given.
LEMMA PublishedRelays ==
  ASSUME RelaysInv, NEW u \in Users, NEW list \in List, ListPublished(u, list)
  PROVE  RelaysInv' /\ \A v \in Users : TakenOff(v)
<1>1. /\ relayLists' = [relayLists EXCEPT ![u] = list]
      /\ unseen' = [unseen EXCEPT ![u] = TRUE] /\ UNCHANGED <<contacts, ops>>
  BY DEF ListPublished
<1>2. relayLists' \in [Users -> List] /\ unseen' \in [Users -> BOOLEAN]
  BY <1>1 DEF RelaysInv
<1>3. unseen'[u] /\ \A v \in Users \ {u} : unseen'[v] = unseen[v] /\ relayLists'[v] = relayLists[v]
  BY <1>1 DEF RelaysInv
<1>4. ASSUME NEW v \in Users  PROVE Agrees(v)' /\ TakenOff(v)
  <2>1. Agrees(v)
    BY DEF RelaysInv
  <2> QED  BY <1>1, <1>3, <2>1 DEF Agrees, TakenOff
<1> QED  BY <1>2, <1>4 DEF RelaysInv

\* What a refresh brings is seen if it is what the relays have.
LEMMA ArrivedRelays ==
  ASSUME CommonInv, RelaysInv, NEW u \in Users, NEW list \in List, ListArrives(u, list)
  PROVE  RelaysInv' /\ \A v \in Users : TakenOff(v)
<1>1. /\ unseen' = [unseen EXCEPT ![u] = contacts'[u] # relayLists[u]]
      /\ UNCHANGED <<relayLists, ops>>
  BY DEF ListArrives
<1>2. \A v \in Users \ {u} : contacts'[v] = contacts[v]
  BY StoredList DEF CommonInv, WorldInv, ListArrives
<1>3. /\ unseen' \in [Users -> BOOLEAN] /\ (unseen'[u] <=> contacts'[u] # relayLists[u])
      /\ \A v \in Users \ {u} : unseen'[v] = unseen[v]
  BY <1>1 DEF RelaysInv
<1>4. ASSUME NEW v \in Users  PROVE Agrees(v)' /\ TakenOff(v)
  <2>1. Agrees(v)
    BY DEF RelaysInv
  <2> QED  BY <1>1, <1>2, <1>3, <2>1 DEF Agrees, TakenOff
<1> QED  BY <1>1, <1>3, <1>4 DEF RelaysInv

\* The list the relays have, when another is published.
LEMMA TakenList ==
  ASSUME relayLists \in [Users -> List], NEW u \in Users, NEW list \in List, Taken(u, list)
  PROVE  /\ relayLists' \in [Users -> List] /\ relayLists'[u] \in {relayLists[u], list}
         /\ list.at > relayLists[u].at => relayLists'[u] = list
         /\ \A v \in Users \ {u} : relayLists'[v] = relayLists[v]
<1>1. PICK kept \in Newest(relayLists[u], list) : relayLists' = [relayLists EXCEPT ![u] = kept]
  BY DEF Taken
<1>2. /\ kept \in {relayLists[u], list} /\ kept.at >= list.at
      /\ relayLists[u].at \in Nat /\ list.at \in Nat /\ relayLists[u] \in List
  BY <1>1, CommonAssumption DEF Newest, List
<1>3. list.at > relayLists[u].at => kept = list
  BY <1>2
<1>4. relayLists'[u] = kept /\ \A v \in Users \ {u} : relayLists'[v] = relayLists[v]
  BY <1>1
<1>5. relayLists' \in [Users -> List]
  BY <1>1, <1>2
<1> QED  BY <1>2, <1>3, <1>4, <1>5

\* A change that the relays take is made to the list they had.
LEMMA ChangeIsTaken ==
  ASSUME CommonInv, RelaysInv, NEW o \in Ops, Sending(ops[o]),
         Taken(ops[o].by.user, ops[o].list)
  PROVE  /\ relayLists' \in [Users -> List]
         /\ ~unseen[ops[o].by.user] /\ ~overtaken[ops[o].by.user]
              => relayLists'[ops[o].by.user] = ops[o].list
         /\ \A v \in Users : TakenOff(v)
         /\ relayLists'[ops[o].by.user] \in {relayLists[ops[o].by.user], ops[o].list}
         /\ \A v \in Users \ {ops[o].by.user} : relayLists'[v] = relayLists[v]
<1> DEFINE u == ops[o].by.user
<1>1. u \in Users /\ ops[o] \in Op /\ ops[o].list \in List /\ ops[o].kind \in Changes
  BY DEF Sending, CommonInv, ChangesInv, OpKnown, Op
<1>2. /\ relayLists' \in [Users -> List] /\ relayLists'[u] \in {relayLists[u], ops[o].list}
      /\ ops[o].list.at > relayLists[u].at => relayLists'[u] = ops[o].list
      /\ \A v \in Users \ {u} : relayLists'[v] = relayLists[v]
  BY <1>1, TakenList DEF RelaysInv
<1>3. BuiltOn(ops[o], contacts[u], overtaken[u])
  BY DEF Sending, Running, CommonInv, ChangesInv
<1>4. ASSUME ~unseen[u]  PROVE relayLists[u] \in {contacts[u], ops[o].list}
  <2>1. Agrees(u)
    BY <1>1 DEF RelaysInv
  <2>2. ASSUME NEW p \in Ops, Sending(ops[p]), ops[p].by.user = u  PROVE p = o
    BY <2>2, OneIsSent
  <2> QED  BY <1>4, <2>1, <2>2 DEF Agrees
<1>5. ASSUME ~unseen[u], ~overtaken[u]  PROVE relayLists'[u] = ops[o].list
  BY <1>2, <1>3, <1>4, <1>5 DEF BuiltOn
<1>6. TakenOff(u)
  <2>1. SUFFICES ASSUME ~unseen[u], ~overtaken[u],
                        NEW p \in relayLists[u].people \ relayLists'[u].people
                 PROVE  ops[o].kind = "unfollow" /\ ops[o].person = p
    BY DEF TakenOff, Sending
  <2>2. relayLists'[u] = ops[o].list /\ relayLists[u] = contacts[u]
    BY <1>4, <1>5, <2>1
  <2>3. ops[o].list.people = Result(ops[o], contacts[u].people)
    BY <1>3, <2>1 DEF BuiltOn
  <2> QED  BY <1>1, <2>1, <2>2, <2>3 DEF Result, Changes
<1>7. ASSUME NEW v \in Users \ {u}  PROVE TakenOff(v)
  BY <1>2, <1>7 DEF TakenOff
<1> QED  BY <1>2, <1>5, <1>6, <1>7

LEMMA TakeRelays ==
  ASSUME CommonInv, RelaysInv, NEW o \in Ops, RelaysTake(o)
  PROVE  RelaysInv' /\ \A v \in Users : TakenOff(v)
<1> DEFINE u == ops[o].by.user
<1>1. /\ Sending(ops[o]) /\ Taken(u, ops[o].list)
      /\ UNCHANGED <<contacts, unseen, ops>>
  BY DEF RelaysTake, Sending, histories
<1>2. /\ relayLists' \in [Users -> List] /\ \A v \in Users : TakenOff(v)
      /\ relayLists'[u] \in {relayLists[u], ops[o].list}
      /\ \A v \in Users \ {u} : relayLists'[v] = relayLists[v]
  BY <1>1, ChangeIsTaken
<1>3. ASSUME NEW v \in Users  PROVE Agrees(v)'
  <2>1. Agrees(v)
    BY DEF RelaysInv
  <2> QED  BY <1>1, <1>2, <2>1 DEF Agrees
<1> QED  BY <1>1, <1>2, <1>3 DEF RelaysInv

\* A change that failed leaves what the relays took of it, which the store was not given.
LEMMA FailedRelays ==
  ASSUME CommonInv, RelaysInv, NEW o \in Ops, SendingFails(o)
  PROVE  RelaysInv' /\ \A v \in Users : TakenOff(v)
<1> DEFINE u == ops[o].by.user
           left == relayLists[u] = ops[o].list /\ contacts[u] # ops[o].list
<1>1. /\ ops[o].step = "sending" /\ ops' = [ops EXCEPT ![o] = NoOp]
      /\ UNCHANGED <<contacts, relayLists>>
      /\ unseen' = IF ops[o].kind = "note" THEN unseen ELSE [unseen EXCEPT ![u] = @ \/ left]
  BY DEF SendingFails, Fails, OpOver
<1>2. left \in BOOLEAN /\ u \in Users /\ ops[o].kind \in Changes \cup {"note"}
      /\ "note" \notin Changes
  BY <1>1 DEF CommonInv, ChangesInv, OpKnown, Op, Changes
<1>3. \A p \in Ops \ {o} : ops'[p] = ops[p]
  BY <1>1 DEF CommonInv, ChangesInv
<1>4. CASE ops[o].kind = "note"
  <2>1. ~Sending(ops[o]) /\ unseen' = unseen
    BY <1>1, <1>2, <1>4 DEF Sending
  <2> QED  BY <1>1, <1>3, <2>1, RelaysKept
<1>5. CASE ops[o].kind \in Changes
  <2> HIDE DEF left
  <2>1. unseen' = [unseen EXCEPT ![u] = @ \/ left]
    BY <1>1, <1>2, <1>5
  <2>2. /\ unseen' \in [Users -> BOOLEAN] /\ (unseen'[u] <=> unseen[u] \/ left)
        /\ \A v \in Users \ {u} : unseen'[v] = unseen[v]
    BY <1>2, <2>1 DEF RelaysInv
  <2>3. Sending(ops[o])
    BY <1>1, <1>5 DEF Sending
  <2>4. ASSUME NEW v \in Users, v = u  PROVE Agrees(v)'
    <3>1. Agrees(u)
      BY <1>2 DEF RelaysInv
    <3>2. ASSUME NEW p \in Ops, Sending(ops[p]), ops[p].by.user = u  PROVE p = o
      BY <2>3, <3>2, OneIsSent
    <3>3. unseen[u] \/ relayLists[u] = contacts[u] \/ relayLists[u] = ops[o].list
      BY <3>1, <3>2 DEF Agrees
    <3> QED  BY <1>1, <2>2, <2>4, <3>3 DEF Agrees, left
  <2>5. ASSUME NEW v \in Users \ {u}  PROVE Agrees(v)'
    <3>1. Agrees(v)
      BY DEF RelaysInv
    <3>2. \A p \in Ops : ops[p].by.user = v => p # o
      BY <2>5
    <3> QED  BY <1>1, <1>3, <2>2, <3>1, <3>2 DEF Agrees
  <2>6. \A v \in Users : TakenOff(v)
    BY <1>1 DEF TakenOff
  <2> QED  BY <1>1, <2>2, <2>4, <2>5, <2>6 DEF RelaysInv
<1> QED  BY <1>2, <1>4, <1>5

\* A list that all relays took is the store's too.
LEMMA AcceptedRelays ==
  ASSUME CommonInv, RelaysInv, NEW o \in Ops, AllRelaysAccept(o)
  PROVE  RelaysInv' /\ \A v \in Users : TakenOff(v)
<1> DEFINE u == ops[o].by.user
<1>1. ops[o].step = "sending" /\ ops' = [ops EXCEPT ![o] = NoOp]
  BY DEF AllRelaysAccept, OpOver
<1>2. /\ u \in Users /\ ops[o] \in Op /\ ops[o].kind \in Changes \cup {"note"}
      /\ "note" \notin Changes
  BY <1>1 DEF CommonInv, ChangesInv, OpKnown, Op, Changes
<1>3. \A p \in Ops \ {o} : ops'[p] = ops[p]
  BY <1>1 DEF CommonInv, ChangesInv
<1>4. CASE ops[o].kind = "note"
  <2>1. ~Sending(ops[o]) /\ UNCHANGED <<contacts, relayLists, unseen>>
    BY <1>2, <1>4 DEF Sending, AllRelaysAccept
  <2> QED  BY <1>3, <2>1, RelaysKept
<1>5. CASE ops[o].kind \in Changes
  <2> DEFINE apart == (unseen[u] \/ overtaken[u]) /\ relayLists'[u] # contacts'[u]
  <2>1. /\ Stored(u, ops[o].list) /\ Taken(u, ops[o].list) /\ Sending(ops[o])
        /\ unseen' = [unseen EXCEPT ![u] = apart]
    BY <1>1, <1>2, <1>5 DEF AllRelaysAccept, Sending
  <2>2. apart \in BOOLEAN /\ ops[o].list \in List
    BY <1>2 DEF Op
  <2>3. /\ relayLists' \in [Users -> List] /\ \A v \in Users : TakenOff(v)
        /\ ~unseen[u] /\ ~overtaken[u] => relayLists'[u] = ops[o].list
        /\ \A v \in Users \ {u} : relayLists'[v] = relayLists[v]
    BY <2>1, ChangeIsTaken
  <2>4. /\ ops[o].list.at > contacts[u].at => contacts'[u] = ops[o].list
        /\ \A v \in Users \ {u} : contacts'[v] = contacts[v]
    BY <1>2, <2>1, <2>2, StoredList DEF CommonInv, WorldInv
  <2>5. BuiltOn(ops[o], contacts[u], overtaken[u])
    BY <2>1 DEF Sending, Running, CommonInv, ChangesInv
  <2>6. apart \/ relayLists'[u] = contacts'[u]
    BY <2>3, <2>4, <2>5 DEF BuiltOn
  <2> HIDE DEF apart
  <2>7. /\ unseen' \in [Users -> BOOLEAN] /\ (unseen'[u] <=> apart)
        /\ \A v \in Users \ {u} : unseen'[v] = unseen[v]
    BY <1>2, <2>1, <2>2 DEF RelaysInv
  <2>8. ASSUME NEW v \in Users, v = u  PROVE Agrees(v)'
    BY <2>6, <2>7, <2>8 DEF Agrees
  <2>9. ASSUME NEW v \in Users \ {u}  PROVE Agrees(v)'
    <3>1. Agrees(v)
      BY DEF RelaysInv
    <3>2. \A p \in Ops : ops[p].by.user = v => p # o
      BY <2>9
    <3>3. \A p \in Ops : Sending(ops[p]) /\ ops[p].by.user = v => ops'[p] = ops[p]
      BY <1>3, <3>2
    <3>4. /\ relayLists'[v] = relayLists[v] /\ contacts'[v] = contacts[v]
          /\ unseen'[v] = unseen[v]
      BY <2>3, <2>4, <2>7, <2>9
    <3> QED  BY <3>1, <3>3, <3>4 DEF Agrees
  <2> QED  BY <2>3, <2>7, <2>8, <2>9 DEF RelaysInv
<1> QED  BY <1>2, <1>4, <1>5

\* An operation that goes on, or over, before it is sent.
LEMMA UnsentRelays ==
  ASSUME CommonInv, RelaysInv, NEW o \in Ops,
         TurnComes(o) \/ SigningFails(o) \/ Signed(o)
  PROVE  RelaysInv' /\ \A v \in Users : TakenOff(v)
<1>1. /\ ops[o].step # "sending" /\ \A p \in Ops \ {o} : ops'[p] = ops[p]
      /\ UNCHANGED <<contacts, relayLists, unseen>>
  BY DEF TurnComes, SigningFails, Signed, IsNext, Fails, OpOver, CommonInv, ChangesInv
<1>2. \A p \in Ops : Sending(ops[p]) => ops'[p] = ops[p]
  BY <1>1 DEF Sending
<1> QED  BY <1>1, <1>2, RelaysKept

\* A user, a window, a napplet that asks: no list moves.
LEMMA AskedRelays ==
  ASSUME CommonInv, RelaysInv,
         UserStep \/ AskStep \/ (\E w \in CommonWindows, u \in Users : LoadEnds(w, u))
  PROVE  RelaysInv' /\ \A v \in Users : TakenOff(v)
<1>1. UNCHANGED <<contacts, relayLists, unseen>>
  BY DEF UserStep, AskStep, IdentityChanges, CancelLoads, CloseCommon, AskFollows, LoadEnds, Act,
         world, histories
<1>2. CASE ops' = ops
  BY <1>1, <1>2, RelaysKept
<1>3. ASSUME NEW o \in Ops, NEW kind, NEW person, Act(o, kind, person)
      PROVE  RelaysInv' /\ \A v \in Users : TakenOff(v)
  <2>1. ops[o].step = "idle" /\ \A p \in Ops \ {o} : ops'[p] = ops[p]
    BY <1>3 DEF Act, CommonInv, ChangesInv
  <2>2. \A p \in Ops : Sending(ops[p]) => ops'[p] = ops[p]
    BY <2>1 DEF Sending
  <2> QED  BY <1>1, <2>2, RelaysKept
<1> QED
  BY <1>2, <1>3 DEF UserStep, AskStep, IdentityChanges, CancelLoads, CloseCommon, AskFollows,
                    LoadEnds

LEMMA RelaysStepInv ==
  ASSUME CommonInv, RelaysInv, [CommonNext]_commonVars
  PROVE  RelaysInv' /\ \A v \in Users : TakenOff(v)
<1>1. CASE UNCHANGED commonVars
  BY <1>1, RelaysKept DEF commonVars, world, histories
<1>2. CASE UserStep \/ AskStep
  BY <1>2, AskedRelays
<1>3. CASE RelayStep
  <2>1. ASSUME NEW u \in Users, NEW list \in List, ListPublished(u, list) \/ ListArrives(u, list)
        PROVE  RelaysInv' /\ \A v \in Users : TakenOff(v)
    BY <2>1, PublishedRelays, ArrivedRelays
  <2>2. ASSUME NEW o \in Ops, RelaysTake(o)  PROVE RelaysInv' /\ \A v \in Users : TakenOff(v)
    BY <2>2, TakeRelays
  <2> QED  BY <1>3, <2>1, <2>2, AskedRelays DEF RelayStep
<1>4. ASSUME NEW o \in Ops, OpGoesOn(o)  PROVE RelaysInv' /\ \A v \in Users : TakenOff(v)
  BY <1>4, UnsentRelays, AcceptedRelays, FailedRelays DEF OpGoesOn
<1> QED  BY <1>1, <1>2, <1>3, <1>4 DEF CommonNext

LEMMA CommonInvTypes == CommonInv /\ RelaysInv => CommonTypeOK
<1> SUFFICES ASSUME CommonInv, RelaysInv  PROVE CommonTypeOK
  OBVIOUS
<1>1. /\ identity \in Identity /\ {contacts, relayLists} \subseteq [Users -> List]
      /\ intended \in [Users -> SUBSET People]
      /\ serviceClosed \in BOOLEAN /\ {overtaken, unseen} \subseteq [Users -> BOOLEAN]
      /\ loads \in [CommonWindows -> SUBSET Users]
  BY DEF CommonInv, WorldInv, RelaysInv
<1>2. ASSUME NEW u \in Users
      PROVE  /\ tails[u] \in Seq(Ops)
             /\ \A o \in Ops :
                  (\E n \in 1..Len(tails[u]) : tails[u][n] = o)
                    <=> (ops[o].step # "idle" /\ ops[o].kind \in Changes /\ ops[o].by.user = u)
  <2>1. QueueOf(u, tails[u], ops)
    BY DEF CommonInv, ChangesInv
  <2> QED  BY <2>1 DEF QueueOf, Waits, IsChange
<1> QED  BY <1>1, <1>2 DEF CommonTypeOK, CommonInv, ChangesInv

LEMMA ChangesSafe == CommonInit /\ [][CommonNext]_commonVars => ChangesAreTheAskers
<1>1. CommonInit => CommonInv /\ RelaysInv
  BY InitCommon, InitRelays
<1>2. CommonInv /\ RelaysInv /\ [CommonNext]_commonVars => CommonInv' /\ RelaysInv'
  BY CommonStepInv, RelaysStepInv
<1>3. CommonInv' /\ RelaysInv' => [FollowsAreKept' /\ RelaysAgree']_commonVars
  <2>1. RelaysInv' => RelaysAgree'
    BY DEF RelaysInv, RelaysAgree, Agrees, Sending, BeingChanged
  <2> QED  BY <2>1 DEF CommonInv, WorldInv
<1>4. CommonInv /\ [CommonNext]_commonVars
        => [\A o \in Ops : ops[o].step = "signing" /\ ops'[o].step = "sending"
                             => ops[o].by = identity]_commonVars
  BY CommonStepInv DEF ForTheAsker
<1>5. CommonInv /\ RelaysInv /\ [CommonNext]_commonVars
        => [\A u \in Users :
              unseen[u] \/ unseen'[u] \/ overtaken[u]
                \/ \A p \in relayLists[u].people \ relayLists'[u].people :
                     \E o \in Ops : /\ ops[o].step = "sending" /\ ops[o].kind = "unfollow"
                                    /\ ops[o].person = p /\ ops[o].by.user = u]_commonVars
  BY RelaysStepInv DEF TakenOff
<1> QED
  BY <1>1, <1>2, <1>3, <1>4, <1>5, PTL
  DEF ChangesAreTheAskers, PublishedForTheAsker, UnfollowsTakeOff

(***************************************************************************)
(* For any number of accounts, windows and operations, however changes,    *)
(* refreshes, failures and sign-ins overlap: in the store an accepted      *)
(* follow or unfollow (common.ts) is never undone by another, unless a     *)
(* refresh brought a list in between; the relays have the store's list     *)
(* when nobody changes it, and lose a person only by an unfollow, unless   *)
(* they have one the store was never given; and nothing is published but   *)
(* for the identity that asked while it is active.                         *)
(***************************************************************************)
THEOREM ChangesStayTheAskers == CommonSpec => ChangesAreTheAskers
BY ChangesSafe, PTL DEF CommonSpec

LEMMA CommonTypesSafe == CommonInit /\ [][CommonNext]_commonVars => []CommonTypeOK
<1>1. CommonInit => CommonInv /\ RelaysInv
  BY InitCommon, InitRelays
<1>2. CommonInv /\ RelaysInv /\ [CommonNext]_commonVars => CommonInv' /\ RelaysInv'
  BY CommonStepInv, RelaysStepInv
<1> QED  BY <1>1, <1>2, CommonInvTypes, PTL

\* Identities, lists, operations and loads keep their types.
THEOREM CommonTypes == CommonSpec => []CommonTypeOK
BY CommonTypesSafe, PTL DEF CommonSpec

-----------------------------------------------------------------------------
(***************************************************************************)
(* RelaySubscriptions                                                      *)
(***************************************************************************)

AStream == [key : StreamKeys, stage : Stages, heard : SUBSET RelayEvents,
            eose : BOOLEAN, shut : BOOLEAN]

Runs(str, s) == str[s].stage \in {"local", "upstream"}

\* The map and the streams: the stream of a key has that key, a stream is the
\* one of its key while it runs, one that does not run has heard nothing, and one
\* whose handle is closed does not run.
StreamsInv(reg, str) ==
  /\ reg \in [StreamKeys -> Streams \cup {NoStream}]
  /\ str \in [Streams -> AStream]
  /\ \A s \in Streams :
       /\ Runs(str, s) <=> reg[str[s].key] = s
       /\ Runs(str, s) \/ (str[s].heard = {} /\ str[s].eose = FALSE)
       /\ str[s].shut => ~Runs(str, s) /\ str[s].stage # "unused"
  /\ \A k \in StreamKeys : reg[k] # NoStream => str[reg[k]].key = k

CacheInv ==
  /\ memory \subseteq RelayEvents /\ localRelay \subseteq RelayEvents
  /\ cacheWrites \in Seq(RelayEvents) /\ Len(cacheWrites) <= MaxCacheWrites
  /\ health \in {"healthy", "degraded"}
  /\ CacheFollowsMemory

RelayInv == StreamsInv(relayStreams, stream) /\ CacheInv

StaysShut == \A s \in Streams : stream[s].shut => stream'[s].shut

-----------------------------------------------------------------------------
LEMMA WritesAreBounded == CacheInv => cacheWrites \in BoundedSeq(RelayEvents, MaxCacheWrites)
<1> SUFFICES ASSUME CacheInv
             PROVE  \E m \in 0..MaxCacheWrites : cacheWrites \in [1..m -> RelayEvents]
  BY DEF BoundedSeq, SeqOf
<1>1. Len(cacheWrites) \in 0..MaxCacheWrites /\ cacheWrites \in [1..Len(cacheWrites) -> RelayEvents]
  BY LenProperties, RelayAssumption DEF CacheInv
<1> QED  BY <1>1

LEMMA RelayInvTypes == RelayInv => RelayTypeOK /\ LiveIsRegistered /\ CacheFollowsMemory
<1> SUFFICES ASSUME RelayInv  PROVE RelayTypeOK /\ LiveIsRegistered /\ CacheFollowsMemory
  OBVIOUS
<1>1. LiveIsRegistered
  BY DEF RelayInv, StreamsInv, LiveIsRegistered, Runs, Streaming
<1>2. cacheWrites \in BoundedSeq(RelayEvents, MaxCacheWrites)
  BY WritesAreBounded DEF RelayInv
<1>3. /\ relayStreams \in [StreamKeys -> Streams \cup {NoStream}]
      /\ stream \in [Streams -> [key : StreamKeys, stage : Stages, heard : SUBSET RelayEvents,
                                 eose : BOOLEAN, shut : BOOLEAN]]
  BY DEF RelayInv, StreamsInv, AStream
<1> QED  BY <1>1, <1>2, <1>3 DEF RelayInv, CacheInv, RelayTypeOK

LEMMA InitRelay == RelayInit => RelayInv
<1> SUFFICES ASSUME RelayInit  PROVE RelayInv
  OBVIOUS
<1>1. stream \in [Streams -> AStream]
  BY DEF RelayInit, AStream, Stages
<1>2. /\ relayStreams = [k \in StreamKeys |-> NoStream]
      /\ \A s \in Streams : /\ stream[s].key \in StreamKeys /\ stream[s].stage = "unused"
                            /\ stream[s].heard = {} /\ stream[s].eose = FALSE
                            /\ stream[s].shut = FALSE
  BY DEF RelayInit
<1>3. StreamsInv(relayStreams, stream)
  BY <1>1, <1>2, RelayAssumption DEF StreamsInv, Runs
<1>4. CacheInv
  BY RelayAssumption, EmptySeq DEF RelayInit, CacheInv, CacheFollowsMemory
<1> QED  BY <1>3, <1>4 DEF RelayInv

LEMMA SameCache ==
  ASSUME CacheInv, UNCHANGED <<memory, localRelay, cacheWrites>>,
         health' \in {health, "degraded"}
  PROVE  CacheInv'
BY DEF CacheInv, CacheFollowsMemory

LEMMA SubscribeRelay ==
  ASSUME RelayInv, NEW s \in Streams, SubscribeStream(s)
  PROVE  RelayInv' /\ StaysShut
<1> DEFINE k == stream[s].key
<1>1. /\ k \in StreamKeys /\ stream[s].stage = "unused" /\ ~stream[s].shut
      /\ stream[s].heard = {} /\ stream[s].eose = FALSE /\ relayStreams[k] # s
  BY DEF RelayInv, StreamsInv, AStream, Runs, SubscribeStream
<1>2. memory \in SUBSET RelayEvents /\ {} \in SUBSET RelayEvents
  BY DEF RelayInv, CacheInv
<1>3. /\ stream' \in [Streams -> AStream]
      /\ stream'[s].key = k /\ stream'[s].stage \in {"local", "upstream"} /\ ~stream'[s].shut
      /\ \A t \in Streams \ {s} :
           stream'[t] = IF relayStreams[k] = t THEN Ended(t, "closed") ELSE stream[t]
  <2> DEFINE heard == IF k \in RelayKeys THEN memory ELSE {}
             stage == IF k \in RelayKeys THEN "local" ELSE "upstream"
  <2>1. heard \in SUBSET RelayEvents /\ stage \in {"local", "upstream"}
    BY <1>2
  <2>2. stream' = [KeyClosed(k) EXCEPT ![s].stage = stage, ![s].heard = heard]
    BY DEF SubscribeStream
  <2> HIDE DEF heard, stage
  <2>3. KeyClosed(k)[s] = stream[s]
    BY <1>1 DEF KeyClosed
  <2>4. stream' = [t \in Streams |->
                     IF t = s THEN [stream[s] EXCEPT !.stage = stage, !.heard = heard]
                     ELSE KeyClosed(k)[t]]
    BY <2>2, <2>3 DEF KeyClosed
  <2>5. stream[s] \in AStream
    BY DEF RelayInv, StreamsInv
  <2>6. stream'[s] \in AStream /\ stream'[s].stage = stage /\ stream'[s].key = k
        /\ stream'[s].shut = stream[s].shut
    BY <2>1, <2>4, <2>5 DEF AStream, Stages
  <2>7. ASSUME NEW t \in Streams \ {s}
        PROVE  /\ stream'[t] = IF relayStreams[k] = t THEN Ended(t, "closed") ELSE stream[t]
               /\ stream'[t] \in AStream
    <3>1. stream'[t] = IF relayStreams[k] = t THEN Ended(t, "closed") ELSE stream[t]
      BY <2>4 DEF KeyClosed
    <3>2. stream[t] \in AStream
      BY DEF RelayInv, StreamsInv
    <3> QED  BY <3>1, <3>2, <1>2 DEF Ended, AStream, Stages
  <2> QED  BY <1>1, <2>1, <2>4, <2>6, <2>7
<1>4. relayStreams' = [relayStreams EXCEPT ![k] = s]
  BY DEF SubscribeStream
<1>5. ASSUME NEW t \in Streams \ {s}
      PROVE  /\ stream'[t].key = stream[t].key /\ stream'[t].shut = stream[t].shut
             /\ Runs(stream', t) <=> Runs(stream, t) /\ relayStreams[k] # t
             /\ Runs(stream', t) \/ (stream'[t].heard = {} /\ stream'[t].eose = FALSE)
             /\ stream'[t].stage = "unused" => stream[t].stage = "unused"
  <2>1. /\ stream[t] \in AStream
        /\ Runs(stream, t) \/ (stream[t].heard = {} /\ stream[t].eose = FALSE)
    BY DEF RelayInv, StreamsInv
  <2> QED  BY <1>3, <2>1 DEF Runs, Ended, AStream
<1>6. StreamsInv(relayStreams', stream')
  <2>1. relayStreams' \in [StreamKeys -> Streams \cup {NoStream}]
    BY <1>4 DEF RelayInv, StreamsInv
  <2>2. ASSUME NEW t \in Streams
        PROVE  /\ Runs(stream', t) <=> relayStreams'[stream'[t].key] = t
               /\ Runs(stream', t) \/ (stream'[t].heard = {} /\ stream'[t].eose = FALSE)
               /\ stream'[t].shut => ~Runs(stream', t) /\ stream'[t].stage # "unused"
    <3>1. CASE t = s
      BY <3>1, <1>1, <1>3, <1>4 DEF RelayInv, StreamsInv, Runs
    <3>2. CASE t # s
      <4>1. stream[t].key \in StreamKeys
        BY DEF RelayInv, StreamsInv, AStream
      <4>2. /\ Runs(stream, t) <=> relayStreams[stream[t].key] = t
            /\ stream[t].shut => ~Runs(stream, t) /\ stream[t].stage # "unused"
        BY DEF RelayInv, StreamsInv
      <4>3. relayStreams'[stream[t].key] = IF stream[t].key = k THEN s
                                           ELSE relayStreams[stream[t].key]
        BY <1>4, <4>1 DEF RelayInv, StreamsInv
      <4>4. Runs(stream', t) <=> relayStreams'[stream'[t].key] = t
        <5>1. CASE stream[t].key = k
          <6>1. relayStreams'[stream'[t].key] # t
            BY <5>1, <3>2, <1>5, <4>3
          <6>2. ~Runs(stream', t)
            BY <5>1, <3>2, <1>5, <4>2 DEF Runs
          <6> QED  BY <6>1, <6>2
        <5>2. CASE stream[t].key # k
          <6>1. relayStreams[k] # t
            BY <5>2, <1>1, RelayAssumption DEF RelayInv, StreamsInv
          <6> QED  BY <5>2, <6>1, <1>5, <4>2, <4>3 DEF Runs
        <5> QED  BY <5>1, <5>2
      <4> QED  BY <3>2, <1>5, <4>2, <4>4
    <3> QED  BY <3>1, <3>2
  <2>3. ASSUME NEW j \in StreamKeys, relayStreams'[j] # NoStream
        PROVE  stream'[relayStreams'[j]].key = j
    <3>1. CASE j = k
      BY <3>1, <1>1, <1>3, <1>4 DEF RelayInv, StreamsInv
    <3>2. CASE j # k
      <4>1. relayStreams'[j] = relayStreams[j] /\ relayStreams[j] \in Streams
            /\ stream[relayStreams[j]].key = j
        BY <3>2, <2>3, <1>4 DEF RelayInv, StreamsInv
      <4> QED  BY <3>2, <4>1, <1>5
    <3> QED  BY <3>1, <3>2
  <2> QED  BY <1>3, <2>1, <2>2, <2>3 DEF StreamsInv
<1>7. CacheInv'
  BY SameCache DEF RelayInv, SubscribeStream
<1>8. StaysShut
  BY <1>1, <1>5 DEF StaysShut
<1> QED  BY <1>6, <1>7, <1>8 DEF RelayInv

\* A key is dropped, and its stream, if it has one, ends.
LEMMA KeyDropped ==
  ASSUME RelayInv, NEW k \in StreamKeys,
         relayStreams' = [relayStreams EXCEPT ![k] = NoStream],
         stream' \in [Streams -> AStream],
         \A t \in Streams :
           /\ stream'[t].key = stream[t].key
           /\ stream[t].shut => stream'[t].shut
           /\ stream'[t].shut => stream[t].shut \/ (stream[t].stage # "unused" /\ stream[t].key = k)
           /\ IF relayStreams[k] = t
              THEN stream'[t].stage \in {"closed", "over"} /\ stream'[t].heard = {}
                   /\ stream'[t].eose = FALSE
              ELSE stream'[t].stage = stream[t].stage /\ stream'[t].heard = stream[t].heard
                   /\ stream'[t].eose = stream[t].eose
  PROVE  StreamsInv(relayStreams', stream') /\ StaysShut
<1>1. relayStreams' \in [StreamKeys -> Streams \cup {NoStream}]
  BY DEF RelayInv, StreamsInv
<1>2. ASSUME NEW t \in Streams
      PROVE  /\ Runs(stream', t) <=> relayStreams'[stream'[t].key] = t
             /\ Runs(stream', t) \/ (stream'[t].heard = {} /\ stream'[t].eose = FALSE)
             /\ stream'[t].shut => ~Runs(stream', t) /\ stream'[t].stage # "unused"
  <2>1. /\ stream[t].key \in StreamKeys
        /\ Runs(stream, t) <=> relayStreams[stream[t].key] = t
        /\ Runs(stream, t) \/ (stream[t].heard = {} /\ stream[t].eose = FALSE)
        /\ stream[t].shut => ~Runs(stream, t) /\ stream[t].stage # "unused"
        /\ relayStreams[k] = t => stream[t].key = k
    BY RelayAssumption DEF RelayInv, StreamsInv, AStream
  <2>2. relayStreams'[stream[t].key] = IF stream[t].key = k THEN NoStream
                                       ELSE relayStreams[stream[t].key]
    BY <2>1 DEF RelayInv, StreamsInv
  <2>3. Runs(stream', t) <=> Runs(stream, t) /\ relayStreams[k] # t
    BY DEF Runs
  <2>4. Runs(stream', t) => stream[t].key # k
    BY <2>1, <2>3
  <2>5. Runs(stream', t) <=> relayStreams'[stream'[t].key] = t
    BY <2>1, <2>2, <2>3, <2>4, RelayAssumption DEF Runs
  <2>6. Runs(stream', t) \/ (stream'[t].heard = {} /\ stream'[t].eose = FALSE)
    BY <2>1, <2>3
  <2>7. stream'[t].shut => ~Runs(stream', t) /\ stream'[t].stage # "unused"
    BY <2>1, <2>3, <2>4
  <2> QED  BY <2>5, <2>6, <2>7
<1>3. ASSUME NEW j \in StreamKeys, relayStreams'[j] # NoStream
      PROVE  stream'[relayStreams'[j]].key = j
  <2>1. relayStreams'[j] = relayStreams[j] /\ relayStreams[j] \in Streams
        /\ stream[relayStreams[j]].key = j
    BY <1>3 DEF RelayInv, StreamsInv
  <2> QED  BY <2>1
<1> QED  BY <1>1, <1>2, <1>3 DEF StreamsInv, StaysShut

\* The map stays, and no stream begins or ends.
LEMMA SameMap ==
  ASSUME RelayInv, relayStreams' = relayStreams, stream' \in [Streams -> AStream],
         \A t \in Streams : /\ stream'[t].key = stream[t].key /\ stream'[t].shut = stream[t].shut
                            /\ stream'[t] = stream[t] \/ (Runs(stream, t) /\ Runs(stream', t))
  PROVE  StreamsInv(relayStreams', stream') /\ StaysShut
<1>1. ASSUME NEW t \in Streams
      PROVE  /\ Runs(stream', t) <=> relayStreams'[stream'[t].key] = t
             /\ Runs(stream', t) \/ (stream'[t].heard = {} /\ stream'[t].eose = FALSE)
             /\ stream'[t].shut => ~Runs(stream', t) /\ stream'[t].stage # "unused"
  BY DEF RelayInv, StreamsInv, Runs
<1>2. ASSUME NEW j \in StreamKeys, relayStreams'[j] # NoStream
      PROVE  stream'[relayStreams'[j]].key = j
  BY <1>2 DEF RelayInv, StreamsInv
<1>3. relayStreams' \in [StreamKeys -> Streams \cup {NoStream}]
  BY DEF RelayInv, StreamsInv
<1> QED  BY <1>1, <1>2, <1>3 DEF StreamsInv, StaysShut

LEMMA CloseRelay ==
  ASSUME RelayInv, NEW s \in Streams, CloseHandle(s)
  PROVE  RelayInv' /\ StaysShut
<1> DEFINE k == stream[s].key
<1>1. k \in StreamKeys /\ stream[s].stage # "unused"
  BY DEF RelayInv, StreamsInv, AStream, CloseHandle
<1>2. relayStreams' = [relayStreams EXCEPT ![k] = NoStream]
  BY DEF CloseHandle
<1>3. stream' = [t \in Streams |-> IF t = s THEN [KeyClosed(k)[s] EXCEPT !.shut = TRUE]
                                   ELSE KeyClosed(k)[t]]
  BY DEF CloseHandle, KeyClosed
<1>4. ASSUME NEW t \in Streams
      PROVE  /\ KeyClosed(k)[t] = IF relayStreams[k] = t THEN Ended(t, "closed") ELSE stream[t]
             /\ KeyClosed(k)[t] \in AStream
  <2>1. KeyClosed(k)[t] = IF relayStreams[k] = t THEN Ended(t, "closed") ELSE stream[t]
    BY DEF KeyClosed
  <2>2. stream[t] \in AStream /\ {} \in SUBSET RelayEvents
    BY DEF RelayInv, StreamsInv
  <2> QED  BY <2>1, <2>2 DEF AStream, Stages, Ended
<1>5. ASSUME NEW t \in Streams
      PROVE  /\ stream'[t] \in AStream
             /\ stream'[t].key = stream[t].key
             /\ stream[t].shut => stream'[t].shut
             /\ stream'[t].shut => stream[t].shut \/ t = s
             /\ IF relayStreams[k] = t
                THEN stream'[t].stage \in {"closed", "over"} /\ stream'[t].heard = {}
                     /\ stream'[t].eose = FALSE
                ELSE stream'[t].stage = stream[t].stage /\ stream'[t].heard = stream[t].heard
                     /\ stream'[t].eose = stream[t].eose
  <2>1. stream[t] \in AStream
    BY DEF RelayInv, StreamsInv
  <2>2. stream'[t] = IF t = s THEN [KeyClosed(k)[t] EXCEPT !.shut = TRUE] ELSE KeyClosed(k)[t]
    BY <1>3
  <2>3. stream'[t] \in AStream
    BY <2>2, <1>4 DEF AStream
  <2>4. CASE relayStreams[k] = t
    <3> DEFINE r == Ended(t, "closed")
    <3>1. /\ r.key = stream[t].key /\ r.stage = "closed" /\ r.heard = {} /\ r.eose = FALSE
          /\ r.shut = stream[t].shut /\ r \in AStream
      BY <2>1, <2>4, <1>4 DEF AStream, Ended
    <3>2. stream'[t] = IF t = s THEN [r EXCEPT !.shut = TRUE] ELSE r
      BY <2>2, <2>4, <1>4
    <3> HIDE DEF r
    <3> QED  BY <2>3, <2>4, <3>1, <3>2 DEF AStream
  <2>5. CASE relayStreams[k] # t
    BY <2>1, <2>2, <2>3, <2>5, <1>4 DEF AStream
  <2> QED  BY <2>3, <2>4, <2>5
<1>6. stream' \in [Streams -> AStream]
  BY <1>3, <1>5
<1> HIDE DEF k
<1>7. \A t \in Streams :
        /\ stream'[t].key = stream[t].key
        /\ stream[t].shut => stream'[t].shut
        /\ stream'[t].shut => stream[t].shut \/ (stream[t].stage # "unused" /\ stream[t].key = k)
        /\ IF relayStreams[k] = t
           THEN stream'[t].stage \in {"closed", "over"} /\ stream'[t].heard = {}
                /\ stream'[t].eose = FALSE
           ELSE stream'[t].stage = stream[t].stage /\ stream'[t].heard = stream[t].heard
                /\ stream'[t].eose = stream[t].eose
  BY <1>1, <1>5 DEF k
<1>8. StreamsInv(relayStreams', stream') /\ StaysShut
  BY <1>1, <1>2, <1>6, <1>7, KeyDropped
<1>9. CacheInv'
  BY SameCache DEF RelayInv, CloseHandle
<1> QED  BY <1>8, <1>9 DEF RelayInv

LEMMA DestroyRelay ==
  ASSUME RelayInv, DestroyStreams
  PROVE  RelayInv' /\ StaysShut
<1>1. \A t \in Streams : stream[t] \in AStream /\ {} \in SUBSET RelayEvents
  BY DEF RelayInv, StreamsInv
<1>2. \A t \in Streams : stream'[t] = IF Streaming(t) THEN Ended(t, "closed") ELSE stream[t]
  BY DEF DestroyStreams
<1>3. stream' \in [Streams -> AStream]
  <2>1. \A t \in Streams : stream'[t] \in AStream
    BY <1>1, <1>2 DEF AStream, Ended, Stages
  <2> QED  BY <2>1 DEF DestroyStreams
<1>4. ASSUME NEW t \in Streams
      PROVE  /\ stream'[t].key \in StreamKeys /\ ~Runs(stream', t)
             /\ stream'[t].heard = {} /\ stream'[t].eose = FALSE
             /\ stream'[t].shut = stream[t].shut
             /\ stream'[t].stage = "unused" => stream[t].stage = "unused"
  <2>1. Runs(stream, t) \/ (stream[t].heard = {} /\ stream[t].eose = FALSE)
    BY DEF RelayInv, StreamsInv
  <2>2. Streaming(t) <=> Runs(stream, t)
    BY DEF Streaming, Runs
  <2>3. CASE Streaming(t)
    BY <2>3, <1>1, <1>2 DEF AStream, Ended, Runs
  <2>4. CASE ~Streaming(t)
    BY <2>1, <2>2, <2>4, <1>1, <1>2 DEF AStream, Runs
  <2> QED  BY <2>3, <2>4
<1>5. relayStreams' = [k \in StreamKeys |-> NoStream]
  BY DEF DestroyStreams
<1>6. \A t \in Streams : stream[t].shut => stream[t].stage # "unused"
  BY DEF RelayInv, StreamsInv
<1>7. \A t \in Streams : relayStreams'[stream'[t].key] # t
  BY <1>4, <1>5, RelayAssumption
<1>8. StreamsInv(relayStreams', stream')
  <2>1. relayStreams' \in [StreamKeys -> Streams \cup {NoStream}]
        /\ \A j \in StreamKeys : relayStreams'[j] = NoStream
    BY <1>5
  <2> QED  BY <2>1, <1>3, <1>4, <1>6, <1>7 DEF StreamsInv
<1>9. CacheInv'
  BY SameCache DEF RelayInv, DestroyStreams
<1> QED  BY <1>4, <1>8, <1>9 DEF RelayInv, StaysShut

\* A stream that runs is the one of its key: its listener hears.
LEMMA HearsRelay ==
  ASSUME RelayInv, NEW s \in Streams, Runs(stream, s), NEW e \in RelayEvents, Hears(s, e),
         relayStreams' = relayStreams
  PROVE  StreamsInv(relayStreams', stream') /\ StaysShut
<1>1. stream[s] \in AStream /\ relayStreams[stream[s].key] = s
  BY DEF RelayInv, StreamsInv
<1>2. stream' = [stream EXCEPT ![s].heard = @ \cup {e}]
  BY <1>1, RelayAssumption DEF Hears
<1>3. /\ stream'[s] \in AStream /\ stream'[s].key = stream[s].key
      /\ stream'[s].shut = stream[s].shut /\ stream'[s].stage = stream[s].stage
  BY <1>1, <1>2 DEF RelayInv, StreamsInv, AStream
<1>4. \A t \in Streams \ {s} : stream'[t] = stream[t]
  BY <1>2 DEF RelayInv, StreamsInv
<1>5. stream' \in [Streams -> AStream]
  <2>1. \A t \in Streams : stream'[t] \in AStream
    BY <1>3, <1>4 DEF RelayInv, StreamsInv
  <2> QED  BY <2>1, <1>2 DEF RelayInv, StreamsInv
<1>6. Runs(stream', s)
  BY <1>3 DEF Runs
<1> QED  BY <1>3, <1>4, <1>5, <1>6, SameMap

LEMMA LocalRelayHeard ==
  ASSUME RelayInv, NEW s \in Streams, NEW e \in RelayEvents, LocalEvent(s, e)
  PROVE  RelayInv' /\ StaysShut
<1>1. StreamsInv(relayStreams', stream') /\ StaysShut
  BY HearsRelay DEF LocalEvent, Runs
<1>2. CacheInv'
  BY SameCache DEF RelayInv, LocalEvent
<1> QED  BY <1>1, <1>2 DEF RelayInv

LEMMA LocalRelayAnswers ==
  ASSUME RelayInv, NEW s \in Streams, LocalAnswer(s)
  PROVE  RelayInv' /\ StaysShut
<1>1. stream[s] \in AStream /\ stream[s].stage = "local" /\ relayStreams' = relayStreams
      /\ stream' = [stream EXCEPT ![s].stage = "upstream"]
  BY DEF RelayInv, StreamsInv, LocalAnswer, LocalEnds, LocalFails
<1>2. /\ stream'[s] \in AStream /\ stream'[s].key = stream[s].key
      /\ stream'[s].shut = stream[s].shut /\ stream'[s].stage = "upstream"
  BY <1>1 DEF RelayInv, StreamsInv, AStream, Stages
<1>3. \A t \in Streams \ {s} : stream'[t] = stream[t]
  BY <1>1 DEF RelayInv, StreamsInv
<1>4. stream' \in [Streams -> AStream]
  <2>1. \A t \in Streams : stream'[t] \in AStream
    BY <1>2, <1>3 DEF RelayInv, StreamsInv
  <2> QED  BY <2>1, <1>1 DEF RelayInv, StreamsInv
<1>5. Runs(stream, s) /\ Runs(stream', s)
  BY <1>1, <1>2 DEF Runs
<1>6. StreamsInv(relayStreams', stream') /\ StaysShut
  BY <1>1, <1>2, <1>3, <1>4, <1>5, SameMap
<1>7. CacheInv'
  BY SameCache DEF RelayInv, LocalAnswer, LocalEnds, LocalFails
<1> QED  BY <1>6, <1>7 DEF RelayInv

\* What is taken into memory waits to be written at once.
LEMMA UpstreamHeard ==
  ASSUME RelayInv, NEW s \in Streams, NEW e \in RelayEvents, UpstreamEvent(s, e)
  PROVE  RelayInv' /\ StaysShut
<1>1. StreamsInv(relayStreams', stream') /\ StaysShut
  BY HearsRelay DEF UpstreamEvent, Runs
<1>2. CacheInv'
  <2>1. CASE stream[s].key \notin RelayKeys
    BY <2>1, SameCache DEF RelayInv, UpstreamEvent
  <2>2. CASE stream[s].key \in RelayKeys
    <3>1. /\ Len(cacheWrites) < MaxCacheWrites /\ memory' = memory \cup {e}
          /\ cacheWrites' = Append(cacheWrites, e)
          /\ localRelay' = localRelay /\ health' = health
      BY <2>2 DEF UpstreamEvent, Enqueued
    <3>2. cacheWrites \in Seq(RelayEvents) /\ Len(cacheWrites) \in Nat
      BY LenProperties DEF RelayInv, CacheInv
    <3>3. /\ cacheWrites' \in Seq(RelayEvents) /\ Len(cacheWrites') = Len(cacheWrites) + 1
          /\ \A i \in 1..Len(cacheWrites) : cacheWrites'[i] = cacheWrites[i]
          /\ cacheWrites'[Len(cacheWrites) + 1] = e
      BY <3>1, <3>2, AppendProperties
    <3>4. Len(cacheWrites') <= MaxCacheWrites
      BY <3>1, <3>2, <3>3, RelayAssumption
    <3>5. ToSet(cacheWrites) \cup {e} \subseteq ToSet(cacheWrites')
      <4>1. DOMAIN cacheWrites = 1..Len(cacheWrites) /\ DOMAIN cacheWrites' = 1..Len(cacheWrites')
        BY <3>2, <3>3, LenProperties
      <4>2. 1..Len(cacheWrites) \subseteq 1..Len(cacheWrites')
            /\ Len(cacheWrites) + 1 \in 1..Len(cacheWrites')
        BY <3>2, <3>3
      <4> QED  BY <4>1, <4>2, <3>3 DEF ToSet
    <3>6. CacheFollowsMemory'
      BY <3>1, <3>5 DEF RelayInv, CacheInv, CacheFollowsMemory
    <3> QED  BY <3>1, <3>3, <3>4, <3>6 DEF RelayInv, CacheInv
  <2> QED  BY <2>1, <2>2
<1> QED  BY <1>1, <1>2 DEF RelayInv

LEMMA UpstreamAnswers ==
  ASSUME RelayInv, NEW s \in Streams, UpstreamStep(s)
  PROVE  RelayInv' /\ StaysShut
<1>1. /\ stream[s] \in AStream /\ stream[s].stage = "upstream" /\ Runs(stream, s)
      /\ relayStreams[stream[s].key] = s /\ relayStreams[stream[s].key] # NoStream
  BY RelayAssumption DEF RelayInv, StreamsInv, UpstreamStep, UpstreamEose, UpstreamEnds, Runs
<1>2. CacheInv'
  BY SameCache DEF RelayInv, UpstreamStep, UpstreamEose, UpstreamEnds
<1>3. CASE UpstreamEose(s)
  <2>1. relayStreams' = relayStreams /\ stream' = [stream EXCEPT ![s].eose = TRUE]
    BY <1>1, <1>3 DEF UpstreamEose
  <2>2. /\ stream'[s] \in AStream /\ stream'[s].key = stream[s].key
        /\ stream'[s].shut = stream[s].shut /\ Runs(stream', s)
    BY <1>1, <2>1 DEF RelayInv, StreamsInv, AStream, Runs
  <2>3. \A t \in Streams \ {s} : stream'[t] = stream[t]
    BY <2>1 DEF RelayInv, StreamsInv
  <2>4. stream' \in [Streams -> AStream]
    <3>1. \A t \in Streams : stream'[t] \in AStream
      BY <2>2, <2>3 DEF RelayInv, StreamsInv
    <3> QED  BY <2>1, <3>1 DEF RelayInv, StreamsInv
  <2>5. StreamsInv(relayStreams', stream') /\ StaysShut
    BY <1>1, <2>1, <2>2, <2>3, <2>4, SameMap
  <2> QED  BY <1>2, <2>5 DEF RelayInv
<1>4. CASE UpstreamEnds(s)
  <2> DEFINE k == stream[s].key
  <2>1. relayStreams' = [relayStreams EXCEPT ![k] = NoStream]
        /\ stream' = [stream EXCEPT ![s] = Ended(s, "over")] /\ k \in StreamKeys
    BY <1>1, <1>4 DEF UpstreamEnds, AStream
  <2>2. /\ stream'[s] \in AStream /\ stream'[s].key = k
        /\ stream'[s].shut = stream[s].shut /\ stream'[s].stage = "over"
        /\ stream'[s].heard = {} /\ stream'[s].eose = FALSE
    BY <1>1, <2>1 DEF RelayInv, StreamsInv, AStream, Stages, Ended
  <2>3. \A t \in Streams \ {s} : stream'[t] = stream[t]
    BY <2>1 DEF RelayInv, StreamsInv
  <2>4. stream' \in [Streams -> AStream]
    <3>1. \A t \in Streams : stream'[t] \in AStream
      BY <2>2, <2>3 DEF RelayInv, StreamsInv
    <3> QED  BY <2>1, <3>1 DEF RelayInv, StreamsInv
  <2> HIDE DEF k
  <2>5. relayStreams[k] = s
    BY <1>1 DEF k
  <2>6. StreamsInv(relayStreams', stream') /\ StaysShut
    BY <2>1, <2>2, <2>3, <2>4, <2>5, KeyDropped DEF k
  <2> QED  BY <1>2, <2>6 DEF RelayInv
<1> QED  BY <1>3, <1>4 DEF UpstreamStep

LEMMA CacheWritten ==
  ASSUME RelayInv, CacheStep
  PROVE  RelayInv' /\ StaysShut
<1>1. /\ UNCHANGED <<relayStreams, stream, memory>> /\ cacheWrites # <<>>
      /\ cacheWrites' = Tail(cacheWrites) /\ cacheWrites \in Seq(RelayEvents)
      /\ Len(cacheWrites) \in Nat
  BY LenProperties DEF RelayInv, CacheInv, CacheStep, WriteCached, WriteLost
<1>2. StreamsInv(relayStreams', stream') /\ StaysShut
  BY <1>1 DEF RelayInv, StaysShut
<1>3. /\ cacheWrites' \in Seq(RelayEvents) /\ Len(cacheWrites') = Len(cacheWrites) - 1
      /\ \A i \in 1..Len(cacheWrites') : cacheWrites'[i] = cacheWrites[i + 1]
      /\ Head(cacheWrites) \in RelayEvents /\ Head(cacheWrites) = cacheWrites[1]
  BY <1>1, HeadTailProperties
<1>4. Len(cacheWrites') <= MaxCacheWrites
  BY <1>1, <1>3, RelayAssumption DEF RelayInv, CacheInv
<1>5. CASE WriteLost
  <2>1. health' = "degraded" /\ localRelay' = localRelay
    BY <1>5 DEF WriteLost
  <2> QED  BY <1>1, <1>2, <1>3, <1>4, <2>1 DEF RelayInv, CacheInv, CacheFollowsMemory
<1>6. CASE WriteCached
  <2>1. health' = health /\ localRelay' = localRelay \cup {Head(cacheWrites)}
    BY <1>6 DEF WriteCached
  <2>2. ToSet(cacheWrites) \subseteq {Head(cacheWrites)} \cup ToSet(cacheWrites')
    <3>1. DOMAIN cacheWrites = 1..Len(cacheWrites) /\ DOMAIN cacheWrites' = 1..Len(cacheWrites')
      BY <1>1, <1>3, LenProperties
    <3>2. ASSUME NEW i \in 1..Len(cacheWrites), i # 1
          PROVE  i - 1 \in 1..Len(cacheWrites') /\ cacheWrites[i] = cacheWrites'[i - 1]
      BY <1>1, <1>3, <3>2
    <3> QED  BY <1>3, <3>1, <3>2 DEF ToSet
  <2>3. CacheFollowsMemory'
    BY <1>1, <2>1, <2>2 DEF RelayInv, CacheInv, CacheFollowsMemory
  <2> QED  BY <1>1, <1>2, <1>3, <1>4, <2>1, <2>3 DEF RelayInv, CacheInv
<1> QED  BY <1>5, <1>6 DEF CacheStep

LEMMA RelayStepInv ==
  ASSUME RelayInv, [RelayNext]_relayVars
  PROVE  RelayInv' /\ StaysShut
<1>1. CASE UNCHANGED relayVars
  <2>1. UNCHANGED <<relayStreams, stream>>
    BY <1>1 DEF relayVars
  <2>2. CacheInv'
    BY <1>1, SameCache DEF RelayInv, relayVars
  <2> QED  BY <2>1, <2>2 DEF RelayInv, StaysShut
<1>2. ASSUME NEW s \in Streams, NappletStreams(s)  PROVE RelayInv' /\ StaysShut
  BY <1>2, SubscribeRelay, CloseRelay DEF NappletStreams
<1>3. ASSUME NEW s \in Streams, LocalAnswer(s)  PROVE RelayInv' /\ StaysShut
  BY <1>3, LocalRelayAnswers
<1>4. ASSUME NEW s \in Streams, UpstreamStep(s)  PROVE RelayInv' /\ StaysShut
  BY <1>4, UpstreamAnswers
<1>5. ASSUME NEW s \in Streams, NEW e \in RelayEvents, LocalEvent(s, e) \/ UpstreamEvent(s, e)
      PROVE  RelayInv' /\ StaysShut
  BY <1>5, LocalRelayHeard, UpstreamHeard
<1>6. CASE CacheStep
  BY <1>6, CacheWritten
<1>7. CASE DestroyStreams
  BY <1>7, DestroyRelay
<1> QED  BY <1>1, <1>2, <1>3, <1>4, <1>5, <1>6, <1>7 DEF RelayNext

\* A stream whose handle is closed has heard nothing, before the step and after it.
LEMMA ShutHearsNothing ==
  ASSUME RelayInv, RelayInv', StaysShut, NEW s \in Streams, stream[s].shut
  PROVE  stream'[s].heard = stream[s].heard /\ stream'[s].eose = stream[s].eose
<1>1. stream[s].heard = {} /\ stream[s].eose = FALSE
  BY DEF RelayInv, StreamsInv
<1>2. stream'[s].shut
  BY DEF StaysShut
<1>3. stream'[s].heard = {} /\ stream'[s].eose = FALSE
  BY <1>2 DEF RelayInv, StreamsInv
<1> QED  BY <1>1, <1>3

LEMMA StreamsSafe == RelayInit /\ [][RelayNext]_relayVars => StreamsAreLive
<1>1. RelayInit => RelayInv
  BY InitRelay
<1>2. RelayInv /\ [RelayNext]_relayVars => RelayInv'
  BY RelayStepInv
<1>3. RelayInv => LiveIsRegistered /\ CacheFollowsMemory
  BY RelayInvTypes
<1>4. RelayInv /\ RelayInv' /\ [RelayNext]_relayVars
        => [\A s \in Streams : stream[s].shut =>
              stream'[s].heard = stream[s].heard /\ stream'[s].eose = stream[s].eose]_relayVars
  BY RelayStepInv, ShutHearsNothing
<1> QED  BY <1>1, <1>2, <1>3, <1>4, PTL DEF StreamsAreLive, ClosedHearsNothing

(***************************************************************************)
(* In every order of subscriptions, closes, answers and failures, for any  *)
(* number of streams: the map of each adapter (relay_adapter.ts, outbox.ts)*)
(* has exactly the streams that run, a closed one hears nothing more, and  *)
(* while the cache calls itself healthy the local relay has, or is about   *)
(* to have, every event in memory.                                         *)
(***************************************************************************)
THEOREM StreamsStayLive == RelaySpec => StreamsAreLive
BY StreamsSafe, PTL DEF RelaySpec

LEMMA RelayTypesSafe == RelayInit /\ [][RelayNext]_relayVars => []RelayTypeOK
<1>1. RelayInit => RelayInv
  BY InitRelay
<1>2. RelayInv /\ [RelayNext]_relayVars => RelayInv'
  BY RelayStepInv
<1> QED  BY <1>1, <1>2, RelayInvTypes, PTL

\* Registry, streams, store and cache keep their types.
THEOREM RelayTypes == RelaySpec => []RelayTypeOK
BY RelayTypesSafe, PTL DEF RelaySpec
=============================================================================
