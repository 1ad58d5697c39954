--------------------------- MODULE Connections_proofs ---------------------------
(***************************************************************************)
(* Proofs about the two sides of a connection: ConnectionController, in    *)
(* the browser, and ConnectionRegistry, in the portal.  For any number of  *)
(* connections, windows, sockets and subscriptions.                        *)
(*                                                                         *)
(* What the registry promises is about the newest socket of a connection,  *)
(* and says nothing of the others: a step that makes an old socket the     *)
(* newest, or lets a connection go, needs to know where every socket       *)
(* stands.  Attachments says that: the generations a connection handed out *)
(* are distinct and never above its record's, the record's own generation  *)
(* is somebody's, and the connection is attached as long as that socket    *)
(* has not closed.  A socket that outlives its connection was superseded.  *)
(***************************************************************************)
EXTENDS ConnectionController, ConnectionRegistry, TLAPS

-------------------------------------------------------------------------------
(* ConnectionController.  Of the snapshot only the phase matters here.       *)

\* The fields have their types, the socket in hand is one of a started controller
\* whose attempt is not over, and only a started controller has a timer.
FieldsInv ==
  /\ ready \in [WebSockets -> {"gone", "connecting", "open", "closing"}]
  /\ webSocket \in WebSockets \cup {NoSocket}
  /\ timer \in {"none", "connect", "retry"}
  /\ {terminal, eligible, noticed} \subseteq BOOLEAN
  /\ lifetime \in {"new", "started", "stopped"}
  /\ "phase" \in DOMAIN snapshot
  /\ webSocket # NoSocket =>
       ready[webSocket] \in {"connecting", "open"} /\ ~terminal /\ lifetime = "started"
  /\ timer # "none" => lifetime = "started"
  /\ lifetime = "new" => snapshot.phase = "pending"

ControllerInv == FieldsInv /\ ConnectionIsKept

-----------------------------------------------------------------------------
\* What is emitted is the new phase.
LEMMA EmitPhase ==
  ASSUME "phase" \in DOMAIN snapshot, NEW update, "phase" \in DOMAIN update, Emit(update)
  PROVE  "phase" \in DOMAIN snapshot' /\ snapshot'.phase = update.phase
BY DEF Emit

LEMMA InitController == ControllerInit => ControllerInv
<1> SUFFICES ASSUME ControllerInit  PROVE ControllerInv
  OBVIOUS
<1>1. "phase" \in DOMAIN snapshot /\ snapshot.phase = "pending"
  BY DEF ControllerInit
<1>2. FieldsInv
  BY <1>1 DEF ControllerInit, FieldsInv
<1>3. OneAttempt /\ PhaseIsTrue /\ LostIsRetried /\ TimerIsOfAttempt
  BY DEF ControllerInit, OneAttempt, InUse, PhaseIsTrue, LostIsRetried, TimerIsOfAttempt
<1> QED  BY <1>2, <1>3 DEF ControllerInv, ConnectionIsKept

\* A new attempt has the only socket in use, and its timeout.
LEMMA ConnectingInv ==
  ASSUME ControllerInv, MayConnect \/ (lifetime = "new" /\ eligible), lifetime' = "started",
         UNCHANGED eligible, noticed' \in BOOLEAN, NEW s \in WebSockets, Connecting(s)
  PROVE  ControllerInv'
<1> DEFINE again == token \/ snapshot.failures > 0
           update == [phase |-> IF again THEN "retrying" ELSE "pending",
                      mode |-> IF again THEN "reconnect" ELSE "cold", nextRetry |-> "none"]
<1>1. Emit(update)
  BY DEF Connecting
<1>2. "phase" \in DOMAIN update /\ update.phase \in {"retrying", "pending"}
  OBVIOUS
<1> HIDE DEF update
<1>3. "phase" \in DOMAIN snapshot' /\ snapshot'.phase \in {"retrying", "pending"}
  BY <1>1, <1>2, EmitPhase DEF ControllerInv, FieldsInv
<1>4. /\ ready' = [r \in WebSockets |-> IF r = s THEN "connecting"
                                        ELSE IF r = webSocket THEN "closing" ELSE ready[r]]
      /\ webSocket' = s /\ terminal' = FALSE /\ timer' = "connect"
  BY DEF Connecting
<1>5. eligible' = TRUE /\ s # NoSocket
  BY ControllerAssumption DEF MayConnect, ControllerInv, FieldsInv
<1>6. FieldsInv'
  BY <1>3, <1>4, <1>5 DEF ControllerInv, FieldsInv
<1>7. OneAttempt'
  BY <1>4 DEF ControllerInv, FieldsInv, ConnectionIsKept, OneAttempt, InUse
<1>8. PhaseIsTrue' /\ LostIsRetried' /\ TimerIsOfAttempt'
  BY <1>3, <1>4, <1>5 DEF PhaseIsTrue, LostIsRetried, TimerIsOfAttempt
<1> QED  BY <1>6, <1>7, <1>8 DEF ControllerInv, ConnectionIsKept

\* An attempt that is over leaves no socket in use, and the retry due if the page is shown.
LEMMA AttemptOverInv ==
  ASSUME ControllerInv, lifetime = "started", NEW s \in WebSockets, webSocket = s, AttemptOver,
         NEW stage \in {"gone", "closing"}, ready' = [ready EXCEPT ![s] = stage],
         UNCHANGED <<lifetime, eligible, noticed>>
  PROVE  ControllerInv'
<1> DEFINE many == Failures = ManualRetryFailures
           update == [phase |-> IF ~eligible THEN "dormant"
                                ELSE IF many THEN "failed" ELSE "retrying",
                      mode |-> "reconnect", failures |-> Failures, canRetry |-> many,
                      nextRetry |-> IF ~eligible THEN "none"
                                    ELSE IF many THEN "quiet" ELSE "jittered"]
<1>1. Emit(update) /\ terminal' = TRUE /\ webSocket' = NoSocket
      /\ timer' = IF eligible THEN "retry" ELSE "none"
  BY DEF AttemptOver, NextTimer
<1>2. "phase" \in DOMAIN update /\ update.phase \in {"dormant", "failed", "retrying"}
  OBVIOUS
<1> HIDE DEF update
<1>3. "phase" \in DOMAIN snapshot' /\ snapshot'.phase \in {"dormant", "failed", "retrying"}
  BY <1>1, <1>2, EmitPhase DEF ControllerInv, FieldsInv
<1>4. FieldsInv'
  BY <1>1, <1>3 DEF ControllerInv, FieldsInv
<1>5. OneAttempt'
  BY <1>1 DEF ControllerInv, FieldsInv, ConnectionIsKept, OneAttempt, InUse
<1>6. PhaseIsTrue' /\ LostIsRetried' /\ TimerIsOfAttempt'
  BY <1>1, <1>3 DEF PhaseIsTrue, LostIsRetried, TimerIsOfAttempt, ControllerInv, FieldsInv
<1> QED  BY <1>4, <1>5, <1>6 DEF ControllerInv, ConnectionIsKept

\* Steps that change no field the invariant speaks of.
LEMMA SameController ==
  ASSUME ControllerInv, UNCHANGED <<ready, webSocket, terminal, timer, lifetime, snapshot>>,
         eligible' \in BOOLEAN, noticed' \in BOOLEAN,
         noticed' => eligible' = eligible /\ (noticed \/ lifetime # "started")
  PROVE  ControllerInv'
BY DEF ControllerInv, FieldsInv, ConnectionIsKept, OneAttempt, InUse, PhaseIsTrue, LostIsRetried,
       TimerIsOfAttempt

LEMMA StopInv == ControllerInv /\ StopController => ControllerInv'
BY DEF StopController, ControllerInv, FieldsInv, ConnectionIsKept, OneAttempt, InUse, PhaseIsTrue,
       LostIsRetried, TimerIsOfAttempt

LEMMA StartInv ==
  ASSUME ControllerInv, StartController
  PROVE  ControllerInv'
<1>1. lifetime = "new" /\ lifetime' = "started" /\ UNCHANGED <<eligible, noticed>>
  BY DEF StartController
<1>2. CASE eligible
  BY <1>1, <1>2, ConnectingInv DEF StartController, ControllerInv, FieldsInv
<1>3. CASE ~eligible
  BY <1>1, <1>3
  DEF StartController, ControllerInv, FieldsInv, ConnectionIsKept, OneAttempt, InUse,
      PhaseIsTrue, LostIsRetried, TimerIsOfAttempt
<1> QED  BY <1>2, <1>3

LEMMA RetryInv ==
  ASSUME ControllerInv, RetryNow \/ RetryFires
  PROVE  ControllerInv'
<1>1. UNCHANGED <<lifetime, eligible, noticed>>
  BY DEF RetryNow, RetryFires
<1>2. ASSUME NEW s \in WebSockets, Connecting(s), MayConnect
      PROVE  ControllerInv'
  <2>1. lifetime' = "started" /\ noticed' \in BOOLEAN
    BY <1>1, <1>2 DEF MayConnect, ControllerInv, FieldsInv
  <2> QED  BY <1>1, <1>2, <2>1, ConnectingInv
<1>3. CASE /\ timer = "retry" /\ ~(MayConnect /\ ~Busy)
           /\ timer' = "none" /\ UNCHANGED <<ready, webSocket, terminal, snapshot>>
  <2>1. webSocket = NoSocket /\ lifetime = "started" /\ ~eligible
    BY <1>3 DEF ControllerInv, FieldsInv, ConnectionIsKept, TimerIsOfAttempt, MayConnect, Busy
  <2> QED
    BY <1>1, <1>3, <2>1
    DEF ControllerInv, FieldsInv, ConnectionIsKept, OneAttempt, InUse, PhaseIsTrue,
        LostIsRetried, TimerIsOfAttempt
<1> QED  BY <1>2, <1>3 DEF RetryNow, RetryFires

\* A page that is shown again has its socket or gets one; one that rests has no timer.
LEMMA LifecycleInv ==
  ASSUME ControllerInv, LifecycleChanged
  PROVE  ControllerInv'
<1>1. ~noticed /\ noticed' = TRUE /\ UNCHANGED <<lifetime, eligible>>
  BY DEF LifecycleChanged
<1>2. CASE lifetime # "started"
  <2>1. UNCHANGED <<ready, webSocket, terminal, timer, lifetime, snapshot>>
    BY <1>2 DEF LifecycleChanged
  <2> QED  BY <1>1, <1>2, <2>1, SameController DEF ControllerInv, FieldsInv
<1>3. CASE lifetime = "started" /\ eligible
  <2>1. LifecycleResumes
    BY <1>3 DEF LifecycleChanged
  <2>2. CASE webSocket = NoSocket
    <3>1. PICK s \in WebSockets : Connecting(s)
      BY <1>3, <2>1, <2>2 DEF LifecycleResumes, RequestConnect, MayConnect, Busy
    <3> QED  BY <1>1, <1>3, <3>1, ConnectingInv DEF MayConnect
  <2>3. CASE webSocket # NoSocket
    <3>1. UNCHANGED <<ready, webSocket, terminal, timer, snapshot>>
      BY <2>1, <2>3 DEF LifecycleResumes, ControllerInv, FieldsInv
    <3> QED
      BY <1>1, <1>3, <2>3, <3>1
      DEF ControllerInv, FieldsInv, ConnectionIsKept, OneAttempt, InUse, PhaseIsTrue,
          LostIsRetried, TimerIsOfAttempt
  <2> QED  BY <2>2, <2>3
<1>4. CASE lifetime = "started" /\ ~eligible
  <2> DEFINE update == [phase |-> "dormant", mode |-> IF token THEN "reconnect" ELSE snapshot.mode,
                        nextRetry |-> "none"]
  <2>1. /\ timer' = "none" /\ UNCHANGED <<ready, webSocket, terminal>>
        /\ UNCHANGED snapshot \/ Emit(update)
    BY <1>4 DEF LifecycleChanged, LifecycleRests
  <2>2. "phase" \in DOMAIN update /\ update.phase = "dormant"
    OBVIOUS
  <2> HIDE DEF update
  <2>3. /\ "phase" \in DOMAIN snapshot'
        /\ snapshot'.phase = snapshot.phase \/ snapshot'.phase = "dormant"
    BY <2>1, <2>2, EmitPhase DEF ControllerInv, FieldsInv
  <2> QED
    BY <1>1, <1>4, <2>1, <2>3
    DEF ControllerInv, FieldsInv, ConnectionIsKept, OneAttempt, InUse, PhaseIsTrue,
        LostIsRetried, TimerIsOfAttempt
<1> QED  BY <1>2, <1>3, <1>4 DEF ControllerInv, FieldsInv

LEMMA TimesOutInv ==
  ASSUME ControllerInv, ConnectTimesOut
  PROVE  ControllerInv'
<1>1. webSocket \in WebSockets /\ lifetime = "started"
  BY DEF ConnectTimesOut, ControllerInv, FieldsInv, ConnectionIsKept, TimerIsOfAttempt
<1> QED  BY <1>1, AttemptOverInv DEF ConnectTimesOut

\* Only the socket in hand connects, and it takes its timeout along.
LEMMA OpensInv ==
  ASSUME ControllerInv, NEW s \in WebSockets, SocketOpens(s)
  PROVE  ControllerInv'
<1>1. webSocket = s /\ lifetime = "started" /\ s # NoSocket
  BY ControllerAssumption
  DEF SocketOpens, ControllerInv, FieldsInv, ConnectionIsKept, OneAttempt, InUse
<1>2. timer' = "none" /\ ready' = [ready EXCEPT ![s] = "open"]
      /\ UNCHANGED <<webSocket, terminal, lifetime, snapshot, eligible, noticed>>
  BY <1>1 DEF SocketOpens, Current
<1> QED
  BY <1>1, <1>2
  DEF ControllerInv, FieldsInv, ConnectionIsKept, OneAttempt, InUse, PhaseIsTrue, LostIsRetried,
      TimerIsOfAttempt

\* The end of a socket is the end of its attempt, or of nobody's.
LEMMA EndsInv ==
  ASSUME ControllerInv, NEW s \in WebSockets, SocketFails(s) \/ SocketCloses(s)
  PROVE  ControllerInv'
<1>1. PICK stage \in {"gone", "closing"} : ready' = [ready EXCEPT ![s] = stage]
  BY DEF SocketFails, SocketCloses
<1>2. TerminateAttempt(s) /\ UNCHANGED <<lifetime, eligible, noticed>>
  BY DEF SocketFails, SocketCloses
<1>3. CASE webSocket = s
  <2>1. lifetime = "started" /\ ~terminal
    BY <1>3, ControllerAssumption DEF ControllerInv, FieldsInv
  <2>2. AttemptOver
    BY <1>2, <1>3, <2>1 DEF TerminateAttempt, Current
  <2> QED  BY <1>1, <1>2, <1>3, <2>1, <2>2, AttemptOverInv
<1>4. CASE webSocket # s
  <2>1. UNCHANGED <<terminal, webSocket, timer, snapshot>>
    BY <1>2, <1>4 DEF TerminateAttempt, Current
  <2> QED
    BY <1>1, <1>2, <1>4, <2>1
    DEF ControllerInv, FieldsInv, ConnectionIsKept, OneAttempt, InUse, PhaseIsTrue,
        LostIsRetried, TimerIsOfAttempt
<1> QED  BY <1>3, <1>4

\* What the portal sends changes the phase of an open socket only.
LEMMA ReceivedInv ==
  ASSUME ControllerInv, NEW s \in WebSockets, ready[s] = "open", Current(s),
         UNCHANGED <<ready, webSocket, terminal, timer, lifetime, eligible, noticed>>,
         "phase" \in DOMAIN snapshot'
  PROVE  ControllerInv'
<1>1. webSocket = s /\ s # NoSocket /\ lifetime = "started"
  BY ControllerAssumption DEF Current, ControllerInv, FieldsInv
<1> QED
  BY <1>1
  DEF ControllerInv, FieldsInv, ConnectionIsKept, OneAttempt, InUse, PhaseIsTrue, LostIsRetried,
      TimerIsOfAttempt

LEMMA EmitDomain ==
  ASSUME ControllerInv, NEW update, Emit(update)
  PROVE  "phase" \in DOMAIN snapshot'
BY DEF Emit, ControllerInv, FieldsInv

LEMMA ControllerStep ==
  ASSUME ControllerInv, [ControllerNext]_controllerVars
  PROVE  ControllerInv'
<1>1. CASE ShellStep
  BY <1>1, StartInv, RetryInv, StopInv DEF ShellStep
<1>2. CASE EligibilityChanges
  BY <1>2, SameController DEF EligibilityChanges, ControllerInv, FieldsInv
<1>3. CASE LifecycleChanged
  BY <1>3, LifecycleInv
<1>4. CASE TimerStep
  BY <1>4, TimesOutInv, RetryInv DEF TimerStep
<1>5. ASSUME NEW s \in WebSockets, SocketOpens(s) \/ SocketFails(s) \/ SocketCloses(s)
      PROVE  ControllerInv'
  BY <1>5, OpensInv, EndsInv
<1>6. ASSUME NEW s \in WebSockets, Greeted(s) \/ ArtifactArrives(s) \/ StartRefused(s)
      PROVE  ControllerInv'
  <2>1. /\ ready[s] = "open" /\ Current(s)
        /\ UNCHANGED <<ready, webSocket, terminal, timer, lifetime, eligible, noticed>>
    BY <1>6 DEF Greeted, ArtifactArrives, StartRefused
  <2>2. "phase" \in DOMAIN snapshot'
    BY <1>6, EmitDomain DEF Greeted, ArtifactArrives, StartRefused
  <2> QED  BY <2>1, <2>2, ReceivedInv
<1>7. CASE UNCHANGED controllerVars
  BY <1>7, SameController DEF controllerVars, ControllerInv, FieldsInv
<1> QED
  BY <1>1, <1>2, <1>3, <1>4, <1>5, <1>6, <1>7 DEF ControllerNext, PageStep, WebSocketStep

LEMMA ConnectionSafe ==
  ControllerInit /\ [][ControllerNext]_controllerVars => [](ControllerInv /\ ConnectionIsKept)
<1>1. ControllerInv => ConnectionIsKept
  BY DEF ControllerInv
<1> QED  BY <1>1, InitController, ControllerStep, PTL

(***************************************************************************)
(* Whatever triggers coincide, the browser keeps one live socket, shows    *)
(* the truth about it, and has the timer that keeps it or brings it back.  *)
(***************************************************************************)
THEOREM ConnectionHolds == ControllerSpec => []ConnectionIsKept
BY ConnectionSafe, PTL DEF ControllerSpec

\* What the shell shows has its type.
ShownInv == {token, bootstrapped} \subseteq BOOLEAN /\ snapshot \in Snapshot

\* What is emitted takes the place of the fields it names.
LEMMA EmitType ==
  ASSUME snapshot \in Snapshot, NEW update, Emit(update),
         "phase" \in DOMAIN update => update.phase \in Phases,
         "mode" \in DOMAIN update => update.mode \in {"cold", "reconnect"},
         "failures" \in DOMAIN update => update.failures \in 0..ManualRetryFailures,
         "canRetry" \in DOMAIN update => update.canRetry \in BOOLEAN,
         "nextRetry" \in DOMAIN update => update.nextRetry \in {"none", "jittered", "quiet"}
  PROVE  snapshot' \in Snapshot
<1> DEFINE now(f) == IF f \in DOMAIN update THEN update[f] ELSE snapshot[f]
<1>1. DOMAIN snapshot = {"phase", "mode", "failures", "canRetry", "nextRetry"}
  BY DEF Snapshot
<1>2. snapshot' = [f \in {"phase", "mode", "failures", "canRetry", "nextRetry"} |-> now(f)]
  BY <1>1 DEF Emit
<1>3. /\ now("phase") \in Phases /\ now("mode") \in {"cold", "reconnect"}
      /\ now("failures") \in 0..ManualRetryFailures /\ now("canRetry") \in BOOLEAN
      /\ now("nextRetry") \in {"none", "jittered", "quiet"}
  BY DEF Snapshot
<1>4. /\ snapshot'["phase"] = now("phase") /\ snapshot'["mode"] = now("mode")
      /\ snapshot'["failures"] = now("failures") /\ snapshot'["canRetry"] = now("canRetry")
      /\ snapshot'["nextRetry"] = now("nextRetry")
  BY <1>2
<1> HIDE DEF now
<1>5. snapshot' = [phase |-> now("phase"), mode |-> now("mode"), failures |-> now("failures"),
                   canRetry |-> now("canRetry"), nextRetry |-> now("nextRetry")]
  BY <1>2, <1>4
<1> QED  BY <1>3, <1>5 DEF Snapshot

LEMMA ConnectingType ==
  ASSUME ShownInv, NEW s \in WebSockets, Connecting(s), token' = token
  PROVE  ShownInv'
<1> DEFINE again == token \/ snapshot.failures > 0
           update == [phase |-> IF again THEN "retrying" ELSE "pending",
                      mode |-> IF again THEN "reconnect" ELSE "cold", nextRetry |-> "none"]
<1>1. Emit(update) /\ bootstrapped' = FALSE
  BY DEF Connecting
<1>2. /\ DOMAIN update = {"phase", "mode", "nextRetry"} /\ update.phase \in Phases
      /\ update.mode \in {"cold", "reconnect"} /\ update.nextRetry = "none"
  BY DEF Phases
<1> HIDE DEF update
<1>3. snapshot' \in Snapshot
  BY <1>1, <1>2, EmitType DEF ShownInv
<1> QED  BY <1>1, <1>3 DEF ShownInv

LEMMA AttemptOverType ==
  ASSUME ShownInv, AttemptOver, UNCHANGED <<token, bootstrapped>>
  PROVE  ShownInv'
<1> DEFINE many == Failures = ManualRetryFailures
           update == [phase |-> IF ~eligible THEN "dormant"
                                ELSE IF many THEN "failed" ELSE "retrying",
                      mode |-> "reconnect", failures |-> Failures, canRetry |-> many,
                      nextRetry |-> IF ~eligible THEN "none"
                                    ELSE IF many THEN "quiet" ELSE "jittered"]
<1>1. Emit(update)
  BY DEF AttemptOver
<1>2. Failures \in 0..ManualRetryFailures
  BY ControllerAssumption DEF Failures, ShownInv, Snapshot
<1>3. /\ update.phase \in Phases /\ update.mode \in {"cold", "reconnect"}
      /\ update.failures \in 0..ManualRetryFailures /\ update.canRetry \in BOOLEAN
      /\ update.nextRetry \in {"none", "jittered", "quiet"}
  BY <1>2 DEF Phases
<1> HIDE DEF update
<1>4. snapshot' \in Snapshot
  BY <1>1, <1>3, EmitType DEF ShownInv
<1> QED  BY <1>4 DEF ShownInv

LEMMA ReceivedType ==
  ASSUME ShownInv, NEW s \in WebSockets, Greeted(s) \/ ArtifactArrives(s) \/ StartRefused(s)
  PROVE  ShownInv'
<1>1. CASE Greeted(s)
  <2> DEFINE update == [phase |-> "bootstrapping", nextRetry |-> "none"]
  <2>1. Emit(update) /\ bootstrapped' = TRUE /\ token' = TRUE
    BY <1>1 DEF Greeted
  <2>2. DOMAIN update = {"phase", "nextRetry"} /\ update.phase \in Phases
        /\ update.nextRetry = "none"
    BY DEF Phases
  <2> HIDE DEF update
  <2>3. snapshot' \in Snapshot
    BY <2>1, <2>2, EmitType DEF ShownInv
  <2> QED  BY <2>1, <2>3 DEF ShownInv
<1>2. CASE ArtifactArrives(s)
  <2> DEFINE update == [phase |-> "ready", failures |-> 0, canRetry |-> FALSE, nextRetry |-> "none"]
  <2>1. Emit(update) /\ UNCHANGED <<bootstrapped, token>>
    BY <1>2 DEF ArtifactArrives
  <2>2. /\ DOMAIN update = {"phase", "failures", "canRetry", "nextRetry"}
        /\ update.phase \in Phases /\ update.nextRetry = "none"
        /\ update.failures \in 0..ManualRetryFailures /\ update.canRetry = FALSE
    BY ControllerAssumption DEF Phases
  <2> HIDE DEF update
  <2>3. snapshot' \in Snapshot
    BY <2>1, <2>2, EmitType DEF ShownInv
  <2> QED  BY <2>1, <2>3 DEF ShownInv
<1>3. CASE StartRefused(s)
  <2> DEFINE update == [phase |-> "failed", canRetry |-> TRUE, nextRetry |-> "none"]
  <2>1. Emit(update) /\ UNCHANGED <<bootstrapped, token>>
    BY <1>3 DEF StartRefused
  <2>2. DOMAIN update = {"phase", "canRetry", "nextRetry"} /\ update.phase \in Phases
        /\ update.nextRetry = "none" /\ update.canRetry = TRUE
    BY DEF Phases
  <2> HIDE DEF update
  <2>3. snapshot' \in Snapshot
    BY <2>1, <2>2, EmitType DEF ShownInv
  <2> QED  BY <2>1, <2>3 DEF ShownInv
<1> QED  BY <1>1, <1>2, <1>3

LEMMA LifecycleType ==
  ASSUME ShownInv, LifecycleChanged
  PROVE  ShownInv'
<1>1. token' = token
  BY DEF LifecycleChanged
<1>2. CASE LifecycleRests
  <2> DEFINE update == [phase |-> "dormant", mode |-> IF token THEN "reconnect" ELSE snapshot.mode,
                        nextRetry |-> "none"]
  <2>1. (UNCHANGED snapshot \/ Emit(update)) /\ UNCHANGED bootstrapped
    BY <1>2 DEF LifecycleRests
  <2>2. /\ DOMAIN update = {"phase", "mode", "nextRetry"} /\ update.phase \in Phases
        /\ update.mode \in {"cold", "reconnect"} /\ update.nextRetry = "none"
    BY DEF Phases, ShownInv, Snapshot
  <2> HIDE DEF update
  <2>3. snapshot' \in Snapshot
    BY <2>1, <2>2, EmitType DEF ShownInv
  <2> QED  BY <1>1, <2>1, <2>3 DEF ShownInv
<1>3. ASSUME NEW s \in WebSockets, Connecting(s)  PROVE ShownInv'
  BY <1>1, <1>3, ConnectingType
<1>4. CASE UNCHANGED <<bootstrapped, snapshot>>
  BY <1>1, <1>4 DEF ShownInv
<1> QED
  BY <1>2, <1>3, <1>4 DEF LifecycleChanged, LifecycleResumes, RequestConnect

LEMMA ShownStep ==
  ASSUME ShownInv, [ControllerNext]_controllerVars
  PROVE  ShownInv'
<1>1. CASE UNCHANGED <<token, bootstrapped, snapshot>>
  BY <1>1 DEF ShownInv
<1>2. ASSUME NEW s \in WebSockets, Connecting(s), token' = token  PROVE ShownInv'
  BY <1>2, ConnectingType
<1>3. CASE AttemptOver /\ UNCHANGED <<token, bootstrapped>>
  BY <1>3, AttemptOverType
<1>4. CASE ShellStep
  BY <1>1, <1>2, <1>4 DEF ShellStep, StartController, RetryNow, StopController
<1>5. CASE PageStep
  BY <1>1, <1>5, LifecycleType DEF PageStep, EligibilityChanges
<1>6. CASE TimerStep
  BY <1>1, <1>2, <1>3, <1>6 DEF TimerStep, ConnectTimesOut, RetryFires
<1>7. ASSUME NEW s \in WebSockets, SocketOpens(s) \/ SocketFails(s) \/ SocketCloses(s)
      PROVE  ShownInv'
  BY <1>1, <1>3, <1>7 DEF SocketOpens, SocketFails, SocketCloses, TerminateAttempt
<1>8. ASSUME NEW s \in WebSockets, Greeted(s) \/ ArtifactArrives(s) \/ StartRefused(s)
      PROVE  ShownInv'
  BY <1>8, ReceivedType
<1>9. CASE UNCHANGED controllerVars
  BY <1>1, <1>9 DEF controllerVars
<1> QED  BY <1>4, <1>5, <1>6, <1>7, <1>8, <1>9 DEF ControllerNext, WebSocketStep

LEMMA ControllerTypesSafe ==
  ControllerInit /\ [][ControllerNext]_controllerVars => []ControllerTypeOK
<1>1. ControllerInit => ShownInv
  <2> SUFFICES ASSUME ControllerInit  PROVE ShownInv
    OBVIOUS
  <2>1. 0 \in 0..ManualRetryFailures
    BY ControllerAssumption
  <2>2. snapshot \in Snapshot
    BY <2>1 DEF ControllerInit, Snapshot, Phases
  <2> QED  BY <2>2 DEF ControllerInit, ShownInv
<1>2. ControllerInv /\ ShownInv => ControllerTypeOK
  BY DEF ControllerInv, FieldsInv, ShownInv, ControllerTypeOK
<1> QED  BY <1>1, <1>2, ConnectionSafe, ShownStep, PTL

-------------------------------------------------------------------------------
(* ConnectionRegistry: the inductive invariant.                              *)

Live == {"connecting", "open", "refused"}

\* Every socket has the attachment one upgrade gave it, or none yet.
SocketsAttached ==
  /\ \A s \in Sockets :
       /\ socket[s].state = "new" <=> socket[s].connection = NoConnection
       /\ socket[s].state # "new" => socket[s].connection \in used
  /\ \A s, t \in Sockets :
       /\ socket[s].connection = socket[t].connection
       /\ socket[s].connection # NoConnection
       /\ socket[s].generation = socket[t].generation
       => s = t

\* A record stands for the newest socket of its connection.
RecordsFollow ==
  \A c \in Known :
    /\ connections[c].armed <=> ~connections[c].attached
    /\ \E s \in Sockets : /\ socket[s].connection = c
                          /\ socket[s].generation = connections[c].generation
    /\ \A s \in Sockets : socket[s].connection = c =>
         /\ socket[s].generation <= connections[c].generation
         /\ socket[s].generation = connections[c].generation =>
              (connections[c].attached <=> socket[s].state \in Live)

\* A socket that is left when its connection is gone had been superseded.
LeftAreSuperseded ==
  \A s \in Sockets :
    Alive(s) /\ socket[s].connection \notin Known =>
      \E t \in Sockets : /\ socket[t].connection = socket[s].connection
                         /\ socket[t].generation > socket[s].generation

Attachments == SocketsAttached /\ RecordsFollow /\ LeftAreSuperseded

\* A socket that can speak, and a connection that can be resumed, has a session.
SessionsServe ==
  /\ \A s \in Sockets : Alive(s) /\ socket[s].connection \in Known =>
       socket[s].connection \in DOMAIN sessions
  /\ greeted \cap Known \subseteq DOMAIN sessions

\* What a launch waits for is still what it was started for.
LaunchesKeep ==
  \A l \in launches :
    /\ l.connection = socket[l.socket].connection
    /\ l.connection \in used
    /\ l.connection \in Known => /\ l.connection \in DOMAIN sessions
                                 /\ l.window = sessions[l.connection]

RegistryInv ==
  /\ TypeOK
  /\ Attachments
  /\ WindowsAgree
  /\ SessionsServe
  /\ SubscriptionsAreOwned

-------------------------------------------------------------------------------
(* The maps of the registry.                                                 *)

LEMMA WithIs ==
  ASSUME NEW f, NEW x, NEW y
  PROVE  /\ DOMAIN With(f, x, y) = DOMAIN f \cup {x}
         /\ With(f, x, y)[x] = y
         /\ \A z \in DOMAIN f : z # x => With(f, x, y)[z] = f[z]
  BY DEF With

LEMMA WithoutIs ==
  ASSUME NEW f, NEW S
  PROVE  /\ DOMAIN Without(f, S) = DOMAIN f \ S
         /\ \A z \in DOMAIN f \ S : Without(f, S)[z] = f[z]
  BY DEF Without, Restrict

LEMMA WithoutDomain ==
  ASSUME NEW f, NEW S
  PROVE  DOMAIN Without(f, S) \subseteq DOMAIN f
  BY DEF Without, Restrict

LEMMA WithType ==
  ASSUME NEW f, NEW x, NEW y, NEW T, f \in [DOMAIN f -> T], y \in T
  PROVE  With(f, x, y) \in [DOMAIN With(f, x, y) -> T]
  BY DEF With

LEMMA WithoutType ==
  ASSUME NEW f, NEW S, NEW T, f \in [DOMAIN f -> T]
  PROVE  Without(f, S) \in [DOMAIN Without(f, S) -> T]
  BY DEF Without, Restrict

-------------------------------------------------------------------------------
(* The steps.                                                                *)

\* The steps that leave sockets, records, windows and sessions alone.
QuietStep ==
  \/ \E s \in Sockets : MessageStep(s)
  \/ \E l \in launches : LaunchStep(l)
  \/ SignIn
  \/ SignOut

LEMMA QuietIsQuiet ==
  QuietStep => UNCHANGED <<connections, windows, sessions, opened, socket, greeted, used>>
  BY DEF QuietStep, MessageStep, LaunchStep, SignIn, SignOut, Subscribe, StartLaunch,
         LaunchFails, Restored, ArtifactResolved, CatalogLaunched, registry, runtime

\* A step is of a socket, of the grace timer, or quiet.
LEMMA StepCases ==
  ASSUME Next
  PROVE  \/ \E s \in Sockets, c \in Connections, w \in Windows : Connect(s, c, w)
         \/ \E s \in Sockets, c \in Connections, w \in Windows : ConnectRefused(s, c, w)
         \/ \E s \in Sockets, c \in Connections : Resume(s, c)
         \/ \E s \in Sockets : Open(s)
         \/ \E s \in Sockets : Close(s)
         \/ \E c \in Connections : Expire(c)
         \/ QuietStep
  BY Zenon DEF Next, SocketStep, QuietStep

-------------------------------------------------------------------------------
(* Types.                                                                    *)

LEMMA ConnectTypes ==
  ASSUME RegistryInv, NEW s \in Sockets, NEW c \in Connections, NEW w \in Windows,
         Connect(s, c, w)
  PROVE  TypeOK'
<1>1. NewRecord({w}) \in Connection
  BY DEF NewRecord, Connection
<1>2. connections' \in [DOMAIN connections' -> Connection]
  BY <1>1, WithType DEF RegistryInv, TypeOK, Connect, Known
<1>3. windows' \in [DOMAIN windows' -> Connections]
  BY WithType DEF RegistryInv, TypeOK, Connect
<1>4. sessions' \in [DOMAIN sessions' -> Windows]
  BY WithType DEF RegistryInv, TypeOK, Connect
<1>5. opened' \in [DOMAIN opened' -> Connections]
  BY WithType DEF RegistryInv, TypeOK, Connect
<1>6. socket' \in [Sockets -> Socket]
  BY DEF RegistryInv, TypeOK, Connect, Attached, Socket
<1>7. /\ DOMAIN connections' = DOMAIN connections \cup {c}
      /\ DOMAIN windows' = DOMAIN windows \cup {w}
      /\ DOMAIN sessions' = DOMAIN sessions \cup {c}
      /\ DOMAIN opened' = DOMAIN opened \cup {w}
  BY WithIs DEF Connect
<1>8. QED
  BY <1>2, <1>3, <1>4, <1>5, <1>6, <1>7 DEF RegistryInv, TypeOK, Connect, Known

LEMMA ConnectRefusedTypes ==
  ASSUME RegistryInv, NEW s \in Sockets, NEW c \in Connections, NEW w \in Windows,
         ConnectRefused(s, c, w)
  PROVE  TypeOK'
<1>1. NewRecord({}) \in Connection
  BY DEF NewRecord, Connection
<1>2. connections' \in [DOMAIN connections' -> Connection]
  BY <1>1, WithType DEF RegistryInv, TypeOK, ConnectRefused, Known
<1>3. socket' \in [Sockets -> Socket]
  BY DEF RegistryInv, TypeOK, ConnectRefused, Attached, Socket
<1>4. DOMAIN connections' = DOMAIN connections \cup {c}
  BY WithIs DEF ConnectRefused
<1>5. QED
  BY <1>2, <1>3, <1>4 DEF RegistryInv, TypeOK, ConnectRefused, Known, runtime

LEMMA ResumeTypes ==
  ASSUME RegistryInv, NEW s \in Sockets, NEW c \in Connections, Resume(s, c)
  PROVE  TypeOK'
<1>1. connections[c] \in Connection /\ connections[c].generation + 1 \in Nat
  BY DEF RegistryInv, TypeOK, Resume, Connection
<1>2. connections' \in [Known -> Connection]
  BY <1>1 DEF RegistryInv, TypeOK, Resume, Connection
<1>3. socket' \in [Sockets -> Socket]
  BY <1>1 DEF RegistryInv, TypeOK, Resume, Attached, Socket
<1>4. DOMAIN connections' = DOMAIN connections
  BY DEF Resume
<1>5. QED
  BY <1>2, <1>3, <1>4 DEF RegistryInv, TypeOK, Resume, Known, runtime

LEMMA OpenTypes ==
  ASSUME RegistryInv, NEW s \in Sockets, Open(s)
  PROVE  TypeOK'
<1>1. socket' \in [Sockets -> Socket]
  BY DEF RegistryInv, TypeOK, Open, Socket
<1>2. socket[s].connection \in used
  BY DEF RegistryInv, Attachments, SocketsAttached, Open
<1>3. QED
  BY <1>1, <1>2 DEF RegistryInv, TypeOK, Open, Known, registry, runtime

LEMMA CloseTypes ==
  ASSUME RegistryInv, NEW s \in Sockets, Close(s)
  PROVE  TypeOK'
<1>1. socket' \in [Sockets -> Socket]
  BY DEF RegistryInv, TypeOK, Close, Socket
<1>2. connections' \in [Known -> Connection]
  BY DEF RegistryInv, TypeOK, Close, Connection
<1>3. DOMAIN connections' = DOMAIN connections
  BY DEF Close
<1>4. QED
  BY <1>1, <1>2, <1>3 DEF RegistryInv, TypeOK, Close, Known, runtime

LEMMA ExpireTypes ==
  ASSUME RegistryInv, NEW c \in Connections, Expire(c)
  PROVE  TypeOK'
<1>1. connections' \in [DOMAIN connections' -> Connection]
  BY WithoutType DEF RegistryInv, TypeOK, Expire, Known
<1>2. windows' \in [DOMAIN windows' -> Connections]
  BY WithoutType DEF RegistryInv, TypeOK, Expire
<1>3. sessions' \in [DOMAIN sessions' -> Windows]
  BY WithoutType DEF RegistryInv, TypeOK, Expire
<1>4. opened' \in [DOMAIN opened' -> Connections]
  BY WithoutType DEF RegistryInv, TypeOK, Expire
<1>5. authorities' \in [DOMAIN authorities' -> Connections]
  BY WithoutType DEF RegistryInv, TypeOK, Expire
<1>6. subscriptions' \in [DOMAIN subscriptions' -> Handles]
  BY WithoutType DEF RegistryInv, TypeOK, Expire
<1>7. /\ DOMAIN connections' \subseteq DOMAIN connections
      /\ DOMAIN windows' \subseteq DOMAIN windows
      /\ DOMAIN sessions' \subseteq DOMAIN sessions
      /\ DOMAIN opened' \subseteq DOMAIN opened
      /\ DOMAIN authorities' \subseteq DOMAIN authorities
      /\ DOMAIN subscriptions' \subseteq DOMAIN subscriptions
  BY WithoutDomain DEF Expire
<1>8. running' \subseteq running
  BY DEF Expire
<1>9. QED
  BY <1>1, <1>2, <1>3, <1>4, <1>5, <1>6, <1>7, <1>8
     DEF RegistryInv, TypeOK, Expire, Known

LEMMA MessageTypes ==
  ASSUME RegistryInv, NEW s \in Sockets, MessageStep(s)
  PROVE  TypeOK'
<1> DEFINE c == socket[s].connection
<1>1. /\ c \in Known
      /\ c \in DOMAIN sessions
      /\ WindowOf(s) \in Windows
      /\ c \in Connections
  BY DEF RegistryInv, TypeOK, SessionsServe, MessageStep, Subscribe, StartLaunch, Serves,
         IsCurrent, Alive, WindowOf, Known
<1>2. ASSUME NEW id \in SubIds, NEW h \in Handles, Subscribe(s, id, h)
      PROVE  TypeOK'
  <2> DEFINE k == <<c, WindowOf(s), id>>
  <2>1. k \in Keys
    BY <1>1 DEF Keys
  <2>2. subscriptions' = With(subscriptions, k, h)
    BY <1>2 DEF Subscribe
  <2>3. subscriptions' \in [DOMAIN subscriptions' -> Handles]
    BY <2>2, WithType DEF RegistryInv, TypeOK
  <2>4. DOMAIN subscriptions' = DOMAIN subscriptions \cup {k}
    BY <2>2, WithIs
  <2>5. running' \subseteq running \cup {h}
    BY <1>2 DEF Subscribe
  <2>6. UNCHANGED <<connections, windows, runtime, socket, greeted, launches, used>>
    BY <1>2 DEF Subscribe
  <2> HIDE DEF k
  <2>7. QED
    BY <2>1, <2>3, <2>4, <2>5, <2>6 DEF RegistryInv, TypeOK, Known, runtime
<1>3. ASSUME NEW kind \in LaunchKinds, StartLaunch(s, kind)
      PROVE  TypeOK'
  <2>1. ASSUME NEW step \in {"restore", "artifact", "catalog"}
        PROVE  Waiting(s, step) \in Launch
    BY <1>1 DEF Waiting, Launch
  <2>2. launches' \subseteq Launch
    BY <1>3, <2>1 DEF StartLaunch, RegistryInv, TypeOK
  <2>3. QED
    BY <1>3, <2>2 DEF StartLaunch, RegistryInv, TypeOK, Known, registry, runtime
<1>4. QED
  BY <1>2, <1>3 DEF MessageStep

LEMMA LaunchTypes ==
  ASSUME RegistryInv, NEW l \in launches, LaunchStep(l)
  PROVE  TypeOK'
<1>1. l \in Launch
  BY DEF RegistryInv, TypeOK
<1>2. /\ l.connection \in Connections
      /\ l.window \in Windows
      /\ [l EXCEPT !.step = "artifact"] \in Launch
  BY <1>1 DEF Launch
<1>3. CASE LaunchFails(l)
  BY <1>3 DEF LaunchFails, RegistryInv, TypeOK, Known, registry, runtime
<1>4. CASE Restored(l)
  <2>1. launches' \subseteq Launch
    BY <1>2, <1>4 DEF Restored, RegistryInv, TypeOK
  <2>2. signedIn' \in BOOLEAN
    BY <1>4 DEF Restored, RegistryInv, TypeOK
  <2>3. QED
    BY <1>4, <2>1, <2>2 DEF Restored, RegistryInv, TypeOK, Known, registry
<1>5. ASSUME RegisterLaunchAuthority(l) \/ UNCHANGED authorities
      PROVE  /\ DOMAIN authorities' \subseteq Windows
             /\ authorities' \in [DOMAIN authorities' -> Connections]
  <2>1. With(authorities, l.window, l.connection) \in
          [DOMAIN With(authorities, l.window, l.connection) -> Connections]
    BY <1>2, WithType DEF RegistryInv, TypeOK
  <2>2. DOMAIN With(authorities, l.window, l.connection) = DOMAIN authorities \cup {l.window}
    BY DEF With
  <2>3. QED
    BY <1>2, <1>5, <2>1, <2>2 DEF RegisterLaunchAuthority, RegistryInv, TypeOK
<1>6. CASE ArtifactResolved(l) \/ CatalogLaunched(l)
  <2>1. /\ RegisterLaunchAuthority(l) \/ UNCHANGED authorities
        /\ launches' \subseteq launches
        /\ UNCHANGED <<registry, sessions, opened, signedIn, socket, greeted, used>>
    BY <1>6 DEF ArtifactResolved, CatalogLaunched
  <2>2. QED
    BY <1>5, <2>1 DEF RegistryInv, TypeOK, Known, registry
<1>7. QED
  BY <1>3, <1>4, <1>6 DEF LaunchStep

LEMMA SigningTypes ==
  ASSUME RegistryInv, SignIn \/ SignOut
  PROVE  TypeOK'
<1>1. CASE SignIn
  BY <1>1 DEF SignIn, RegistryInv, TypeOK, Known, registry
<1>2. CASE SignOut
  <2>1. authorities' \in [DOMAIN authorities' -> Connections]
    BY <1>2, WithoutType DEF SignOut, RegistryInv, TypeOK
  <2>3. DOMAIN authorities' \subseteq DOMAIN authorities
    BY <1>2, WithoutDomain DEF SignOut
  <2>2. QED
    BY <1>2, <2>1, <2>3 DEF SignOut, RegistryInv, TypeOK, Known, registry
<1>3. QED
  BY <1>1, <1>2

LEMMA TypesHold ==
  ASSUME RegistryInv, Next
  PROVE  TypeOK'
<1>1. ASSUME QuietStep
      PROVE  TypeOK'
  BY <1>1, MessageTypes, LaunchTypes, SigningTypes DEF QuietStep
<1>2. QED
  BY <1>1, StepCases, ConnectTypes, ConnectRefusedTypes, ResumeTypes, OpenTypes, CloseTypes,
     ExpireTypes

-------------------------------------------------------------------------------
(* Attachments: which socket a record stands for.                            *)

LEMMA NewAttachment ==
  ASSUME RegistryInv, NEW s \in Sockets, NEW c \in Connections, NEW w \in Windows,
         Connect(s, c, w) \/ ConnectRefused(s, c, w)
  PROVE  Attachments'
<1>1. /\ socket[s].state = "new"
      /\ c \notin used
      /\ used' = used \cup {c}
      /\ socket'[s].state \in {"connecting", "refused"}
      /\ socket'[s].connection = c
      /\ socket'[s].generation = 0
      /\ \A t \in Sockets : t # s => socket'[t] = socket[t]
  BY DEF RegistryInv, TypeOK, Connect, ConnectRefused, Attached
<1>2. /\ Known' = Known \cup {c}
      /\ c \notin Known
      /\ connections'[c].attached = TRUE
      /\ connections'[c].armed = FALSE
      /\ connections'[c].generation = 0
      /\ \A d \in Known : connections'[d] = connections[d]
  <2>1. PICK owned : connections' = With(connections, c, NewRecord(owned))
    BY DEF Connect, ConnectRefused
  <2>2. c \notin Known
    BY <1>1 DEF RegistryInv, TypeOK
  <2>3. QED
    BY <2>1, <2>2 DEF With, NewRecord, Known
<1>3. /\ NoConnection \notin Connections
      /\ Known \subseteq used
      /\ used \subseteq Connections
      /\ socket[s].connection = NoConnection
      /\ \A t \in Sockets : socket[t].connection # c
  BY <1>1, ConstantsAssumption
     DEF RegistryInv, Attachments, SocketsAttached, TypeOK
<1>4. SocketsAttached'
  BY <1>1, <1>3 DEF RegistryInv, Attachments, SocketsAttached
<1>5. RecordsFollow'
  <2> SUFFICES ASSUME NEW d \in Known'
               PROVE  /\ connections'[d].armed <=> ~connections'[d].attached
                      /\ \E t \in Sockets :
                           /\ socket'[t].connection = d
                           /\ socket'[t].generation = connections'[d].generation
                      /\ \A t \in Sockets : socket'[t].connection = d =>
                           /\ socket'[t].generation <= connections'[d].generation
                           /\ socket'[t].generation = connections'[d].generation =>
                                (connections'[d].attached <=> socket'[t].state \in Live)
    BY DEF RecordsFollow
  <2>1. CASE d = c
    BY <1>1, <1>2, <1>3, <2>1 DEF Live
  <2>2. CASE d # c
    <3>1. /\ d \in Known
          /\ connections'[d] = connections[d]
          /\ d # NoConnection
      BY <1>2, <1>3, <2>2
    <3>2. \A t \in Sockets : \/ t # s /\ socket'[t] = socket[t]
                             \/ /\ t = s
                                /\ socket'[t].connection # d
                                /\ socket[t].connection # d
      BY <1>1, <1>3, <2>2, <3>1
    <3>3. QED
      BY <3>1, <3>2 DEF RegistryInv, Attachments, RecordsFollow
  <2>3. QED
    BY <2>1, <2>2
<1>6. LeftAreSuperseded'
  <2> SUFFICES ASSUME NEW t \in Sockets, Alive(t)', socket'[t].connection \notin Known'
               PROVE  \E u \in Sockets : /\ socket'[u].connection = socket'[t].connection
                                         /\ socket'[u].generation > socket'[t].generation
    BY DEF LeftAreSuperseded
  <2>1. t # s /\ socket'[t] = socket[t] /\ Alive(t) /\ socket[t].connection \notin Known
    BY <1>1, <1>2 DEF Alive
  <2>2. PICK u \in Sockets : /\ socket[u].connection = socket[t].connection
                             /\ socket[u].generation > socket[t].generation
    BY <2>1 DEF RegistryInv, Attachments, LeftAreSuperseded
  <2>3. u # s
    BY <1>3, <2>1, <2>2, <1>1 DEF Alive, RegistryInv, Attachments, SocketsAttached
  <2>4. QED
    BY <1>1, <2>1, <2>2, <2>3
<1>7. QED
  BY <1>4, <1>5, <1>6 DEF Attachments

LEMMA ResumedAttachment ==
  ASSUME RegistryInv, NEW s \in Sockets, NEW c \in Connections, Resume(s, c)
  PROVE  Attachments'
<1> DEFINE g == connections[c].generation
<1>1. /\ c \in Known
      /\ g \in Nat
      /\ socket[s].state = "new"
      /\ socket[s].connection = NoConnection
      /\ socket'[s].state = "connecting"
      /\ socket'[s].connection = c
      /\ socket'[s].generation = g + 1
      /\ \A t \in Sockets : t # s => socket'[t] = socket[t]
      /\ used' = used
      /\ c \in used
      /\ c # NoConnection
  BY ConstantsAssumption
     DEF RegistryInv, TypeOK, Resume, Attached, Attachments, SocketsAttached, Connection
<1>2. /\ Known' = Known
      /\ connections'[c].attached = TRUE
      /\ connections'[c].armed = FALSE
      /\ connections'[c].generation = g + 1
      /\ \A d \in Known : d # c => connections'[d] = connections[d]
  BY DEF Resume, Known, RegistryInv, TypeOK, Connection
<1>3. \A t \in Sockets : t # s /\ socket[t].connection = c =>
        socket[t].generation \in Nat /\ socket[t].generation <= g
  BY <1>1 DEF RegistryInv, TypeOK, Socket, Attachments, RecordsFollow
<1> HIDE DEF g
<1>4. SocketsAttached'
  <2>1. \A t \in Sockets : /\ socket'[t].state = "new" <=> socket'[t].connection = NoConnection
                           /\ socket'[t].state # "new" => socket'[t].connection \in used'
    BY <1>1 DEF RegistryInv, Attachments, SocketsAttached
  <2>2. \A t \in Sockets : t # s /\ socket'[t].connection = c => socket'[t].generation # g + 1
    BY <1>1, <1>3
  <2>3. QED
    BY <1>1, <2>1, <2>2 DEF RegistryInv, Attachments, SocketsAttached
<1>5. RecordsFollow'
  <2> SUFFICES ASSUME NEW d \in Known
               PROVE  /\ connections'[d].armed <=> ~connections'[d].attached
                      /\ \E t \in Sockets :
                           /\ socket'[t].connection = d
                           /\ socket'[t].generation = connections'[d].generation
                      /\ \A t \in Sockets : socket'[t].connection = d =>
                           /\ socket'[t].generation <= connections'[d].generation
                           /\ socket'[t].generation = connections'[d].generation =>
                                (connections'[d].attached <=> socket'[t].state \in Live)
    BY <1>2 DEF RecordsFollow
  <2>1. CASE d = c
    <3>1. \A t \in Sockets : socket'[t].connection = c =>
            \/ t = s
            \/ /\ socket'[t].generation <= g + 1
               /\ socket'[t].generation # g + 1
      BY <1>1, <1>3
    <3>2. QED
      BY <1>1, <1>2, <2>1, <3>1 DEF Live
  <2>2. CASE d # c
    <3>1. connections'[d] = connections[d] /\ d # NoConnection
      BY <1>2, <2>2, ConstantsAssumption DEF RegistryInv, TypeOK
    <3>2. \A t \in Sockets : \/ t # s /\ socket'[t] = socket[t]
                             \/ /\ t = s
                                /\ socket'[t].connection # d
                                /\ socket[t].connection # d
      BY <1>1, <2>2, <3>1
    <3>3. QED
      BY <3>1, <3>2 DEF RegistryInv, Attachments, RecordsFollow
  <2>3. QED
    BY <2>1, <2>2
<1>6. LeftAreSuperseded'
  <2> SUFFICES ASSUME NEW t \in Sockets, Alive(t)', socket'[t].connection \notin Known
               PROVE  \E u \in Sockets : /\ socket'[u].connection = socket'[t].connection
                                         /\ socket'[u].generation > socket'[t].generation
    BY <1>2 DEF LeftAreSuperseded
  <2>1. t # s /\ socket'[t] = socket[t] /\ Alive(t) /\ socket[t].connection \notin Known
    BY <1>1 DEF Alive
  <2>2. PICK u \in Sockets : /\ socket[u].connection = socket[t].connection
                             /\ socket[u].generation > socket[t].generation
    BY <2>1 DEF RegistryInv, Attachments, LeftAreSuperseded
  <2>3. u # s
    BY <1>1, <2>1, <2>2 DEF Alive, RegistryInv, Attachments, SocketsAttached
  <2>4. QED
    BY <1>1, <2>1, <2>2, <2>3
<1>7. QED
  BY <1>4, <1>5, <1>6 DEF Attachments

\* An attached connection is one whose newest socket is Live, so opening a socket
\* moves nothing.
LEMMA OpenedAttachment ==
  ASSUME RegistryInv, NEW s \in Sockets, Open(s)
  PROVE  Attachments'
<1>1. /\ socket[s].state = "connecting" /\ socket'[s].state = "open"
      /\ \A t \in Sockets : /\ socket'[t].connection = socket[t].connection
                            /\ socket'[t].generation = socket[t].generation
                            /\ t # s => socket'[t].state = socket[t].state
      /\ connections' = connections
      /\ used' = used
  BY DEF Open, registry, RegistryInv, TypeOK, Socket
<1>2. \A t \in Sockets : /\ socket'[t].state = "new" <=> socket[t].state = "new"
                         /\ socket'[t].state \in Live <=> socket[t].state \in Live
                         /\ Alive(t)' <=> Alive(t)
  BY <1>1 DEF Live, Alive
<1>3. SocketsAttached'
  BY <1>1, <1>2 DEF RegistryInv, Attachments, SocketsAttached
<1>4. RecordsFollow'
  BY <1>1, <1>2 DEF RegistryInv, Attachments, RecordsFollow, Known
<1>5. LeftAreSuperseded'
  BY <1>1, <1>2 DEF RegistryInv, Attachments, LeftAreSuperseded, Known
<1>6. QED
  BY <1>3, <1>4, <1>5 DEF Attachments

LEMMA ClosedAttachment ==
  ASSUME RegistryInv, NEW s \in Sockets, Close(s)
  PROVE  Attachments'
<1> DEFINE c == socket[s].connection
<1>1. /\ Alive(s) /\ socket[s].state \in Live /\ socket'[s].state = "closed"
      /\ \A t \in Sockets : /\ socket'[t].connection = socket[t].connection
                            /\ socket'[t].generation = socket[t].generation
                            /\ t # s => socket'[t].state = socket[t].state
      /\ used' = used
  BY DEF Close, Live, Alive, RegistryInv, TypeOK, Socket
<1>2. SocketsAttached'
  BY <1>1 DEF RegistryInv, Attachments, SocketsAttached, Live
<1>3. /\ Known' = Known
      /\ \A d \in Known : connections'[d].generation = connections[d].generation
      /\ \A d \in Known : d # c => connections'[d] = connections[d]
  BY DEF Close, Known, RegistryInv, TypeOK, Connection
<1>4. ASSUME c \in Known, connections[c].generation = socket[s].generation
      PROVE  connections'[c].attached = FALSE /\ connections'[c].armed = TRUE
  <2>1. ~connections[c].armed
    BY <1>1, <1>4 DEF RegistryInv, Attachments, RecordsFollow
  <2>2. QED
    BY <1>4, <2>1 DEF Close, RegistryInv, TypeOK, Connection
<1>5. ASSUME c \in Known, connections[c].generation # socket[s].generation
      PROVE  connections' = connections
  BY <1>5 DEF Close
<1>6. RecordsFollow'
  <2> SUFFICES ASSUME NEW d \in Known
               PROVE  /\ connections'[d].armed <=> ~connections'[d].attached
                      /\ \E t \in Sockets :
                           /\ socket'[t].connection = d
                           /\ socket'[t].generation = connections'[d].generation
                      /\ \A t \in Sockets : socket'[t].connection = d =>
                           /\ socket'[t].generation <= connections'[d].generation
                           /\ socket'[t].generation = connections'[d].generation =>
                                (connections'[d].attached <=> socket'[t].state \in Live)
    BY <1>3 DEF RecordsFollow
  <2>1. CASE d = c /\ connections[c].generation = socket[s].generation
    <3>1. /\ d # NoConnection
          /\ \A t \in Sockets :
               socket[t].connection = d /\ socket[t].generation = connections[d].generation
               => t = s
      BY <2>1, ConstantsAssumption DEF RegistryInv, TypeOK, Attachments, SocketsAttached
    <3>2. connections'[d].attached = FALSE /\ connections'[d].armed = TRUE
      BY <1>4, <2>1
    <3>3. \A t \in Sockets : socket'[t].connection = d =>
            /\ socket'[t].generation <= connections'[d].generation
            /\ socket'[t].generation = connections'[d].generation => socket'[t].state \notin Live
      BY <1>1, <1>3, <3>1 DEF RegistryInv, Attachments, RecordsFollow, Live
    <3>4. socket'[s].connection = d /\ socket'[s].generation = connections'[d].generation
      BY <1>1, <1>3, <2>1
    <3>5. QED
      BY <3>2, <3>3, <3>4
  <2>2. CASE d # c \/ connections[c].generation # socket[s].generation
    <3>1. connections'[d] = connections[d]
      BY <1>3, <1>5, <2>2
    <3>2. \A t \in Sockets :
            socket[t].connection = d /\ socket[t].generation = connections[d].generation
            => t # s
      BY <2>2
    <3>3. QED
      BY <1>1, <3>1, <3>2 DEF RegistryInv, Attachments, RecordsFollow
  <2>3. QED
    BY <2>1, <2>2
<1>7. LeftAreSuperseded'
  <2>1. \A t \in Sockets : Alive(t)' => Alive(t)
    BY <1>1 DEF Alive
  <2>2. QED
    BY <1>1, <1>3, <2>1 DEF RegistryInv, Attachments, LeftAreSuperseded
<1>8. QED
  BY <1>2, <1>6, <1>7 DEF Attachments

\* The newest socket of a connection that expires has closed, so every socket
\* that is left has a newer one.
LEMMA ExpiredAttachment ==
  ASSUME RegistryInv, NEW c \in Connections, Expire(c)
  PROVE  Attachments'
<1>1. /\ c \in Known
      /\ ~connections[c].attached
      /\ Known' = Known \ {c}
      /\ \A d \in Known' : connections'[d] = connections[d]
      /\ UNCHANGED <<socket, used>>
  BY DEF Expire, Known, Without, Restrict
<1>2. SocketsAttached'
  BY <1>1 DEF RegistryInv, Attachments, SocketsAttached
<1>3. RecordsFollow'
  BY <1>1 DEF RegistryInv, Attachments, RecordsFollow
<1>4. LeftAreSuperseded'
  <2> SUFFICES ASSUME NEW s \in Sockets, Alive(s), socket[s].connection \notin Known'
               PROVE  \E t \in Sockets : /\ socket[t].connection = socket[s].connection
                                         /\ socket[t].generation > socket[s].generation
    BY <1>1 DEF LeftAreSuperseded, Alive
  <2>1. CASE socket[s].connection \notin Known
    BY <2>1 DEF RegistryInv, Attachments, LeftAreSuperseded
  <2>2. CASE socket[s].connection = c
    <3>1. /\ socket[s].generation <= connections[c].generation
          /\ socket[s].generation # connections[c].generation
      BY <1>1, <2>2 DEF RegistryInv, Attachments, RecordsFollow, Alive, Live
    <3>2. PICK t \in Sockets : /\ socket[t].connection = c
                               /\ socket[t].generation = connections[c].generation
      BY <1>1 DEF RegistryInv, Attachments, RecordsFollow
    <3>3. socket[s].generation \in Nat /\ socket[t].generation \in Nat
      BY DEF RegistryInv, TypeOK, Socket
    <3>4. QED
      BY <2>2, <3>1, <3>2, <3>3
  <2>3. QED
    BY <1>1, <2>1, <2>2
<1>5. QED
  BY <1>2, <1>3, <1>4 DEF Attachments

LEMMA AttachmentsHold ==
  ASSUME RegistryInv, Next
  PROVE  Attachments'
<1>1. ASSUME QuietStep
      PROVE  Attachments'
  BY <1>1, QuietIsQuiet DEF RegistryInv, Attachments, SocketsAttached, RecordsFollow,
                            LeftAreSuperseded, Known, Alive
<1>2. QED
  BY <1>1, StepCases, NewAttachment, ResumedAttachment, OpenedAttachment, ClosedAttachment,
     ExpiredAttachment

-------------------------------------------------------------------------------
(* Windows and sessions.                                                     *)

\* What the windows of the registry, the runtime and the route have to agree on.
WindowsInv == WindowsAgree /\ SessionsServe

LEMMA ConnectWindows ==
  ASSUME RegistryInv, NEW s \in Sockets, NEW c \in Connections, NEW w \in Windows,
         Connect(s, c, w)
  PROVE  WindowsInv'
<1>1. /\ c \notin Known /\ c \notin DOMAIN sessions /\ c \notin greeted
      /\ w \notin DOMAIN windows
      /\ Known' = Known \cup {c}
      /\ connections'[c].windows = {w}
      /\ \A d \in Known : connections'[d] = connections[d]
  BY DEF Connect, Known, With, NewRecord, RegistryInv, TypeOK, WindowsAgree
<1>2. /\ DOMAIN windows' = DOMAIN windows \cup {w}
      /\ windows'[w] = c
      /\ \A x \in DOMAIN windows : windows'[x] = windows[x]
      /\ opened' = windows'
  BY <1>1 DEF Connect, With, RegistryInv, WindowsAgree
<1>3. /\ DOMAIN sessions' = DOMAIN sessions \cup {c}
      /\ sessions'[c] = w
      /\ \A d \in DOMAIN sessions : sessions'[d] = sessions[d]
      /\ greeted' = greeted
  BY <1>1 DEF Connect, With
<1>4. /\ socket'[s].connection = c
      /\ \A t \in Sockets : t # s => socket'[t] = socket[t]
  BY DEF Connect, Attached, RegistryInv, TypeOK
<1>5. \A x \in DOMAIN windows : windows[x] # c
  BY <1>1 DEF RegistryInv, WindowsAgree
<1>6. \A d \in Known : connections'[d].windows = {x \in DOMAIN windows' : windows'[x] = d}
  BY <1>1, <1>2 DEF RegistryInv, WindowsAgree
<1>7. connections'[c].windows = {x \in DOMAIN windows' : windows'[x] = c}
  BY <1>1, <1>2, <1>5
<1>8. WindowsAgree'
  <2>1. DOMAIN sessions' \subseteq Known'
    BY <1>1, <1>3 DEF RegistryInv, WindowsAgree
  <2>2. \A d \in DOMAIN sessions' : connections'[d].windows = {sessions'[d]}
    BY <1>1, <1>3 DEF RegistryInv, WindowsAgree
  <2>3. \A x \in DOMAIN windows' : windows'[x] \in DOMAIN sessions'
    BY <1>2, <1>3 DEF RegistryInv, WindowsAgree
  <2>4. QED
    BY <1>1, <1>2, <1>6, <1>7, <2>1, <2>2, <2>3 DEF WindowsAgree
<1>9. SessionsServe'
  <2>1. ASSUME NEW t \in Sockets, Alive(t)', socket'[t].connection \in Known'
        PROVE  socket'[t].connection \in DOMAIN sessions'
    BY <2>1, <1>1, <1>3, <1>4 DEF RegistryInv, SessionsServe, Alive
  <2>2. ASSUME NEW d \in greeted', d \in Known'
        PROVE  d \in DOMAIN sessions'
    BY <2>2, <1>1, <1>3 DEF RegistryInv, SessionsServe
  <2>3. QED
    BY <2>1, <2>2 DEF SessionsServe
<1>10. QED
  BY <1>8, <1>9 DEF WindowsInv

\* A connection whose window was refused has none, and no session.
LEMMA RefusedWindows ==
  ASSUME RegistryInv, NEW s \in Sockets, NEW c \in Connections, NEW w \in Windows,
         ConnectRefused(s, c, w)
  PROVE  WindowsInv'
<1>1. /\ c \notin Known /\ c \notin DOMAIN sessions /\ c \notin greeted
      /\ Known' = Known \cup {c}
      /\ connections'[c].windows = {}
      /\ \A d \in Known : connections'[d] = connections[d]
      /\ UNCHANGED <<windows, sessions, opened, greeted>>
  BY DEF ConnectRefused, Known, With, NewRecord, RegistryInv, TypeOK, WindowsAgree, runtime
<1>2. /\ socket'[s].state = "refused"
      /\ \A t \in Sockets : t # s => socket'[t] = socket[t]
  BY DEF ConnectRefused, Attached, RegistryInv, TypeOK
<1>3. \A x \in DOMAIN windows : windows[x] # c
  BY <1>1 DEF RegistryInv, WindowsAgree
<1>4. \A t \in Sockets : t # s /\ Alive(t) => socket[t].connection # c
  BY DEF RegistryInv, Attachments, SocketsAttached, Alive, ConnectRefused
<1>5. \A d \in Known' : connections'[d].windows = {x \in DOMAIN windows : windows[x] = d}
  BY <1>1, <1>3 DEF RegistryInv, WindowsAgree
<1>6. WindowsAgree'
  BY <1>1, <1>5 DEF RegistryInv, WindowsAgree
<1>7. SessionsServe'
  <2>1. ASSUME NEW t \in Sockets, Alive(t)', socket'[t].connection \in Known'
        PROVE  socket'[t].connection \in DOMAIN sessions'
    <3>1. t # s /\ Alive(t) /\ socket'[t].connection = socket[t].connection
      BY <2>1, <1>2 DEF Alive
    <3>2. socket[t].connection \in Known
      BY <3>1, <2>1, <1>1, <1>4
    <3>3. QED
      BY <3>1, <3>2, <1>1 DEF RegistryInv, SessionsServe
  <2>2. ASSUME NEW d \in greeted', d \in Known'
        PROVE  d \in DOMAIN sessions'
    BY <2>2, <1>1 DEF RegistryInv, SessionsServe
  <2>3. QED
    BY <2>1, <2>2 DEF SessionsServe
<1>8. QED
  BY <1>6, <1>7 DEF WindowsInv

LEMMA SocketWindows ==
  ASSUME RegistryInv, NEW s \in Sockets,
         \/ \E c \in Connections : Resume(s, c)
         \/ Open(s)
         \/ Close(s)
  PROVE  WindowsInv'
<1>1. /\ UNCHANGED <<windows, sessions, opened>>
      /\ Known' = Known
      /\ \A d \in Known : connections'[d].windows = connections[d].windows
  <2>1. CASE \E c \in Connections : Resume(s, c)
    <3>1. UNCHANGED <<windows, sessions, opened>>
      BY <2>1 DEF Resume, runtime
    <3>2. /\ Known' = Known
          /\ \A d \in Known : connections'[d].windows = connections[d].windows
      <4>1. PICK c \in Known :
              connections' = [connections EXCEPT ![c].attached = TRUE,
                                                 ![c].armed = FALSE,
                                                 ![c].generation = @ + 1]
        BY <2>1 DEF Resume
      <4>2. \A d \in Known : connections[d] \in Connection
        BY DEF RegistryInv, TypeOK
      <4>3. QED
        BY <4>1, <4>2 DEF Known, Connection
    <3>3. QED
      BY <3>1, <3>2
  <2>2. CASE Open(s)
    BY <2>2 DEF Open, Known, runtime, registry
  <2>3. CASE Close(s)
    <3>1. UNCHANGED <<windows, sessions, opened>>
      BY <2>3 DEF Close, runtime
    <3>2. /\ Known' = Known
          /\ \A d \in Known : connections'[d].windows = connections[d].windows
      BY <2>3 DEF Close, Known, RegistryInv, TypeOK, Connection
    <3>3. QED
      BY <3>1, <3>2
  <2>4. QED
    BY <2>1, <2>2, <2>3
<1>2. WindowsAgree'
  BY <1>1 DEF RegistryInv, WindowsAgree
<1>3. SessionsServe'
  <2>1. CASE \E c \in Connections : Resume(s, c)
    <3>1. PICK c \in Known \cap greeted : Resume(s, c)
      BY <2>1 DEF Resume
    <3>2. /\ c \in DOMAIN sessions
          /\ socket'[s].connection = c
          /\ \A t \in Sockets : t # s => socket'[t] = socket[t]
          /\ greeted' = greeted
      BY <3>1 DEF Resume, Attached, RegistryInv, SessionsServe, TypeOK
    <3>3. QED
      BY <1>1, <3>2 DEF RegistryInv, SessionsServe, Alive
  <2>2. CASE Open(s)
    <3>1. /\ Alive(s)
          /\ greeted' = greeted \cup {socket[s].connection}
          /\ \A t \in Sockets : socket'[t].connection = socket[t].connection
          /\ \A t \in Sockets : t # s => socket'[t].state = socket[t].state
      BY <2>2 DEF Open, Alive, RegistryInv, TypeOK, Socket
    <3>2. QED
      BY <1>1, <3>1 DEF RegistryInv, SessionsServe, Alive
  <2>3. CASE Close(s)
    <3>1. /\ greeted' = greeted
          /\ \A t \in Sockets : socket'[t].connection = socket[t].connection
          /\ \A t \in Sockets : Alive(t)' => Alive(t)
      BY <2>3 DEF Close, Alive, RegistryInv, TypeOK, Socket
    <3>2. QED
      BY <1>1, <3>1 DEF RegistryInv, SessionsServe
  <2>4. QED
    BY <2>1, <2>2, <2>3
<1>4. QED
  BY <1>2, <1>3 DEF WindowsInv

\* The windows of a connection are those the registry maps to it, and the session
\* is the one on its window: so what expires is the connection's own, and all.
LEMMA ExpiryTakes ==
  ASSUME RegistryInv, NEW c \in Connections, Expire(c)
  PROVE  /\ Known' = Known \ {c}
         /\ \A d \in Known \ {c} : connections'[d] = connections[d]
         /\ DOMAIN windows' = {w \in DOMAIN windows : windows[w] # c}
         /\ \A w \in DOMAIN windows' : windows'[w] = windows[w]
         /\ opened' = windows'
         /\ DOMAIN sessions' = DOMAIN sessions \ {c}
         /\ \A d \in DOMAIN sessions' : sessions'[d] = sessions[d]
         /\ UNCHANGED <<signedIn, socket, greeted, launches, used>>
<1> DEFINE gone == connections[c].windows
           over == {d \in DOMAIN sessions : sessions[d] \in gone}
<1>1. c \in Known /\ gone = {w \in DOMAIN windows : windows[w] = c}
  BY DEF Expire, RegistryInv, WindowsAgree
<1>2. \A d \in DOMAIN sessions : sessions[d] \in gone <=> d = c
  <2> SUFFICES ASSUME NEW d \in DOMAIN sessions
               PROVE  sessions[d] \in gone <=> d = c
    OBVIOUS
  <2>1. /\ d \in Known
        /\ connections[d].windows = {sessions[d]}
        /\ connections[d].windows = {w \in DOMAIN windows : windows[w] = d}
    BY DEF RegistryInv, WindowsAgree
  <2>2. sessions[d] \in DOMAIN windows /\ windows[sessions[d]] = d
    BY <2>1
  <2>3. QED
    BY <1>1, <2>2
<1>3. /\ connections' = Without(connections, {c})
      /\ windows' = Without(windows, gone)
      /\ sessions' = Without(sessions, over)
      /\ opened' = Without(opened, gone)
      /\ UNCHANGED <<signedIn, socket, greeted, launches, used>>
  BY DEF Expire
<1>4. DOMAIN sessions \ over = DOMAIN sessions \ {c}
  BY <1>2
<1>5. opened = windows
  BY DEF RegistryInv, WindowsAgree
<1> HIDE DEF gone, over
<1>6. /\ Known' = Known \ {c}
      /\ \A d \in Known \ {c} : connections'[d] = connections[d]
  BY <1>3 DEF Known, Without, Restrict
<1>7. /\ DOMAIN windows' = DOMAIN windows \ gone
      /\ \A w \in DOMAIN windows' : windows'[w] = windows[w]
  BY <1>3 DEF Without, Restrict
<1>8. /\ DOMAIN sessions' = DOMAIN sessions \ {c}
      /\ \A d \in DOMAIN sessions' : sessions'[d] = sessions[d]
  BY <1>3, <1>4 DEF Without, Restrict
<1>9. QED
  BY <1>1, <1>3, <1>5, <1>6, <1>7, <1>8

LEMMA ExpiredWindows ==
  ASSUME RegistryInv, NEW c \in Connections, Expire(c)
  PROVE  WindowsInv'
<1>0. /\ Known' = Known \ {c}
      /\ \A d \in Known \ {c} : connections'[d] = connections[d]
      /\ DOMAIN windows' = {w \in DOMAIN windows : windows[w] # c}
      /\ \A w \in DOMAIN windows' : windows'[w] = windows[w]
      /\ opened' = windows'
      /\ DOMAIN sessions' = DOMAIN sessions \ {c}
      /\ \A d \in DOMAIN sessions' : sessions'[d] = sessions[d]
      /\ UNCHANGED <<socket, greeted>>
  BY ExpiryTakes
<1>1. \A d \in Known' : connections'[d].windows = {w \in DOMAIN windows' : windows'[w] = d}
  BY <1>0 DEF RegistryInv, WindowsAgree
<1>2. \A d \in DOMAIN sessions' : connections'[d].windows = {sessions'[d]}
  BY <1>0 DEF RegistryInv, WindowsAgree
<1>3. \A w \in DOMAIN windows' : windows'[w] \in DOMAIN sessions'
  BY <1>0 DEF RegistryInv, WindowsAgree
<1>4. WindowsAgree'
  BY <1>1, <1>2, <1>3, <1>0 DEF RegistryInv, WindowsAgree
<1>5. SessionsServe'
  <2>1. ASSUME NEW t \in Sockets, Alive(t)', socket'[t].connection \in Known'
        PROVE  socket'[t].connection \in DOMAIN sessions'
    BY <2>1, <1>0 DEF RegistryInv, SessionsServe, Alive
  <2>2. ASSUME NEW d \in greeted', d \in Known'
        PROVE  d \in DOMAIN sessions'
    BY <2>2, <1>0 DEF RegistryInv, SessionsServe
  <2>3. QED
    BY <2>1, <2>2 DEF SessionsServe
<1>6. QED
  BY <1>4, <1>5 DEF WindowsInv

LEMMA WindowsHold ==
  ASSUME RegistryInv, Next
  PROVE  WindowsInv'
<1>1. ASSUME QuietStep
      PROVE  WindowsInv'
  BY <1>1, QuietIsQuiet DEF RegistryInv, WindowsInv, WindowsAgree, SessionsServe, Known, Alive
<1>2. QED
  BY <1>1, StepCases, ConnectWindows, RefusedWindows, SocketWindows, ExpiredWindows

-------------------------------------------------------------------------------
(* Subscriptions.                                                            *)

LEMMA ExpiredSubscriptions ==
  ASSUME RegistryInv, NEW c \in Connections, Expire(c)
  PROVE  SubscriptionsAreOwned'
<1> DEFINE subs == {k \in DOMAIN subscriptions : k[1] = c /\ k[2] \in connections[c].windows}
<1>1. /\ c \in Known
      /\ connections[c].windows = {w \in DOMAIN windows : windows[w] = c}
  BY DEF Expire, RegistryInv, WindowsAgree
<1>2. \A k \in DOMAIN subscriptions :
        /\ k[2] \in DOMAIN windows
        /\ windows[k[2]] = k[1]
        /\ k \in subs <=> windows[k[2]] = c
  BY <1>1 DEF RegistryInv, SubscriptionsAreOwned
<1>3. /\ subscriptions' = Without(subscriptions, subs)
      /\ running' = running \ {subscriptions[k] : k \in subs}
  BY DEF Expire
<1>4. /\ DOMAIN windows' = {w \in DOMAIN windows : windows[w] # c}
      /\ \A w \in DOMAIN windows' : windows'[w] = windows[w]
  BY ExpiryTakes
<1>5. subs \subseteq DOMAIN subscriptions
  OBVIOUS
<1> HIDE DEF subs
<1>6. /\ DOMAIN subscriptions' = DOMAIN subscriptions \ subs
      /\ \A k \in DOMAIN subscriptions' : subscriptions'[k] = subscriptions[k]
  BY <1>3 DEF Without, Restrict
<1>7. running = {subscriptions[k] : k \in DOMAIN subscriptions}
  BY DEF RegistryInv, SubscriptionsAreOwned
<1>8. \A j, k \in DOMAIN subscriptions : subscriptions[j] = subscriptions[k] => j = k
  BY DEF RegistryInv, SubscriptionsAreOwned
<1>9. running' = {subscriptions'[k] : k \in DOMAIN subscriptions'}
  BY <1>3, <1>5, <1>6, <1>7, <1>8
<1>10. \A k \in DOMAIN subscriptions' : k[2] \in DOMAIN windows' /\ windows'[k[2]] = k[1]
  BY <1>2, <1>4, <1>6
<1>11. QED
  BY <1>6, <1>8, <1>9, <1>10 DEF SubscriptionsAreOwned

\* What a subscription replaces is not running any more, and what it starts is
\* not running yet.
LEMMA SubscribedAgain ==
  ASSUME RegistryInv, NEW s \in Sockets, NEW id \in SubIds, NEW h \in Handles,
         Subscribe(s, id, h)
  PROVE  SubscriptionsAreOwned'
<1> DEFINE c == socket[s].connection
           k == <<c, WindowOf(s), id>>
           previous == {subscriptions[j] : j \in {k} \cap DOMAIN subscriptions}
<1>1. /\ c \in Known /\ c \in DOMAIN sessions
      /\ WindowOf(s) \in DOMAIN windows
      /\ windows[WindowOf(s)] = c
  <2>1. c \in Known /\ c \in DOMAIN sessions
    BY DEF Subscribe, Serves, IsCurrent, RegistryInv, SessionsServe, Alive
  <2>2. /\ connections[c].windows = {WindowOf(s)}
        /\ connections[c].windows = {w \in DOMAIN windows : windows[w] = c}
    BY <2>1 DEF RegistryInv, WindowsAgree, WindowOf
  <2>3. QED
    BY <2>1, <2>2
<1>2. k[1] = c /\ k[2] = WindowOf(s)
  OBVIOUS
<1>3. /\ h \notin running
      /\ subscriptions' = With(subscriptions, k, h)
      /\ running' = (running \ previous) \cup {h}
      /\ windows' = windows
  BY DEF Subscribe
<1>4. k \in DOMAIN subscriptions => previous = {subscriptions[k]}
  OBVIOUS
<1>5. k \notin DOMAIN subscriptions => previous = {}
  OBVIOUS
<1> HIDE DEF k, c, previous
<1>6. /\ DOMAIN subscriptions' = DOMAIN subscriptions \cup {k}
      /\ subscriptions'[k] = h
      /\ \A j \in DOMAIN subscriptions : j # k => subscriptions'[j] = subscriptions[j]
  BY <1>3 DEF With
<1>7. /\ running = {subscriptions[j] : j \in DOMAIN subscriptions}
      /\ \A i, j \in DOMAIN subscriptions : subscriptions[i] = subscriptions[j] => i = j
      /\ \A j \in DOMAIN subscriptions : j[2] \in DOMAIN windows /\ windows[j[2]] = j[1]
  BY DEF RegistryInv, SubscriptionsAreOwned
<1>8. \A j \in DOMAIN subscriptions : subscriptions[j] # h
  BY <1>3, <1>7
<1>9. running' = {subscriptions'[j] : j \in DOMAIN subscriptions'}
  <2>1. running \ previous = {subscriptions[j] : j \in DOMAIN subscriptions \ {k}}
    BY <1>4, <1>5, <1>7
  <2>2. QED
    BY <2>1, <1>3, <1>6
<1>10. \A i, j \in DOMAIN subscriptions' : subscriptions'[i] = subscriptions'[j] => i = j
  BY <1>6, <1>7, <1>8
<1>11. \A j \in DOMAIN subscriptions' : j[2] \in DOMAIN windows' /\ windows'[j[2]] = j[1]
  BY <1>1, <1>2, <1>3, <1>6, <1>7
<1>12. QED
  BY <1>9, <1>10, <1>11 DEF SubscriptionsAreOwned

LEMMA SubscriptionsHold ==
  ASSUME RegistryInv, Next
  PROVE  SubscriptionsAreOwned'
<1>1. ASSUME UNCHANGED <<subscriptions, running, windows>>
      PROVE  SubscriptionsAreOwned'
  BY <1>1 DEF RegistryInv, SubscriptionsAreOwned
<1>2. ASSUME NEW s \in Sockets, NEW c \in Connections, NEW w \in Windows, Connect(s, c, w)
      PROVE  SubscriptionsAreOwned'
  <2>1. /\ UNCHANGED <<subscriptions, running>>
        /\ \A x \in DOMAIN windows : x \in DOMAIN windows' /\ windows'[x] = windows[x]
    BY <1>2 DEF Connect, With
  <2>2. QED
    BY <2>1 DEF RegistryInv, SubscriptionsAreOwned
<1>3. ASSUME QuietStep
      PROVE  SubscriptionsAreOwned'
  <2>1. CASE \E s \in Sockets, id \in SubIds, h \in Handles : Subscribe(s, id, h)
    BY <2>1, SubscribedAgain
  <2>2. CASE \/ \E s \in Sockets, kind \in LaunchKinds : StartLaunch(s, kind)
             \/ \E l \in launches : LaunchStep(l)
             \/ SignIn \/ SignOut
    BY <1>1, <2>2 DEF LaunchStep, StartLaunch, SignIn, SignOut, LaunchFails, Restored,
                      ArtifactResolved, CatalogLaunched, registry
  <2>3. QED
    BY <1>3, <2>1, <2>2 DEF QuietStep, MessageStep
<1>4. QED
  BY <1>1, <1>2, <1>3, StepCases, ExpiredSubscriptions
     DEF ConnectRefused, Resume, Open, Close, registry

-------------------------------------------------------------------------------
(* The invariant of the registry.                                            *)

LEMMA RegistryBegins == Init => RegistryInv
<1> SUFFICES ASSUME Init PROVE RegistryInv
  OBVIOUS
<1>1. TypeOK
  BY DEF Init, TypeOK, Known, Socket, Connection
<1>2. Attachments
  BY ConstantsAssumption DEF Init, Attachments, SocketsAttached, RecordsFollow,
     LeftAreSuperseded, Known, Alive
<1>3. WindowsAgree /\ SessionsServe
  BY DEF Init, WindowsAgree, SessionsServe, Known, Alive
<1>4. SubscriptionsAreOwned
  BY DEF Init, SubscriptionsAreOwned
<1>5. QED
  BY <1>1, <1>2, <1>3, <1>4 DEF RegistryInv

LEMMA RegistrySteps == RegistryInv /\ [Next]_vars => RegistryInv'
<1> SUFFICES ASSUME RegistryInv, [Next]_vars PROVE RegistryInv'
  OBVIOUS
<1>1. CASE Next
  BY <1>1, TypesHold, AttachmentsHold, WindowsHold, SubscriptionsHold
     DEF RegistryInv, WindowsInv
<1>2. CASE UNCHANGED vars
  BY <1>2 DEF vars, registry, runtime, RegistryInv, TypeOK, Attachments, SocketsAttached,
     RecordsFollow, LeftAreSuperseded, WindowsAgree, SessionsServe, SubscriptionsAreOwned,
     Known, Alive
<1>3. QED
  BY <1>1, <1>2

LEMMA RegistryHolds == Spec => []RegistryInv
  BY RegistryBegins, RegistrySteps, PTL DEF Spec

\* Every variable keeps its type, whatever sockets open, close, resume and ask:
\* in particular, a message or a launch that is handled always finds the session
\* of its connection.
THEOREM TypesAreKept == Spec => []TypeOK
<1>1. RegistryInv => TypeOK
  BY DEF RegistryInv
<1>2. QED
  BY <1>1, RegistryHolds, PTL

\* However many sockets a connection had, and however late the old ones close or
\* speak: exactly the newest is served while it is open (attach, detach,
\* isCurrentAttachment).
THEOREM NewestSocketIsServed == Spec => []NewestIsServed
<1>1. ASSUME RegistryInv
      PROVE  NewestIsServed
  <2> SUFFICES ASSUME NEW s \in Sockets, Alive(s)
               PROVE  IsCurrent(s) <=>
                        \A t \in Sockets :
                          socket[t].connection = socket[s].connection =>
                            socket[t].generation <= socket[s].generation
                            /\ (t = s \/ socket[t].generation # socket[s].generation)
    BY DEF NewestIsServed
  <2> DEFINE c == socket[s].connection
  <2>1. c # NoConnection
    BY <1>1 DEF RegistryInv, Attachments, SocketsAttached, Alive
  <2>2. \A t \in Sockets : socket[t].generation \in Nat
    BY <1>1 DEF RegistryInv, TypeOK, Socket
  <2>3. ASSUME IsCurrent(s), NEW t \in Sockets, socket[t].connection = c
        PROVE  socket[t].generation <= socket[s].generation
               /\ (t = s \/ socket[t].generation # socket[s].generation)
    BY <1>1, <2>1, <2>3 DEF RegistryInv, Attachments, SocketsAttached, RecordsFollow, IsCurrent
  <2>4. ASSUME \A t \in Sockets : socket[t].connection = c =>
                 socket[t].generation <= socket[s].generation
        PROVE  IsCurrent(s)
    <3>1. c \in Known
      BY <1>1, <2>2, <2>4 DEF RegistryInv, Attachments, LeftAreSuperseded
    <3>2. PICK t \in Sockets : /\ socket[t].connection = c
                               /\ socket[t].generation = connections[c].generation
      BY <1>1, <3>1 DEF RegistryInv, Attachments, RecordsFollow
    <3>3. socket[s].generation = connections[c].generation
      BY <1>1, <2>2, <2>4, <3>1, <3>2 DEF RegistryInv, Attachments, RecordsFollow
    <3>4. connections[c].attached
      BY <1>1, <3>1, <3>3 DEF RegistryInv, Attachments, RecordsFollow, Alive, Live
    <3>5. QED
      BY <3>1, <3>3, <3>4 DEF IsCurrent
  <2>5. QED
    BY <2>3, <2>4
<1>2. QED
  BY <1>1, RegistryHolds, PTL

\* A connection's timer runs exactly while its newest socket is closed, and the
\* registry, the route and PortalRuntime name the same windows, in every state.
THEOREM RecordsAlwaysAgree == Spec => []RecordsAgree
<1>1. ASSUME RegistryInv
      PROVE  RecordsAgree
  <2>1. DetachedIsArmed
    BY <1>1 DEF RegistryInv, Attachments, RecordsFollow, DetachedIsArmed, Live
  <2>2. QED
    BY <1>1, <2>1 DEF RegistryInv, RecordsAgree
<1>2. QED
  BY <1>1, RegistryHolds, PTL

\* Replacing, resuming and expiring leak no relay subscription: each one that
\* runs is tracked, once, under a window its connection owns.
THEOREM NoSubscriptionLeaks == Spec => []SubscriptionsAreOwned
<1>1. RegistryInv => SubscriptionsAreOwned
  BY DEF RegistryInv
<1>2. QED
  BY <1>1, RegistryHolds, PTL

-------------------------------------------------------------------------------
(* Authorities.                                                              *)

\* Only sign-out takes an authority while its window is there, and only who is
\* signed in is given one: a launch that waited across a sign-out grants none.
THEOREM SignOutClears == Spec => []SignedOutHoldsNothing
<1>1. Init => SignedOutHoldsNothing
  BY DEF Init, SignedOutHoldsNothing
<1>2. RegistryInv /\ SignedOutHoldsNothing /\ [Next]_vars => SignedOutHoldsNothing'
  <2> SUFFICES ASSUME RegistryInv, SignedOutHoldsNothing, [Next]_vars
               PROVE  SignedOutHoldsNothing'
    OBVIOUS
  <2>1. ASSUME signedIn' = signedIn, DOMAIN authorities' \subseteq DOMAIN authorities
        PROVE  SignedOutHoldsNothing'
    BY <2>1 DEF SignedOutHoldsNothing
  <2>2. ASSUME NEW l \in launches, LaunchStep(l)
        PROVE  SignedOutHoldsNothing'
    BY <2>1, <2>2 DEF LaunchStep, LaunchFails, Restored, ArtifactResolved, CatalogLaunched,
       RegisterLaunchAuthority, runtime, SignedOutHoldsNothing
  <2>3. ASSUME NEW c \in Connections, Expire(c)
        PROVE  SignedOutHoldsNothing'
    <3>1. signedIn' = signedIn /\ DOMAIN authorities' \subseteq DOMAIN authorities
      BY <2>3, WithoutDomain DEF Expire
    <3>2. QED
      BY <2>1, <3>1
  <2>4. CASE SignOut
    BY <2>4 DEF SignOut, Without, Restrict, SignedOutHoldsNothing
  <2>5. CASE SignIn
    BY <2>5 DEF SignIn, SignedOutHoldsNothing
  <2>6. ASSUME NEW s \in Sockets, SocketStep(s) \/ MessageStep(s)
        PROVE  SignedOutHoldsNothing'
    BY <2>1, <2>6 DEF SocketStep, MessageStep, Connect, ConnectRefused, Resume, Open, Close,
       Subscribe, StartLaunch, runtime
  <2>7. CASE UNCHANGED vars
    BY <2>1, <2>7 DEF vars, runtime
  <2>8. QED
    BY <2>2, <2>3, <2>4, <2>5, <2>6, <2>7 DEF Next
<1>3. QED
  BY <1>1, <1>2, RegistryHolds, PTL DEF Spec

\* A waiting launch names the window its connection has, as long as the
\* connection is there.
LateInv == LaunchesKeep /\ AuthorityHasWindow /\ \A l \in launches : l.step # "catalog"

LEMMA LateBegins == Init => LateInv
  BY DEF Init, LateInv, LaunchesKeep, AuthorityHasWindow

\* What a step has to leave alone to leave the launches and authorities right.
LEMMA LaunchesStay ==
  ASSUME RegistryInv, LateInv,
         \A s \in Sockets : socket[s].state # "new" =>
           socket'[s].connection = socket[s].connection,
         \A c \in Known' : c \in used => c \in Known,
         \A c \in DOMAIN sessions : c \in Known' =>
           c \in DOMAIN sessions' /\ sessions'[c] = sessions[c],
         \A w \in DOMAIN windows : w \in DOMAIN authorities' =>
           w \in DOMAIN windows' /\ windows'[w] = windows[w],
         \A w \in DOMAIN authorities' :
           w \in DOMAIN authorities /\ authorities'[w] = authorities[w],
         used \subseteq used',
         launches' \subseteq launches
  PROVE  LateInv'
<1>1. ASSUME NEW l \in launches'
      PROVE  /\ l.step # "catalog"
             /\ l.connection = socket'[l.socket].connection
             /\ l.connection \in used'
             /\ l.connection \in Known' => /\ l.connection \in DOMAIN sessions'
                                           /\ l.window = sessions'[l.connection]
  <2>1. /\ l \in launches
        /\ l.socket \in Sockets
        /\ l.step # "catalog"
        /\ l.connection = socket[l.socket].connection
        /\ l.connection \in used
        /\ l.connection \in Known => /\ l.connection \in DOMAIN sessions
                                     /\ l.window = sessions[l.connection]
    BY <1>1 DEF LateInv, LaunchesKeep, RegistryInv, TypeOK, Launch
  <2>2. socket[l.socket].state # "new"
    BY <2>1, ConstantsAssumption DEF RegistryInv, TypeOK, Attachments, SocketsAttached
  <2>3. QED
    BY <2>1, <2>2
<1>2. AuthorityHasWindow'
  BY DEF LateInv, AuthorityHasWindow
<1>3. QED
  BY <1>1, <1>2 DEF LateInv, LaunchesKeep

LEMMA SocketLaunches ==
  ASSUME RegistryInv, LateInv, NEW s \in Sockets, SocketStep(s)
  PROVE  LateInv'
<1>1. ASSUME NEW c \in Connections, NEW w \in Windows, Connect(s, c, w)
      PROVE  LateInv'
  <2>1. /\ \A t \in Sockets : t # s => socket'[t] = socket[t]
        /\ socket[s].state = "new"
        /\ UNCHANGED <<authorities, launches>>
        /\ used' = used \cup {c}
        /\ c \notin used
    BY <1>1 DEF Connect, Attached, RegistryInv, TypeOK
  <2>2. /\ Known' = Known \cup {c}
        /\ c \notin DOMAIN sessions
        /\ w \notin DOMAIN windows
    BY <1>1, <2>1 DEF Connect, Known, With, RegistryInv, TypeOK, WindowsAgree
  <2>3. /\ \A d \in DOMAIN sessions : d \in DOMAIN sessions' /\ sessions'[d] = sessions[d]
        /\ \A x \in DOMAIN windows : x \in DOMAIN windows' /\ windows'[x] = windows[x]
    BY <1>1, <2>2 DEF Connect, With
  <2>4. QED
    BY <2>1, <2>2, <2>3, LaunchesStay
<1>2. ASSUME NEW c \in Connections, NEW w \in Windows, ConnectRefused(s, c, w)
      PROVE  LateInv'
  <2>1. /\ \A t \in Sockets : t # s => socket'[t] = socket[t]
        /\ socket[s].state = "new"
        /\ UNCHANGED <<authorities, launches, sessions, windows>>
        /\ used' = used \cup {c}
        /\ c \notin used
    BY <1>2 DEF ConnectRefused, Attached, RegistryInv, TypeOK, runtime
  <2>2. Known' = Known \cup {c}
    BY <1>2 DEF ConnectRefused, Known, With
  <2>3. QED
    BY <2>1, <2>2, LaunchesStay
<1>3. ASSUME NEW c \in Connections, Resume(s, c)
      PROVE  LateInv'
  <2>1. /\ \A t \in Sockets : t # s => socket'[t] = socket[t]
        /\ socket[s].state = "new"
        /\ UNCHANGED <<authorities, launches, sessions, windows, used>>
        /\ Known' = Known
    BY <1>3 DEF Resume, Attached, Known, RegistryInv, TypeOK, runtime
  <2>2. QED
    BY <2>1, LaunchesStay
<1>4. CASE Open(s) \/ Close(s)
  <2>1. /\ \A t \in Sockets : socket'[t].connection = socket[t].connection
        /\ UNCHANGED <<authorities, launches, sessions, windows, used>>
        /\ Known' = Known
    BY <1>4 DEF Open, Close, Known, RegistryInv, TypeOK, Socket, registry, runtime
  <2>2. QED
    BY <2>1, LaunchesStay
<1>5. QED
  BY <1>1, <1>2, <1>3, <1>4 DEF SocketStep

LEMMA ExpiredLaunches ==
  ASSUME RegistryInv, LateInv, NEW c \in Connections, Expire(c)
  PROVE  LateInv'
<1>1. /\ Known' = Known \ {c}
      /\ DOMAIN windows' = {w \in DOMAIN windows : windows[w] # c}
      /\ \A w \in DOMAIN windows' : windows'[w] = windows[w]
      /\ DOMAIN sessions' = DOMAIN sessions \ {c}
      /\ \A d \in DOMAIN sessions' : sessions'[d] = sessions[d]
      /\ UNCHANGED <<socket, used, launches>>
  BY ExpiryTakes
<1>2. /\ DOMAIN authorities' = DOMAIN authorities \ connections[c].windows
      /\ \A w \in DOMAIN authorities' : authorities'[w] = authorities[w]
  BY DEF Expire, Without, Restrict
<1>3. connections[c].windows = {w \in DOMAIN windows : windows[w] = c}
  BY DEF Expire, RegistryInv, WindowsAgree
<1>4. \A w \in DOMAIN windows : w \in DOMAIN authorities' =>
        w \in DOMAIN windows' /\ windows'[w] = windows[w]
  BY <1>1, <1>2, <1>3
<1>5. QED
  BY <1>1, <1>2, <1>4, LaunchesStay

\* A launch that starts names the window of its socket's connection.
LEMMA StartedLaunches ==
  ASSUME LaunchKinds \subseteq {"start"}, RegistryInv, LateInv,
         NEW s \in Sockets, NEW kind \in LaunchKinds, StartLaunch(s, kind)
  PROVE  LateInv'
<1> DEFINE l == Waiting(s, "restore")
<1>1. /\ launches' = launches \cup {l}
      /\ UNCHANGED <<registry, runtime, socket, used>>
  BY DEF StartLaunch
<1>2. /\ socket[s].connection \in Known
      /\ socket[s].connection \in used
      /\ socket[s].connection \in DOMAIN sessions
  BY DEF StartLaunch, Serves, IsCurrent, RegistryInv, TypeOK, SessionsServe, Alive
<1>3. /\ l.socket = s /\ l.step = "restore"
      /\ l.connection = socket[s].connection
      /\ l.window = sessions[socket[s].connection]
  BY DEF Waiting, WindowOf
<1> HIDE DEF l
<1>4. \A k \in launches' : \/ k \in launches
                           \/ k = l
  BY <1>1
<1>5. LaunchesKeep'
  BY <1>1, <1>2, <1>3, <1>4 DEF LateInv, LaunchesKeep, registry, runtime, Known
<1>6. AuthorityHasWindow'
  BY <1>1 DEF LateInv, AuthorityHasWindow, registry, runtime
<1>7. QED
  BY <1>3, <1>4, <1>5, <1>6 DEF LateInv

\* The artifact arrives: a socket that is served still has the window the launch
\* was for.
LEMMA LaunchedLaunches ==
  ASSUME RegistryInv, LateInv, NEW l \in launches, LaunchStep(l)
  PROVE  LateInv'
<1>1. /\ l \in Launch
      /\ l.socket \in Sockets
      /\ l.step # "catalog"
      /\ l.connection = socket[l.socket].connection
      /\ l.connection \in used
      /\ l.connection \in Known => /\ l.connection \in DOMAIN sessions
                                   /\ l.window = sessions[l.connection]
  BY DEF LateInv, LaunchesKeep, RegistryInv, TypeOK, Launch
<1>2. CASE LaunchFails(l)
  <2>1. launches' \subseteq launches /\ UNCHANGED <<registry, runtime, socket, used>>
    BY <1>2 DEF LaunchFails
  <2>2. QED
    BY <2>1 DEF LateInv, LaunchesKeep, AuthorityHasWindow, registry, runtime, Known
<1>3. CASE Restored(l)
  <2> DEFINE m == [l EXCEPT !.step = "artifact"]
  <2>1. /\ m.socket = l.socket /\ m.step = "artifact"
        /\ m.connection = l.connection
        /\ m.window = l.window
    BY <1>1 DEF Launch
  <2>2. /\ launches' \subseteq launches \cup {m}
        /\ UNCHANGED <<registry, sessions, authorities, socket, used>>
    BY <1>3 DEF Restored
  <2> HIDE DEF m
  <2>3. \A k \in launches' : k \in launches \/ k = m
    BY <2>2
  <2>4. LaunchesKeep'
    BY <1>1, <2>1, <2>2, <2>3 DEF LateInv, LaunchesKeep, registry, Known
  <2>5. AuthorityHasWindow'
    BY <2>2 DEF LateInv, AuthorityHasWindow, registry
  <2>6. QED
    BY <2>1, <2>3, <2>4, <2>5 DEF LateInv
<1>4. CASE ArtifactResolved(l)
  <2>1. launches' \subseteq launches /\ UNCHANGED <<registry, sessions, socket, used>>
    BY <1>4 DEF ArtifactResolved
  <2>2. LaunchesKeep' /\ \A k \in launches' : k.step # "catalog"
    BY <2>1 DEF LateInv, LaunchesKeep, registry, Known
  <2>3. ASSUME Serves(l.socket)
        PROVE  l.window \in DOMAIN windows /\ windows[l.window] = l.connection
    <3>1. l.connection \in Known /\ l.connection \in DOMAIN sessions
      BY <1>1, <2>3 DEF Serves, IsCurrent
    <3>2. /\ connections[l.connection].windows = {l.window}
          /\ connections[l.connection].windows =
               {w \in DOMAIN windows : windows[w] = l.connection}
      BY <1>1, <3>1 DEF RegistryInv, WindowsAgree
    <3>3. QED
      BY <3>2
  <2>4. AuthorityHasWindow'
    <3>1. CASE Serves(l.socket) /\ signedIn
      <4>1. authorities' = With(authorities, l.window, l.connection)
        BY <1>4, <3>1 DEF ArtifactResolved, RegisterLaunchAuthority
      <4>2. QED
        BY <4>1, <2>1, <2>3, <3>1 DEF With, LateInv, AuthorityHasWindow, registry
    <3>2. CASE ~(Serves(l.socket) /\ signedIn)
      BY <1>4, <2>1, <3>2 DEF ArtifactResolved, RegisterLaunchAuthority, LateInv,
                              AuthorityHasWindow, registry
    <3>3. QED
      BY <3>1, <3>2
  <2>5. QED
    BY <2>2, <2>4 DEF LateInv
<1>5. CASE CatalogLaunched(l)
  BY <1>1, <1>5 DEF CatalogLaunched
<1>6. QED
  BY <1>2, <1>3, <1>4, <1>5 DEF LaunchStep

LEMMA LateStep ==
  ASSUME LaunchKinds \subseteq {"start"}
  PROVE  RegistryInv /\ LateInv /\ [Next]_vars => LateInv'
<1> SUFFICES ASSUME RegistryInv, LateInv, [Next]_vars PROVE LateInv'
  OBVIOUS
<1>1. ASSUME UNCHANGED <<registry, sessions, authorities, socket, used, launches>>
      PROVE  LateInv'
  BY <1>1 DEF LateInv, LaunchesKeep, AuthorityHasWindow, registry, Known
<1>2. ASSUME NEW s \in Sockets, NEW id \in SubIds, NEW h \in Handles, Subscribe(s, id, h)
      PROVE  LateInv'
  BY <1>2 DEF Subscribe, LateInv, LaunchesKeep, AuthorityHasWindow, runtime, Known
<1>3. CASE SignOut
  <2>1. DOMAIN authorities' = {} /\ UNCHANGED <<registry, sessions, socket, used, launches>>
    BY <1>3 DEF SignOut, Without, Restrict
  <2>2. QED
    BY <2>1 DEF LateInv, LaunchesKeep, AuthorityHasWindow, registry, Known
<1>4. CASE SignIn
  BY <1>1, <1>4 DEF SignIn
<1>5. CASE UNCHANGED vars
  BY <1>1, <1>5 DEF vars, runtime
<1>6. QED
  BY <1>2, <1>3, <1>4, <1>5, SocketLaunches, StartedLaunches, LaunchedLaunches,
     ExpiredLaunches DEF Next, MessageStep

\* Where tabs launch with runtime.start alone, capabilities are held only for a
\* window that is open, by the connection that has it: no launch that finishes
\* late revives a window that is gone.  With catalog.launch it is not so.
THEOREM LateLaunchesGrantNothing ==
  ASSUME LaunchKinds \subseteq {"start"}
  PROVE  Spec => []AuthorityHasWindow
<1>1. LateInv => AuthorityHasWindow
  BY DEF LateInv
<1>2. QED
  BY <1>1, LateBegins, LateStep, RegistryHolds, PTL DEF Spec
===============================================================================
