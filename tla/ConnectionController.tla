------------------------- MODULE ConnectionController -------------------------
(***************************************************************************)
(* The browser's connection controller (shell/connection.ts): it keeps one *)
(* websocket to the portal, replaces it when it fails, after a delay or at *)
(* the user's word, and rests while the page is hidden or offline.         *)
(*                                                                         *)
(* The sockets are external: one may hang while connecting, and may report *)
(* an error or a close after the controller has let go of it.  An id of    *)
(* Sockets names one socket object and is used again once that object can  *)
(* report nothing more.  The generation counter is left out: an attempt    *)
(* has a generation of its own and a socket of its own, so the test of     *)
(* both in #current is the test of the socket.                             *)
(***************************************************************************)
EXTENDS Naturals

CONSTANTS WebSockets,              \* socket objects
          ManualRetryFailures,  \* MANUAL_RETRY_FAILURES; the count stops there
          NoSocket              \* the controller holds no socket

ASSUME ControllerAssumption == /\ ManualRetryFailures \in Nat \ {0}
                               /\ NoSocket \notin WebSockets

VARIABLES
  ready,      \* ready[s]: the socket's readyState, or "gone"
  webSocket,     \* #socket
  terminal,   \* #attemptTerminal
  timer,      \* #timer: what it will do when it fires, or "none"
  token,      \* a reconnect token was received
  bootstrapped,    \* #runtimeStarted
  lifetime,   \* "new", "started" or "stopped"
  snapshot,   \* #snapshot
  eligible,   \* the page is visible and the browser online
  noticed     \* the controller was told of the last change of eligible

controllerVars ==
  <<ready, webSocket, terminal, timer, token, bootstrapped, lifetime, snapshot, eligible, noticed>>

Phases == {"pending", "connected", "bootstrapping", "ready", "retrying", "dormant", "failed"}

Snapshot == [phase : Phases, mode : {"cold", "reconnect"},
             failures : 0..ManualRetryFailures, canRetry : BOOLEAN,
             nextRetry : {"none", "jittered", "quiet"}]

\* The sockets the browser still works on for somebody.
InUse == {s \in WebSockets : ready[s] \in {"connecting", "open"}}

\* Mutant: the events of any socket are heeded.
CurrentAnyway(s) == lifetime # "stopped"

\* #current: the events of another attempt's socket are not heeded.
Current(s) == lifetime # "stopped" /\ webSocket = s

\* #emit
Emit(update) == snapshot' = [f \in DOMAIN snapshot |->
                               IF f \in DOMAIN update THEN update[f] ELSE snapshot[f]]

(***************************************************************************)
(* requestConnect, past its early returns: the timer goes, the socket held *)
(* is closed, a new one is opened and given the connect timeout.           *)
(***************************************************************************)
MayConnect == lifetime = "started" /\ eligible
Busy == webSocket # NoSocket /\ ready[webSocket] \in {"connecting", "open"} /\ ~terminal

Connecting(s) ==
  /\ ready[s] = "gone"
  /\ ready' = [r \in WebSockets |-> IF r = s THEN "connecting"
                                 ELSE IF r = webSocket THEN "closing" ELSE ready[r]]
  /\ webSocket' = s
  /\ terminal' = FALSE
  /\ bootstrapped' = FALSE
  /\ timer' = "connect"
  /\ LET again == token \/ snapshot.failures > 0
     IN  Emit([phase |-> IF again THEN "retrying" ELSE "pending",
               mode |-> IF again THEN "reconnect" ELSE "cold", nextRetry |-> "none"])

\* requestConnect with the state its caller left.
RequestConnect ==
  IF MayConnect /\ ~Busy
  THEN \E s \in WebSockets : Connecting(s)
  ELSE UNCHANGED <<ready, webSocket, terminal, bootstrapped, timer, snapshot>>

(***************************************************************************)
(* #terminateAttempt: the attempt is over once, whoever says so first, and *)
(* the next one is due after a jittered delay, or after a minute once the  *)
(* failures are many; nothing is scheduled while the page rests.           *)
(***************************************************************************)

Failures == IF snapshot.failures = ManualRetryFailures THEN ManualRetryFailures
            ELSE snapshot.failures + 1

\* Mutant: after many failures only the user retries.
NextTimerUnlessMany ==
  IF eligible /\ Failures < ManualRetryFailures THEN "retry" ELSE "none"

NextTimer == IF eligible THEN "retry" ELSE "none"

AttemptOver ==
  LET many == Failures = ManualRetryFailures
  IN  /\ terminal' = TRUE
      /\ webSocket' = NoSocket
      /\ timer' = NextTimer
      /\ Emit([phase |-> IF ~eligible THEN "dormant" ELSE IF many THEN "failed" ELSE "retrying",
               mode |-> "reconnect", failures |-> Failures, canRetry |-> many,
               nextRetry |-> IF ~eligible THEN "none"
                             ELSE IF many THEN "quiet" ELSE "jittered"])

TerminateAttempt(s) ==
  IF Current(s) /\ ~terminal THEN AttemptOver
  ELSE UNCHANGED <<terminal, webSocket, timer, snapshot>>

-----------------------------------------------------------------------------
(***************************************************************************)
(* What the shell asks.                                                    *)
(***************************************************************************)
StartController ==
  /\ lifetime = "new"
  /\ lifetime' = "started"
  /\ IF eligible THEN \E s \in WebSockets : Connecting(s)
     ELSE UNCHANGED <<ready, webSocket, terminal, bootstrapped, timer, snapshot>>
  /\ UNCHANGED <<token, eligible, noticed>>

\* retryNow gives up the attempt under way, if any, for a new one.
RetryNow ==
  /\ MayConnect
  /\ \E s \in WebSockets : Connecting(s)
  /\ UNCHANGED <<token, lifetime, eligible, noticed>>

StopController ==
  /\ lifetime # "stopped"
  /\ lifetime' = "stopped"
  /\ webSocket' = NoSocket
  /\ ready' = [r \in WebSockets |-> IF r = webSocket THEN "closing" ELSE ready[r]]
  /\ timer' = "none"
  /\ terminal' = TRUE
  /\ UNCHANGED <<token, bootstrapped, snapshot, eligible, noticed>>

\* The page is hidden or shown, the browser goes offline or online; the event
\* that says so comes afterwards.
EligibilityChanges ==
  /\ noticed
  /\ eligible' = ~eligible
  /\ noticed' = FALSE
  /\ UNCHANGED <<ready, webSocket, terminal, timer, token, bootstrapped, lifetime, snapshot>>

\* #lifecycleChanged
LifecycleRests ==
  /\ timer' = "none"
  /\ IF snapshot.phase = "ready" THEN UNCHANGED snapshot
     ELSE Emit([phase |-> "dormant", mode |-> IF token THEN "reconnect" ELSE snapshot.mode,
                nextRetry |-> "none"])
  /\ UNCHANGED <<ready, webSocket, terminal, bootstrapped>>

LifecycleResumes ==
  IF webSocket = NoSocket \/ terminal THEN RequestConnect
  ELSE UNCHANGED <<ready, webSocket, terminal, bootstrapped, timer, snapshot>>

LifecycleChanged ==
  /\ ~noticed
  /\ noticed' = TRUE
  /\ IF lifetime # "started"
     THEN UNCHANGED <<ready, webSocket, terminal, bootstrapped, timer, snapshot>>
     ELSE IF eligible THEN LifecycleResumes ELSE LifecycleRests
  /\ UNCHANGED <<token, lifetime, eligible>>

-----------------------------------------------------------------------------
(***************************************************************************)
(* What the timer and the sockets do.                                      *)
(***************************************************************************)
ConnectTimesOut ==
  /\ timer = "connect"
  /\ AttemptOver
  /\ ready' = [ready EXCEPT ![webSocket] = "closing"]
  /\ UNCHANGED <<token, bootstrapped, lifetime, eligible, noticed>>

RetryFires ==
  /\ timer = "retry"
  /\ IF MayConnect /\ ~Busy THEN \E s \in WebSockets : Connecting(s)
     ELSE timer' = "none" /\ UNCHANGED <<ready, webSocket, terminal, bootstrapped, snapshot>>
  /\ UNCHANGED <<token, lifetime, eligible, noticed>>

SocketOpens(s) ==
  /\ ready[s] = "connecting"
  /\ ready' = [ready EXCEPT ![s] = "open"]
  /\ timer' = IF Current(s) THEN "none" ELSE timer
  /\ UNCHANGED <<webSocket, terminal, token, bootstrapped, lifetime, snapshot, eligible, noticed>>

\* The error event; the close event follows.
SocketFails(s) ==
  /\ s \in InUse
  /\ ready' = [ready EXCEPT ![s] = "closing"]
  /\ TerminateAttempt(s)
  /\ UNCHANGED <<token, bootstrapped, lifetime, eligible, noticed>>

SocketCloses(s) ==
  /\ ready[s] \in {"open", "closing"}
  /\ ready' = [ready EXCEPT ![s] = "gone"]
  /\ TerminateAttempt(s)
  /\ UNCHANGED <<token, bootstrapped, lifetime, eligible, noticed>>

(***************************************************************************)
(* #receive.  The portal greets a socket with runtime.connected; an        *)
(* artifact or an error answers the runtime.start that follows.            *)
(***************************************************************************)
Greeted(s) ==
  /\ ready[s] = "open" /\ Current(s) /\ ~bootstrapped
  /\ bootstrapped' = TRUE
  /\ token' = TRUE
  /\ Emit([phase |-> "bootstrapping", nextRetry |-> "none"])
  /\ UNCHANGED <<ready, webSocket, terminal, timer, lifetime, eligible, noticed>>

ArtifactArrives(s) ==
  /\ ready[s] = "open" /\ Current(s) /\ bootstrapped
  /\ Emit([phase |-> "ready", failures |-> 0, canRetry |-> FALSE, nextRetry |-> "none"])
  /\ UNCHANGED <<ready, webSocket, terminal, timer, token, bootstrapped, lifetime, eligible,
                 noticed>>

StartRefused(s) ==
  /\ ready[s] = "open" /\ Current(s) /\ bootstrapped
  /\ Emit([phase |-> "failed", canRetry |-> TRUE, nextRetry |-> "none"])
  /\ UNCHANGED <<ready, webSocket, terminal, timer, token, bootstrapped, lifetime, eligible,
                 noticed>>

-----------------------------------------------------------------------------
ControllerInit ==
  /\ ready = [s \in WebSockets |-> "gone"]
  /\ webSocket = NoSocket
  /\ terminal = FALSE /\ timer = "none" /\ token = FALSE /\ bootstrapped = FALSE
  /\ lifetime = "new"
  /\ snapshot = [phase |-> "pending", mode |-> "cold", failures |-> 0,
                 canRetry |-> FALSE, nextRetry |-> "none"]
  /\ eligible \in BOOLEAN
  /\ noticed = TRUE

ShellStep == StartController \/ RetryNow \/ StopController
PageStep == EligibilityChanges \/ LifecycleChanged
TimerStep == ConnectTimesOut \/ RetryFires
WebSocketStep(s) == SocketOpens(s) \/ SocketFails(s) \/ SocketCloses(s)
                 \/ Greeted(s) \/ ArtifactArrives(s) \/ StartRefused(s)

ControllerNext == ShellStep \/ PageStep \/ TimerStep \/ \E s \in WebSockets : WebSocketStep(s)

\* Timers fire, events that happened are dispatched, and a socket told to close
\* closes.  A connecting socket need not settle.
ControllerFairness ==
  /\ WF_controllerVars(TimerStep)
  /\ WF_controllerVars(LifecycleChanged)
  /\ \A s \in WebSockets : WF_controllerVars(ready[s] = "closing" /\ SocketCloses(s))

ControllerSpec == ControllerInit /\ [][ControllerNext]_controllerVars /\ ControllerFairness

-----------------------------------------------------------------------------
(***************************************************************************)
(* The controller's fields and the page's state have their types.          *)
(***************************************************************************)
ControllerTypeOK ==
  /\ ready \in [WebSockets -> {"gone", "connecting", "open", "closing"}]
  /\ webSocket \in WebSockets \cup {NoSocket}
  /\ timer \in {"none", "connect", "retry"}
  /\ {terminal, token, bootstrapped, eligible, noticed} \subseteq BOOLEAN
  /\ lifetime \in {"new", "started", "stopped"}
  /\ snapshot \in Snapshot

(***************************************************************************)
(* Whatever triggers coincide (a retry by hand, the timer, the page shown, *)
(* a late error), the browser keeps one live socket to the portal: one     *)
(* that is not the controller's has been closed.                           *)
(***************************************************************************)
OneAttempt == InUse \subseteq {webSocket}

(***************************************************************************)
(* A phase that says the portal was reached is never shown for a socket    *)
(* that is gone: the header tells the truth about the connection.          *)
(***************************************************************************)
PhaseIsTrue ==
  lifetime = "started" /\ snapshot.phase \in {"connected", "bootstrapping", "ready"}
    => webSocket # NoSocket /\ ready[webSocket] = "open"

(***************************************************************************)
(* A started controller on a page that is shown never idles without a      *)
(* socket: a retry is due.  No trigger that cancels the timer forgets to   *)
(* replace it.                                                             *)
(***************************************************************************)
LostIsRetried ==
  lifetime = "started" /\ eligible /\ noticed /\ webSocket = NoSocket => timer = "retry"

(***************************************************************************)
(* The timer is that of the attempt in hand: the connect timeout of a      *)
(* connecting socket, the retry of one that is gone, and none is left      *)
(* behind on a page that is known to rest, or once the shell is unmounted. *)
(***************************************************************************)
TimerIsOfAttempt ==
  /\ timer = "connect" => webSocket # NoSocket /\ ready[webSocket] = "connecting"
  /\ timer = "retry" => webSocket = NoSocket
  /\ lifetime = "stopped" \/ (noticed /\ ~eligible) => timer = "none"

(***************************************************************************)
(* A lost connection on a page that stays shown is tried again: the        *)
(* controller holds a socket, unless the page rests or the shell leaves.   *)
(***************************************************************************)
ReconnectsAgain ==
  ControllerFairness =>
    (lifetime = "started" /\ webSocket = NoSocket)
      ~> (webSocket # NoSocket \/ ~eligible \/ lifetime = "stopped")

(***************************************************************************)
(* The tab's connection is one, its phase is true, and its timer is the    *)
(* one that keeps it or brings it back, whatever coincides.                *)
(***************************************************************************)
ConnectionIsKept == OneAttempt /\ PhaseIsTrue /\ LostIsRetried /\ TimerIsOfAttempt
===============================================================================
