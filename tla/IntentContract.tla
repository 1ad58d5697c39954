---------------------------- MODULE IntentContract ----------------------------
(***************************************************************************)
(* What intent.invoke promises (INT-02): each invocation gets one result,  *)
(* the handler is opened at most once for it, and "handled" is said only   *)
(* of a handler that was opened.  How reservations, tickets, accounts and  *)
(* timers bring that about is IntentService's business.                    *)
(***************************************************************************)
EXTENDS Naturals

CONSTANT Invocations

VARIABLES
  status,   \* of each invocation
  handlers  \* how often the handler of each was opened with the payload

vars == <<status, handlers>>

Statuses == {"idle", "waiting", "rejected", "failed", "handled"}
Answered == {"rejected", "failed", "handled"}

Init ==
  /\ status = [i \in Invocations |-> "idle"]
  /\ handlers = [i \in Invocations |-> 0]

\* What may become of one invocation in a step.  One event can end many.
Stays(i)  == status'[i] = status[i] /\ handlers'[i] = handlers[i]
Accept(i) == status[i] = "idle" /\ status'[i] \in {"waiting", "rejected"}
             /\ handlers'[i] = handlers[i]
Open(i)   == status[i] = "waiting" /\ handlers[i] = 0 /\ handlers'[i] = 1
             /\ status'[i] \in {"waiting", "handled"}
Fail(i)   == status[i] = "waiting" /\ status'[i] = "failed"
             /\ handlers'[i] = handlers[i]
Handle(i) == status[i] = "waiting" /\ handlers[i] = 1 /\ status'[i] = "handled"
             /\ handlers'[i] = handlers[i]

Next == \A i \in Invocations :
          Stays(i) \/ Accept(i) \/ Open(i) \/ Fail(i) \/ Handle(i)

AllAnswered == \A i \in Invocations :
                 status[i] = "waiting" ~> status[i] \in Answered

Spec == Init /\ [][Next]_vars /\ AllAnswered
===============================================================================
