--------------------------- MODULE MCIntentService ---------------------------
(***************************************************************************)
(* The instance of IntentService for TLC.  Two accounts, two tabs and two  *)
(* invocations are too many states, so two bounds cut them: one invocation *)
(* is reserved by one tab only (a tab draws its ids at random, so that two *)
(* tabs do not share one; which id and which tab makes no difference), and *)
(* the second account comes in when only that tab is left.  Direct changes *)
(* of account, and two tabs that use one reservation id, both happen.      *)
(***************************************************************************)
EXTENDS IntentService

CONSTANTS FirstTab, FirstInvocation, SecondAccount

WithinBounds ==
  /\ \A e \in reserved' : e.invocation = FirstInvocation => e.tab = FirstTab
  /\ SecondAccount \in {account', registry'} => open' \subseteq {FirstTab}

InstanceSpec ==
  /\ Init /\ account # SecondAccount
  /\ [][Next /\ WithinBounds]_vars
  /\ \A i \in Invocations : WF_vars(i \in service.timers /\ Timeout(i))
===============================================================================
