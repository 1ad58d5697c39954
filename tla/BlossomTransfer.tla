---------------------------- MODULE BlossomTransfer ----------------------------
(***************************************************************************)
(* Uploads of a napplet's blob (blossom_transfer.ts): to every required    *)
(* server, a few at a time, then to the local cache; the upload is         *)
(* complete when all the required servers accepted it, and its status is   *)
(* kept for its owner for a while.                                         *)
(*                                                                         *)
(* External: the servers, the destination policy, and the signer of the    *)
(* authorization; the last two do not see the abort signal.  Of a server's *)
(* answer the model keeps what validateDescriptor tells apart: the blob's  *)
(* own descriptor or another one.                                          *)
(***************************************************************************)
EXTENDS Naturals, Sequences, FiniteSets

CONSTANTS Uploads, Owners,   \* uploads under way at one time, and their owners
          RequiredServers,   \* number of required servers
          Concurrency,       \* workers of mapBounded
          MaxStatuses,       \* statuses kept of an owner: 64
          NoOwner

ASSUME TransferAssumption ==
  /\ {RequiredServers, Concurrency, MaxStatuses} \subseteq Nat \ {0}
  /\ RequiredServers <= 8 /\ Concurrency <= 4
  /\ NoOwner \notin Owners

VARIABLES
  uploading,  \* uploading[u]: whose upload it is
  hasLocal,   \* hasLocal[u]: the request names a local server
  aborted,    \* aborted[u]: the signal's reason, or "no"
  attempts,   \* attempts[u][k]: the k-th required server's, and the local one's at 0
  holders,    \* holders[u]: history: the servers that took the blob in
  statuses    \* #statuses, and in each whether all required servers hold the blob

transferVars == <<uploading, hasLocal, aborted, attempts, holders, statuses>>

Required == 1..RequiredServers
Failure == {"network-error", "timeout", "rejected", "descriptor-mismatch", "cancelled"}
UnderWayStages == {"asking", "putting"}
Settled == Failure \cup {"accepted"}
UploadStatus == [complete : BOOLEAN, everywhere : BOOLEAN]

NotAttempted == [k \in 0..RequiredServers |-> "not-attempted"]
Stage(u, stage) == {k \in 0..RequiredServers : attempts[u][k] \in stage}

TransferInit ==
  /\ uploading = [u \in Uploads |-> NoOwner]
  /\ hasLocal = [u \in Uploads |-> FALSE]
  /\ aborted = [u \in Uploads |-> "no"]
  /\ attempts = [u \in Uploads |-> NotAttempted]
  /\ holders = [u \in Uploads |-> {}]
  /\ statuses = [o \in Owners |-> <<>>]

-----------------------------------------------------------------------------

FirstOf == [k \in 0..RequiredServers |->
              IF k \in 1..Concurrency THEN "asking" ELSE "not-attempted"]

\* upload, up to the first await
Upload(u, o, local) ==
  /\ uploading[u] = NoOwner
  /\ uploading' = [uploading EXCEPT ![u] = o]
  /\ hasLocal' = [hasLocal EXCEPT ![u] = local]
  /\ aborted' = [aborted EXCEPT ![u] = "no"]
  /\ attempts' = [attempts EXCEPT ![u] = FirstOf]
  /\ holders' = [holders EXCEPT ![u] = {}]
  /\ UNCHANGED statuses

\* The request's signal aborts, or 30 s have passed.
SignalAborts(u, reason) ==
  /\ uploading[u] # NoOwner /\ aborted[u] = "no"
  /\ aborted' = [aborted EXCEPT ![u] = reason]
  /\ UNCHANGED <<uploading, hasLocal, attempts, holders, statuses>>

Settles(k, now, outcome) == [now EXCEPT ![k] = outcome]

\* What is begun when an attempt settles: the next required server, or the local
\* one once all of them accepted.
NotBegun(now) == {k \in Required : now[k] = "not-attempted"}
AllAccepted(now) == \A k \in Required : now[k] = "accepted"

LocalIsDue(u, now) == hasLocal[u] /\ AllAccepted(now)

Goes(u, k, outcome) ==
  LET now == Settles(k, attempts[u], outcome)
      least == CHOOSE n \in NotBegun(now) : \A m \in NotBegun(now) : n <= m
  IN  attempts' = [attempts EXCEPT ![u] =
        IF k # 0 /\ NotBegun(now) # {} THEN [now EXCEPT ![least] = "asking"]
        ELSE IF k # 0 /\ LocalIsDue(u, now) THEN [now EXCEPT ![0] = "asking"]
        ELSE now]

(***************************************************************************)
(* uploadRequired: the destination is authorized and the event signed,     *)
(* then the signal is looked at and the blob sent.                         *)
(***************************************************************************)
DestinationAuthorized(u, k) ==
  /\ attempts[u][k] = "asking"
  /\ IF aborted[u] # "no" THEN Goes(u, k, aborted[u])
     ELSE attempts' = [attempts EXCEPT ![u][k] = "putting"]
  /\ UNCHANGED <<uploading, hasLocal, aborted, holders, statuses>>

AuthorizationFails(u, k, outcome) ==
  /\ attempts[u][k] = "asking" /\ outcome \in {"rejected", "network-error"}
  /\ Goes(u, k, outcome)
  /\ UNCHANGED <<uploading, hasLocal, aborted, holders, statuses>>

\* validateDescriptor
Validated(same) == IF same THEN "accepted" ELSE "descriptor-mismatch"

\* The server answers with a descriptor, of this blob if it took it in.
Answered(u, k, same) ==
  /\ attempts[u][k] = "putting"
  /\ holders' = [holders EXCEPT ![u] = IF same THEN @ \cup {k} ELSE @]
  /\ Goes(u, k, Validated(same))
  /\ UNCHANGED <<uploading, hasLocal, aborted, statuses>>

\* The request fails, of itself or of its signal; the server may have the blob.
RequestFails(u, k, arrived) ==
  /\ attempts[u][k] = "putting"
  /\ holders' = [holders EXCEPT ![u] = IF arrived THEN @ \cup {k} ELSE @]
  /\ Goes(u, k, IF aborted[u] # "no" THEN aborted[u] ELSE "network-error")
  /\ UNCHANGED <<uploading, hasLocal, aborted, statuses>>

-----------------------------------------------------------------------------
(***************************************************************************)
(* What is kept.  #prune drops the statuses that are ten minutes old, the  *)
(* n oldest, and what is beyond the bound.                                 *)
(***************************************************************************)
Latest(kept) == IF Len(kept) <= MaxStatuses THEN kept
                ELSE SubSeq(kept, Len(kept) - MaxStatuses + 1, Len(kept))
Pruned(o, n) == SubSeq(statuses[o], n + 1, Len(statuses[o]))

\* Mutant: the bound is not kept.
RetainedAll(o, n, status) == Append(Pruned(o, n), status)

\* #retain
Retained(o, n, status) == Latest(Append(Pruned(o, n), status))

\* Mutant: the first server's outcome stands for all.
CompleteByFirst(u) == attempts[u][1] = "accepted"

Complete(u) == AllAccepted(attempts[u])

UploadOver(u) == uploading[u] # NoOwner /\ Stage(u, UnderWayStages) = {}

\* The end of upload, also of one whose owner was cleared meanwhile.
UploadEnds(u) ==
  /\ UploadOver(u)
  /\ LET o == uploading[u]
     IN  \E n \in 0..Len(statuses[o]) : statuses' = [statuses EXCEPT ![o] =
           Retained(o, n, [complete |-> Complete(u), everywhere |-> Required \subseteq holders[u]])]
  /\ uploading' = [uploading EXCEPT ![u] = NoOwner]
  /\ attempts' = [attempts EXCEPT ![u] = NotAttempted]
  /\ UNCHANGED <<hasLocal, aborted, holders>>

\* status, which prunes too
AskStatus(o) ==
  /\ \E n \in 1..Len(statuses[o]) : statuses' = [statuses EXCEPT ![o] = Pruned(o, n)]
  /\ UNCHANGED <<uploading, hasLocal, aborted, attempts, holders>>

ClearOwner(o) ==
  /\ statuses[o] # <<>>
  /\ statuses' = [statuses EXCEPT ![o] = <<>>]
  /\ UNCHANGED <<uploading, hasLocal, aborted, attempts, holders>>

-----------------------------------------------------------------------------
ServerStep(u, k) ==
  \/ DestinationAuthorized(u, k)
  \/ \E outcome \in Failure : AuthorizationFails(u, k, outcome)
  \/ \E same \in BOOLEAN : Answered(u, k, same)
  \/ \E arrived \in BOOLEAN : RequestFails(u, k, arrived)

UploadStep(u) ==
  \/ \E o \in Owners, local \in BOOLEAN : Upload(u, o, local)
  \/ \E reason \in {"cancelled", "timeout"} : SignalAborts(u, reason)
  \/ \E k \in 0..RequiredServers : ServerStep(u, k)
  \/ UploadEnds(u)

TransferNext == \/ \E u \in Uploads : UploadStep(u)
                \/ \E o \in Owners : AskStatus(o) \/ ClearOwner(o)

\* The deadline passes, and a request whose signal aborted fails.  Policy and
\* signer are assumed to answer: nothing ends the wait for them.
TransferFairness == \A u \in Uploads :
  /\ WF_transferVars(SignalAborts(u, "timeout"))
  /\ WF_transferVars(UploadEnds(u))
  /\ \A k \in 0..RequiredServers :
       /\ WF_transferVars(DestinationAuthorized(u, k))
       /\ WF_transferVars(aborted[u] # "no" /\ RequestFails(u, k, FALSE))

TransferSpec == TransferInit /\ [][TransferNext]_transferVars /\ TransferFairness

-----------------------------------------------------------------------------
(***************************************************************************)
(* The service's records have their types; at most 64 statuses are kept of *)
(* an owner, whatever ends in which order.                                 *)
(***************************************************************************)
TransferTypeOK ==
  /\ uploading \in [Uploads -> Owners \cup {NoOwner}]
  /\ hasLocal \in [Uploads -> BOOLEAN]
  /\ aborted \in [Uploads -> {"no", "cancelled", "timeout"}]
  /\ attempts \in [Uploads -> [0..RequiredServers ->
                                 UnderWayStages \cup Settled \cup {"not-attempted"}]]
  /\ holders \in [Uploads -> SUBSET (0..RequiredServers)]
  /\ \A o \in Owners : statuses[o] \in Seq(UploadStatus) /\ Len(statuses[o]) <= MaxStatuses

(***************************************************************************)
(* The napplet is told "complete" only of a blob that every required       *)
(* server has, whichever failed, timed out or answered for another blob.   *)
(***************************************************************************)
CompleteIsEverywhere ==
  \A o \in Owners : \A n \in 1..Len(statuses[o]) :
    statuses[o][n].complete => statuses[o][n].everywhere

(***************************************************************************)
(* The local cache is offered no blob the required servers did not all     *)
(* take, so a failed upload leaves nothing the portal would go on serving  *)
(* (tests/blossom_transfer_test.ts:191 "skips local").                     *)
(***************************************************************************)
CacheFollowsServers ==
  \A u \in Uploads : attempts[u][0] # "not-attempted" => Required \subseteq holders[u]

(***************************************************************************)
(* However many required servers there are, no more than the workers'      *)
(* number are asked at one time, and none is left out while workers idle.  *)
(***************************************************************************)
WorkersAreBusy ==
  \A u \in Uploads : uploading[u] # NoOwner =>
    /\ Cardinality(Stage(u, UnderWayStages)) <= Concurrency
    /\ Stage(u, {"not-attempted"}) \cap Required # {}
         => Cardinality(Stage(u, UnderWayStages)) = Concurrency

(***************************************************************************)
(* Every upload ends with a result: a server that never answers costs the  *)
(* deadline once, not once for each server.                                *)
(***************************************************************************)
UploadsEnd ==
  TransferFairness => \A u \in Uploads : uploading[u] # NoOwner ~> uploading[u] = NoOwner

(***************************************************************************)
(* What an upload claims, to its owner and to the local cache, the servers *)
(* have done, with as many at work as there may be.                        *)
(***************************************************************************)
UploadsAreTrue == CompleteIsEverywhere /\ CacheFollowsServers /\ WorkersAreBusy
===============================================================================
