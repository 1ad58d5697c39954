------------------------------ MODULE ResourceReads ------------------------------
(***************************************************************************)
(* Reading resources (resource_service.ts): an https body for a napplet,   *)
(* or a Blossom blob, which is tried at the local cache and then at each   *)
(* configured server, every hop of it under the destination policy, with   *)
(* deadlines and a cancel that may come at any time.                       *)
(*                                                                         *)
(* A request is of several items (bytesMany; bytes is a request of one).   *)
(* It comes from a napplet, through the service of main.ts, or from the    *)
(* artifact resolver, through BlossomCache (blossom_cache.ts); the two are *)
(* built with different policies.  External: names, servers, and what they *)
(* answer; the connection of pinned_fetch.ts.  Of a body the model keeps   *)
(* whether it is the one asked for, another, or one cut off.               *)
(***************************************************************************)
EXTENDS Naturals

CONSTANTS Items,         \* items of a request: at most 16
          Upstreams,     \* bound: configured Blossom servers; candidate 0 is the local cache
          MaxRedirects

ASSUME ReadsAssumption == Upstreams \in Nat \ {0} /\ MaxRedirects \in Nat

VARIABLES
  reader,      \* who asks: "napplet", "artifact", or "nobody"
  localKnown,  \* a local cache was discovered at startup: #localCacheUrl
  servers,     \* how many configured servers are usable
  reads,       \* reads[i]: the item's read
  cancelled,   \* the caller's signal is aborted
  late         \* the request's deadline has passed: deadlineSignal

readsVars == <<reader, localKnown, servers, reads, cancelled, late>>
asked == <<reader, localKnown, servers, cancelled, late>>

Candidates == 0..Upstreams
Errors == {"blocked-by-policy", "not-found", "network-error", "too-large",
           "decode-failed", "timeout", "cancelled"}
Bodies == {"right", "other", "cut"}
Read == [step : {"unasked", "authorizing", "fetching", "reading", "settled"},
         blossom : BOOLEAN,              \* a blob by its hash, or an https url
         at : Candidates, hops : 0..MaxRedirects,
         timedOut : BOOLEAN,             \* the candidate's own deadline has passed
         localAsked : BOOLEAN,           \* history: a request went to the local cache
         result : {"none"} \cup Errors \cup Bodies]

Unasked == [step |-> "unasked", blossom |-> FALSE, at |-> 0, hops |-> 0, timedOut |-> FALSE,
            localAsked |-> FALSE, result |-> "none"]
UnderWay(i) == reads[i].step \in {"authorizing", "fetching", "reading"}

\* The signal of a fetch: the candidate's for a blob, the request's for a url.
SignalAborted(i) ==
  cancelled \/ IF reads[i].blossom THEN reads[i].timedOut ELSE late
AbortError == IF cancelled THEN "cancelled" ELSE "timeout"

ReadsInit ==
  /\ reader = "nobody" /\ localKnown \in BOOLEAN /\ servers = 0
  /\ reads = [i \in Items |-> Unasked]
  /\ cancelled = FALSE /\ late = FALSE

Now(i, read) == reads' = [reads EXCEPT ![i] = read] /\ UNCHANGED asked

-----------------------------------------------------------------------------
(***************************************************************************)
(* How a read begins, goes on when a candidate failed, and ends.           *)
(***************************************************************************)
Ends(read, result) == [read EXCEPT !.step = "settled", !.result = result]

\* The candidates of a blob are the local cache, if known, and the servers.
Begun(blossom, n) ==
  LET read == [Unasked EXCEPT !.step = "authorizing", !.blossom = blossom,
                              !.at = IF blossom /\ localKnown THEN 0 ELSE 1]
  IN  IF blossom /\ ~localKnown /\ n = 0 THEN Ends(read, "not-found") ELSE read

\* bytes, bytesMany, and BlossomCache.fetch, which asks for one blob
AskReads(who, items) ==
  /\ reader = "nobody" /\ items # {}
  /\ reader' = who
  /\ servers' \in 0..Upstreams
  /\ \E blobs \in SUBSET items :
       /\ who = "artifact" => blobs = items
       /\ reads' = [i \in Items |-> IF i \in items THEN Begun(i \in blobs, servers') ELSE Unasked]
  /\ UNCHANGED <<localKnown, cancelled, late>>

NextCandidate(read) == [read EXCEPT !.step = "authorizing", !.at = @ + 1,
                                    !.hops = 0, !.timedOut = FALSE]

\* Mutant: a candidate's own deadline ends the read as well.
StopsAtTimeout(read) == cancelled \/ read.timedOut

\* A failed candidate ends the read of a caller that is gone.
Stops(read) == cancelled

Failed(read, error) ==
  IF read.blossom /\ ~Stops(read) /\ read.at < servers THEN NextCandidate(read)
  ELSE Ends(read, error)

\* Another hash than the one asked for: the next candidate, cancelled or not.
Mismatched(read) ==
  IF read.at < servers THEN NextCandidate(read) ELSE Ends(read, "decode-failed")

\* All items are settled: the caller is answered.
ReadsAnswered ==
  /\ reader # "nobody" /\ \A i \in Items : ~UnderWay(i)
  /\ reader' = "nobody"
  /\ reads' = [i \in Items |-> Unasked]
  /\ cancelled' = FALSE /\ late' = FALSE /\ servers' = 0
  /\ UNCHANGED localKnown

-----------------------------------------------------------------------------
(***************************************************************************)
(* Cancelling and deadlines.  The artifact resolver gives no signal, and   *)
(* no deadline but the candidates'.                                        *)
(***************************************************************************)
CancelReads ==
  /\ reader = "napplet" /\ ~cancelled
  /\ cancelled' = TRUE
  /\ UNCHANGED <<reader, localKnown, servers, reads, late>>

ReadsAreLate ==
  /\ reader = "napplet" /\ ~late
  /\ late' = TRUE
  /\ UNCHANGED <<reader, localKnown, servers, reads, cancelled>>

CandidateIsLate(i) ==
  /\ UnderWay(i) /\ reads[i].blossom /\ ~reads[i].timedOut
  /\ Now(i, [reads[i] EXCEPT !.timedOut = TRUE])

-----------------------------------------------------------------------------
(***************************************************************************)
(* ResourceDestinationPolicy.authorize.  A policy knows the local cache    *)
(* when it is built with its address; main.ts builds its service without.  *)
(***************************************************************************)
PolicyKnowsLocal == reader = "artifact"

\* A redirect keeps the destination class of the url it came from.
IsLocal(i) == reads[i].blossom /\ reads[i].at = 0

Authorized(i) ==
  /\ reads[i].step = "authorizing"
  /\ IsLocal(i) => PolicyKnowsLocal
  /\ Now(i, [reads[i] EXCEPT !.step = "fetching", !.localAsked = @ \/ IsLocal(i)])

Blocked(i) ==
  /\ reads[i].step = "authorizing"
  /\ IsLocal(i) /\ PolicyKnowsLocal => reads[i].hops > 0
  /\ Now(i, Failed(reads[i], "blocked-by-policy"))

(***************************************************************************)
(* The fetch: an answer, a redirect, or an error.                          *)
(***************************************************************************)
Answers(i) == reads[i].step = "fetching" /\ ~SignalAborted(i)

Responds(i) == Answers(i) /\ Now(i, [reads[i] EXCEPT !.step = "reading"])

Hop(read) == [read EXCEPT !.step = "authorizing", !.hops = @ + 1]

Redirected(read) ==
  IF read.hops < MaxRedirects THEN Hop(read) ELSE Failed(read, "blocked-by-policy")

Redirects(i) == Answers(i) /\ Now(i, Redirected(reads[i]))

FetchFails(i, error) == Answers(i) /\ Now(i, Failed(reads[i], error))

FetchAborts(i) ==
  /\ reads[i].step = "fetching" /\ SignalAborted(i)
  /\ Now(i, Failed(reads[i], AbortError))

(***************************************************************************)
(* The body.  An abort cancels its reader, and the read that was waiting   *)
(* is told that the body is done: it is cut off where it was.  A napplet   *)
(* is given only media types the portal knows (#release).                  *)
(***************************************************************************)

MatchesHash(read, body) == body = "right"

Released(read, body, known) ==
  IF known \/ reader = "artifact" THEN Ends(read, body) ELSE Ends(read, "decode-failed")

BodyDone(i, body, known) ==
  Now(i, IF reads[i].blossom /\ ~MatchesHash(reads[i], body) THEN Mismatched(reads[i])
         ELSE Released(reads[i], body, known))

BodyEnds(i, body, known) ==
  /\ reads[i].step = "reading" /\ ~SignalAborted(i)
  /\ BodyDone(i, body, known)

BodyCut(i, body, known) ==
  /\ reads[i].step = "reading" /\ SignalAborted(i)
  /\ BodyDone(i, body, known)

BodyFails(i, error) ==
  /\ reads[i].step = "reading" /\ ~SignalAborted(i)
  /\ Now(i, Failed(reads[i], error))

-----------------------------------------------------------------------------
CallerStep ==
  \/ \E who \in {"napplet", "artifact"}, items \in SUBSET Items : AskReads(who, items)
  \/ CancelReads \/ ReadsAreLate

ReadStep(i) ==
  \/ CandidateIsLate(i)
  \/ Authorized(i) \/ Blocked(i)
  \/ Responds(i) \/ Redirects(i) \/ FetchAborts(i)
  \/ \E error \in {"not-found", "network-error", "too-large"} : FetchFails(i, error)
  \/ \E body \in {"right", "other"}, known \in BOOLEAN : BodyEnds(i, body, known)
  \/ \E body \in Bodies, known \in BOOLEAN : BodyCut(i, body, known)
  \/ \E error \in {"network-error", "too-large"} : BodyFails(i, error)

ReadsNext == CallerStep \/ ReadsAnswered \/ \E i \in Items : ReadStep(i)

\* Deadlines pass, an aborted fetch or body ends, and names are resolved or not.
ReadsFairness ==
  /\ WF_readsVars(ReadsAreLate) /\ WF_readsVars(ReadsAnswered)
  /\ \A i \in Items :
       /\ WF_readsVars(CandidateIsLate(i))
       /\ WF_readsVars(Authorized(i) \/ Blocked(i))
       /\ WF_readsVars(FetchAborts(i) \/ \E body \in Bodies, known \in BOOLEAN :
                                           BodyCut(i, body, known))

ReadsSpec == ReadsInit /\ [][ReadsNext]_readsVars /\ ReadsFairness

-----------------------------------------------------------------------------
(***************************************************************************)
(* The requests and their reads have their types; no read follows more     *)
(* redirects than the policy's bound, whichever candidates it tries        *)
(* (tests/resource_service_test.ts:59).                                    *)
(***************************************************************************)
ReadsTypeOK ==
  /\ reader \in {"napplet", "artifact", "nobody"}
  /\ {localKnown, cancelled, late} \subseteq BOOLEAN
  /\ servers \in 0..Upstreams
  /\ reads \in [Items -> Read]

(***************************************************************************)
(* A blob that is handed out is the one whose hash was asked for: neither  *)
(* a corrupt cache, a redirect nor a body cut off by a deadline changes    *)
(* that (tests/resource_service_test.ts:160).                              *)
(***************************************************************************)
BlobsAreGenuine ==
  \A i \in Items : reads[i].blossom => reads[i].result \notin {"other", "cut"}

(***************************************************************************)
(* A blob that is reported missing was asked of every candidate, unless    *)
(* its caller is gone: neither the cache nor a server that hangs, blocks   *)
(* or fails hides a server that has it                                     *)
(* (tests/resource_service_test.ts:195 "try every configured server").     *)
(***************************************************************************)
EveryServerIsTried ==
  \A i \in Items :
    reads[i].blossom /\ ~cancelled /\ reads[i].result \in Errors \ {"decode-failed"}
      => reads[i].at >= servers

(***************************************************************************)
(* Every request is answered, whatever hangs: the deadlines reach each     *)
(* wait of each item.                                                      *)
(***************************************************************************)
ReadsEnd ==
  ReadsFairness => reader # "nobody" ~> reader = "nobody"

(***************************************************************************)
(* "Runtime tries configured local Blossom cache servers before upstream   *)
(* Blossom sources" (.planning/milestones/v1.1-REQUIREMENTS.md:28): what   *)
(* is read from a server was asked of the local cache first.               *)
(***************************************************************************)
LocalIsFirst ==
  \A i \in Items : localKnown /\ reads[i].blossom /\ reads[i].at > 0
                     /\ reads[i].step = "reading" => reads[i].localAsked

(***************************************************************************)
(* A blob is delivered right or, after every server, not at all.           *)
(***************************************************************************)
BlobsAreServed == BlobsAreGenuine /\ EveryServerIsTried
===============================================================================
