------------------------- MODULE BlobTransfers_proofs -------------------------
(***************************************************************************)
(* Proofs about BlossomTransfer and ResourceReads: blobs on their way to   *)
(* servers, for any number of servers, workers and uploads, and on their   *)
(* way from them, for any items, servers and redirects.                    *)
(***************************************************************************)
EXTENDS BlossomTransfer, ResourceReads, FiniteSetTheorems, SequenceTheorems, TLAPS

-----------------------------------------------------------------------------
(***************************************************************************)
(* ResourceReads.  What BlobsAreServed says of one read.                   *)
(***************************************************************************)
ServedRight(read) == read.blossom => read.result \notin {"other", "cut"}
TriedAll(read, last, gone) ==
  read.blossom /\ ~gone /\ read.result \in Errors \ {"decode-failed"} => read.at >= last

Served(read) == read \in Read /\ ServedRight(read) /\ TriedAll(read, servers, cancelled)

ReadsInv == ReadsTypeOK /\ \A i \in Items : Served(reads[i])

LEMMA ReadsInvServes == ReadsInv => ReadsTypeOK /\ BlobsAreServed
BY DEF ReadsInv, Served, ServedRight, TriedAll, BlobsAreServed, BlobsAreGenuine, EveryServerIsTried

LEMMA UnaskedServed ==
  Unasked \in Read /\ ServedRight(Unasked) /\ \A n, g : TriedAll(Unasked, n, g)
<1>1. Unasked \in Read
  BY ReadsAssumption DEF Unasked, Read, Candidates
<1> QED  BY <1>1 DEF Unasked, ServedRight, TriedAll, Errors

LEMMA BegunServed ==
  ASSUME localKnown \in BOOLEAN, NEW n \in 0..Upstreams, NEW blossom \in BOOLEAN
  PROVE  /\ Begun(blossom, n) \in Read /\ ServedRight(Begun(blossom, n))
         /\ \A g : TriedAll(Begun(blossom, n), n, g)
<1> DEFINE first == IF blossom /\ localKnown THEN 0 ELSE 1
           read == [Unasked EXCEPT !.step = "authorizing", !.blossom = blossom, !.at = first]
<1>1. read \in Read /\ read.result = "none" /\ (~localKnown => read.at = 1)
  <2>1. {0, 1} \subseteq Candidates /\ 0 \in 0..MaxRedirects
    BY ReadsAssumption DEF Candidates
  <2>2. first \in {0, 1} /\ (~localKnown => first = 1)
    OBVIOUS
  <2> HIDE DEF first
  <2>3. read \in Read /\ read.result = "none" /\ read.at = first
    BY <2>1, <2>2 DEF Unasked, Read
  <2> QED  BY <2>2, <2>3
<1>2. Begun(blossom, n) = IF blossom /\ ~localKnown /\ n = 0 THEN Ends(read, "not-found") ELSE read
  BY DEF Begun
<1> HIDE DEF read
<1>3. CASE blossom /\ ~localKnown /\ n = 0
  <2>1. Ends(read, "not-found") \in Read /\ Ends(read, "not-found").result = "not-found"
        /\ Ends(read, "not-found").at = 1
    BY <1>1, <1>3 DEF Ends, Read, Errors
  <2> QED  BY <2>1, <1>2, <1>3 DEF ServedRight, TriedAll
<1>4. CASE ~(blossom /\ ~localKnown /\ n = 0)
  BY <1>1, <1>2, <1>4 DEF ServedRight, TriedAll, Errors
<1> QED  BY <1>3, <1>4

\* A failed candidate leaves a read that is served right.
LEMMA NextServed ==
  ASSUME NEW read, Served(read), read.at < servers, servers \in 0..Upstreams
  PROVE  Served(NextCandidate(read))
<1>1. read \in Read /\ read.at + 1 \in Candidates /\ 0 \in 0..MaxRedirects
  BY ReadsAssumption DEF Served, Read, Candidates
<1>2. NextCandidate(read) \in Read /\ NextCandidate(read).result = read.result
      /\ NextCandidate(read).blossom = read.blossom /\ NextCandidate(read).at = read.at + 1
  BY <1>1 DEF NextCandidate, Read
<1>3. read.at \in Nat /\ servers \in Nat
  BY <1>1, ReadsAssumption DEF Read, Candidates
<1>4. TriedAll(NextCandidate(read), servers, cancelled)
  <2>1. read.at + 1 >= servers \/ ~(read.at >= servers)
    BY <1>3
  <2> QED  BY <1>2, <1>3, <2>1 DEF Served, TriedAll
<1> QED  BY <1>2, <1>4 DEF Served, ServedRight

LEMMA EndsServed ==
  ASSUME NEW read, Served(read), NEW result \in Errors \cup Bodies,
         read.blossom => result \notin {"other", "cut"},
         read.blossom /\ ~cancelled /\ result \in Errors \ {"decode-failed"} => read.at >= servers
  PROVE  Served(Ends(read, result))
<1>1. Ends(read, result) \in Read /\ Ends(read, result).result = result
      /\ Ends(read, result).blossom = read.blossom /\ Ends(read, result).at = read.at
  BY DEF Ends, Read, Served
<1> QED  BY <1>1 DEF Served, ServedRight, TriedAll

LEMMA FailedServed ==
  ASSUME NEW read, Served(read), NEW error \in Errors, servers \in 0..Upstreams
  PROVE  Served(Failed(read, error))
<1>1. read.at \in Nat /\ servers \in Nat /\ error \notin {"other", "cut"}
  BY ReadsAssumption DEF Served, Read, Candidates, Errors
<1>2. CASE read.blossom /\ ~Stops(read) /\ read.at < servers
  BY <1>2, NextServed DEF Failed
<1>3. CASE ~(read.blossom /\ ~Stops(read) /\ read.at < servers)
  BY <1>1, <1>3, EndsServed DEF Failed, Stops
<1> QED  BY <1>2, <1>3

\* One read moves, and stays right.
LEMMA NowServed ==
  ASSUME ReadsInv, NEW i \in Items, NEW read, Served(read), Now(i, read)
  PROVE  ReadsInv'
<1>1. reads \in [Items -> Read] /\ read \in Read
  BY DEF ReadsInv, ReadsTypeOK, Served
<1>2. reads' = [reads EXCEPT ![i] = read] /\ UNCHANGED <<reader, localKnown, servers, cancelled, late>>
  BY DEF Now, asked
<1>3. reads' \in [Items -> Read]
  BY <1>1, <1>2
<1>4. ReadsTypeOK'
  BY <1>2, <1>3 DEF ReadsInv, ReadsTypeOK
<1>5. ASSUME NEW j \in Items  PROVE Served(reads[j])'
  <2>1. reads'[j] = IF i = j THEN read ELSE reads[j]
    BY <1>1, <1>2
  <2>2. Served(reads'[j])
    BY <2>1 DEF ReadsInv
  <2> QED  BY <2>2, <1>2 DEF Served
<1> QED  BY <1>4, <1>5 DEF ReadsInv

LEMMA BodyServed ==
  ASSUME ReadsInv, NEW i \in Items, NEW body \in Bodies, NEW known, BodyDone(i, body, known)
  PROVE  ReadsInv'
<1> DEFINE r == reads[i]
<1>1. Served(r) /\ servers \in 0..Upstreams
  BY DEF ReadsInv, ReadsTypeOK
<1>2. r.at \in Nat /\ servers \in Nat
  BY <1>1, ReadsAssumption DEF Served, Read, Candidates
<1>3. "decode-failed" \in Errors \cup Bodies /\ body \in Errors \cup Bodies
      /\ "right" \notin Errors /\ body \notin Errors
  BY DEF Errors, Bodies
<1>4. CASE r.blossom /\ ~MatchesHash(r, body)
  <2>1. Served(Mismatched(r))
    <3>1. CASE r.at < servers
      BY <1>1, <3>1, NextServed DEF Mismatched
    <3>2. CASE ~(r.at < servers)
      BY <1>1, <1>3, <3>2, EndsServed DEF Mismatched
    <3> QED  BY <3>1, <3>2
  <2>2. Now(i, Mismatched(r))
    BY <1>4 DEF BodyDone
  <2> HIDE DEF r
  <2> QED  BY <2>1, <2>2, NowServed
<1>5. CASE ~(r.blossom /\ ~MatchesHash(r, body))
  <2>1. r.blossom => body = "right"
    BY <1>5 DEF MatchesHash
  <2>2. Served(Released(r, body, known))
    <3>1. Served(Ends(r, body))
      BY <1>1, <1>3, <2>1, EndsServed
    <3>2. Served(Ends(r, "decode-failed"))
      BY <1>1, <1>3, EndsServed
    <3> QED  BY <3>1, <3>2 DEF Released
  <2>3. Now(i, Released(r, body, known))
    BY <1>5 DEF BodyDone
  <2> HIDE DEF r
  <2> QED  BY <2>2, <2>3, NowServed
<1> QED  BY <1>4, <1>5

LEMMA ReadStepServed ==
  ASSUME ReadsInv, NEW i \in Items, ReadStep(i)
  PROVE  ReadsInv'
<1> DEFINE r == reads[i]
<1>1. Served(r) /\ r \in Read /\ servers \in 0..Upstreams
  BY DEF ReadsInv, ReadsTypeOK, Served
<1>2. ASSUME NEW error \in Errors, Now(i, Failed(r, error))  PROVE ReadsInv'
  <2>1. Served(Failed(r, error))
    BY <1>1, FailedServed
  <2> QED  BY <1>2, <2>1, NowServed
<1>3. CASE CandidateIsLate(i)
  <2> DEFINE x == [r EXCEPT !.timedOut = TRUE]
  <2>1. x \in Read /\ x.result = r.result /\ x.blossom = r.blossom /\ x.at = r.at
    BY <1>1 DEF Read
  <2>2. Served(x)
    BY <1>1, <2>1 DEF Served, ServedRight, TriedAll
  <2>3. Now(i, x)
    BY <1>3 DEF CandidateIsLate
  <2> HIDE DEF x
  <2> QED  BY <2>2, <2>3, NowServed
<1>4. CASE Authorized(i)
  <2> DEFINE x == [r EXCEPT !.step = "fetching", !.localAsked = @ \/ IsLocal(i)]
  <2>1. IsLocal(i) \in BOOLEAN
    BY <1>1 DEF IsLocal, Read
  <2>2. x \in Read /\ x.result = r.result /\ x.blossom = r.blossom /\ x.at = r.at
    BY <1>1, <2>1 DEF Read
  <2>3. Served(x)
    BY <1>1, <2>2 DEF Served, ServedRight, TriedAll
  <2>4. Now(i, x)
    BY <1>4 DEF Authorized
  <2> HIDE DEF x
  <2> QED  BY <2>3, <2>4, NowServed
<1>5. CASE Blocked(i)
  BY <1>2, <1>5 DEF Blocked, Errors
<1>6. CASE Responds(i)
  <2> DEFINE x == [r EXCEPT !.step = "reading"]
  <2>1. x \in Read /\ x.result = r.result /\ x.blossom = r.blossom /\ x.at = r.at
    BY <1>1 DEF Read
  <2>2. Served(x)
    BY <1>1, <2>1 DEF Served, ServedRight, TriedAll
  <2>3. Now(i, x)
    BY <1>6 DEF Responds
  <2> HIDE DEF x
  <2> QED  BY <2>2, <2>3, NowServed
<1>7. CASE Redirects(i)
  <2>1. CASE r.hops < MaxRedirects
    <3>1. r.hops + 1 \in 0..MaxRedirects
      BY <1>1, <2>1, ReadsAssumption DEF Read
    <3>2. Hop(r) \in Read /\ Hop(r).result = r.result /\ Hop(r).blossom = r.blossom
          /\ Hop(r).at = r.at
      BY <1>1, <3>1 DEF Hop, Read
    <3>3. Served(Hop(r))
      BY <1>1, <3>2 DEF Served, ServedRight, TriedAll
    <3>4. Now(i, Hop(r))
      BY <1>7, <2>1 DEF Redirects, Redirected
    <3> QED  BY <3>3, <3>4, NowServed
  <2>2. CASE ~(r.hops < MaxRedirects)
    BY <1>2, <1>7, <2>2 DEF Redirects, Redirected, Errors
  <2> QED  BY <2>1, <2>2
<1>8. CASE FetchAborts(i)
  BY <1>2, <1>8 DEF FetchAborts, AbortError, Errors
<1>9. CASE \E error \in {"not-found", "network-error", "too-large"} : FetchFails(i, error)
  BY <1>2, <1>9 DEF FetchFails, Errors
<1>10. CASE \E body \in {"right", "other"}, known \in BOOLEAN : BodyEnds(i, body, known)
  BY <1>10, BodyServed DEF BodyEnds, Bodies
<1>11. CASE \E body \in Bodies, known \in BOOLEAN : BodyCut(i, body, known)
  BY <1>11, BodyServed DEF BodyCut
<1>12. CASE \E error \in {"network-error", "too-large"} : BodyFails(i, error)
  BY <1>2, <1>12 DEF BodyFails, Errors
<1> QED  BY <1>3, <1>4, <1>5, <1>6, <1>7, <1>8, <1>9, <1>10, <1>11, <1>12 DEF ReadStep

LEMMA InitReads == ReadsInit => ReadsInv
<1> SUFFICES ASSUME ReadsInit  PROVE ReadsInv
  OBVIOUS
<1>1. reads \in [Items -> Read] /\ \A i \in Items : reads[i] = Unasked
  BY UnaskedServed DEF ReadsInit
<1>2. 0 \in 0..Upstreams
  BY ReadsAssumption
<1>3. ReadsTypeOK
  BY <1>1, <1>2 DEF ReadsInit, ReadsTypeOK
<1> QED  BY <1>1, <1>3, UnaskedServed DEF ReadsInv, Served

\* A caller asks: its items begin, with the candidates there are.
LEMMA AskServed ==
  ASSUME ReadsInv, NEW who \in {"napplet", "artifact"}, NEW items \in SUBSET Items,
         AskReads(who, items)
  PROVE  ReadsInv'
<1>1. localKnown \in BOOLEAN /\ servers' \in 0..Upstreams /\ reader' = who
      /\ UNCHANGED <<localKnown, cancelled, late>>
  BY DEF AskReads, ReadsInv, ReadsTypeOK
<1>2. PICK blobs \in SUBSET items : reads' = [i \in Items |->
        IF i \in items THEN Begun(i \in blobs, servers') ELSE Unasked]
  BY DEF AskReads
<1>3. ASSUME NEW i \in Items
      PROVE  reads'[i] \in Read /\ ServedRight(reads'[i]) /\ TriedAll(reads'[i], servers', cancelled')
  <2>1. reads'[i] = IF i \in items THEN Begun(i \in blobs, servers') ELSE Unasked
    BY <1>2
  <2>2. (i \in blobs) \in BOOLEAN
    OBVIOUS
  <2>3. Begun(i \in blobs, servers') \in Read /\ ServedRight(Begun(i \in blobs, servers'))
        /\ TriedAll(Begun(i \in blobs, servers'), servers', cancelled')
    BY <1>1, <2>2, BegunServed
  <2> QED  BY <2>1, <2>3, UnaskedServed
<1>4. reads' \in [Items -> Read]
  <2>1. DOMAIN reads' = Items /\ reads' = [i \in Items |-> reads'[i]]
    BY <1>2
  <2> QED  BY <2>1, <1>3
<1>5. ReadsTypeOK'
  BY <1>1, <1>4 DEF ReadsInv, ReadsTypeOK
<1> QED  BY <1>3, <1>5 DEF ReadsInv, Served

LEMMA ReadsStep == ReadsInv /\ [ReadsNext]_readsVars => ReadsInv'
<1> SUFFICES ASSUME ReadsInv, [ReadsNext]_readsVars  PROVE ReadsInv'
  OBVIOUS
<1>1. CASE \E who \in {"napplet", "artifact"}, items \in SUBSET Items : AskReads(who, items)
  BY <1>1, AskServed
<1>2. CASE CancelReads
  BY <1>2 DEF CancelReads, ReadsInv, ReadsTypeOK, Served, TriedAll
<1>3. CASE ReadsAreLate
  BY <1>3 DEF ReadsAreLate, ReadsInv, ReadsTypeOK, Served, TriedAll
<1>4. CASE ReadsAnswered
  <2>1. reads' \in [Items -> Read] /\ \A i \in Items : reads'[i] = Unasked
    BY <1>4, UnaskedServed DEF ReadsAnswered
  <2>2. 0 \in 0..Upstreams
    BY ReadsAssumption
  <2>3. ReadsTypeOK'
    BY <1>4, <2>1, <2>2 DEF ReadsAnswered, ReadsInv, ReadsTypeOK
  <2> QED  BY <2>1, <2>3, UnaskedServed DEF ReadsInv, Served
<1>5. CASE \E i \in Items : ReadStep(i)
  BY <1>5, ReadStepServed
<1>6. CASE UNCHANGED readsVars
  BY <1>6 DEF readsVars, ReadsInv, ReadsTypeOK, Served, TriedAll
<1> QED  BY <1>1, <1>2, <1>3, <1>4, <1>5, <1>6 DEF ReadsNext, CallerStep

LEMMA ReadsSafe == ReadsInit /\ [][ReadsNext]_readsVars => [](ReadsTypeOK /\ BlobsAreServed)
BY InitReads, ReadsStep, ReadsInvServes, PTL

(***************************************************************************)
(* A blob handed out is the one asked for, and one that is reported        *)
(* missing was asked of every candidate while its caller was there, for    *)
(* any number of items, servers and redirects (resource_service.ts).       *)
(***************************************************************************)
THEOREM BlobsAreAlwaysServed == ReadsSpec => [](ReadsTypeOK /\ BlobsAreServed)
BY ReadsSafe, PTL DEF ReadsSpec
-----------------------------------------------------------------------------
(***************************************************************************)
(* BlossomTransfer.  What a server accepted it holds, and the local one is *)
(* asked when all have; as many are at work as there may be.               *)
(***************************************************************************)
AcceptedIsHeld(row, held) == \A k \in Required : row[k] = "accepted" => k \in held
LocalComesLast(row) == row[0] # "not-attempted" => AllAccepted(row)

AtWork(row) == {k \in 0..RequiredServers : row[k] \in UnderWayStages}
WorkersBusy(row) ==
  /\ Cardinality(AtWork(row)) <= Concurrency
  /\ NotBegun(row) # {} => Cardinality(AtWork(row)) = Concurrency

Rows == [0..RequiredServers -> UnderWayStages \cup Settled \cup {"not-attempted"}]
StatusesOK ==
  \A o \in Owners : /\ statuses[o] \in Seq(UploadStatus) /\ Len(statuses[o]) <= MaxStatuses
                    /\ \A n \in 1..Len(statuses[o]) :
                         statuses[o][n].complete => statuses[o][n].everywhere

UploadOK(u) ==
  /\ AcceptedIsHeld(attempts[u], holders[u])
  /\ LocalComesLast(attempts[u])
  /\ uploading[u] # NoOwner => WorkersBusy(attempts[u])

TransferInv ==
  /\ TransferTypeOK
  /\ DOMAIN statuses = Owners
  /\ StatusesOK
  /\ \A u \in Uploads : UploadOK(u)

LEMMA TransferInvTells == TransferInv => TransferTypeOK /\ UploadsAreTrue
<1> SUFFICES ASSUME TransferInv  PROVE TransferTypeOK /\ UploadsAreTrue
  OBVIOUS
<1>1. TransferTypeOK /\ CompleteIsEverywhere
  BY DEF TransferInv, StatusesOK, CompleteIsEverywhere
<1>2. ASSUME NEW u \in Uploads, attempts[u][0] # "not-attempted"  PROVE Required \subseteq holders[u]
  BY <1>2 DEF TransferInv, UploadOK, LocalComesLast, AcceptedIsHeld, AllAccepted
<1>3. ASSUME NEW u \in Uploads, uploading[u] # NoOwner
      PROVE  /\ Cardinality(Stage(u, UnderWayStages)) <= Concurrency
             /\ Stage(u, {"not-attempted"}) \cap Required # {}
                  => Cardinality(Stage(u, UnderWayStages)) = Concurrency
  <2>1. Stage(u, UnderWayStages) = AtWork(attempts[u])
    BY DEF Stage, AtWork
  <2>2. Stage(u, {"not-attempted"}) \cap Required = NotBegun(attempts[u])
    BY TransferAssumption DEF Stage, NotBegun, Required
  <2> QED  BY <1>3, <2>1, <2>2 DEF TransferInv, UploadOK, WorkersBusy
<1> QED  BY <1>1, <1>2, <1>3 DEF UploadsAreTrue, CacheFollowsServers, WorkersAreBusy

LEMMA ServersType ==
  /\ RequiredServers \in Nat /\ Concurrency \in Nat /\ MaxStatuses \in Nat
  /\ 1 <= RequiredServers /\ 1 <= Concurrency /\ 1 <= MaxStatuses
  /\ 0 \in 0..RequiredServers /\ 0 \notin Required /\ Required \subseteq 0..RequiredServers
BY TransferAssumption DEF Required

LEMMA AtWorkFinite ==
  ASSUME NEW row
  PROVE  IsFiniteSet(AtWork(row)) /\ Cardinality(AtWork(row)) \in Nat
<1>1. IsFiniteSet(0..RequiredServers)
  BY ServersType, FS_Interval
<1>2. IsFiniteSet(AtWork(row))
  BY <1>1, FS_Subset DEF AtWork
<1> QED  BY <1>2, FS_CardinalityType

\* The servers asked first are as many as the workers, or all there are.
LEMMA FirstBusy == /\ FirstOf \in Rows /\ WorkersBusy(FirstOf) /\ LocalComesLast(FirstOf)
                   /\ \A held : AcceptedIsHeld(FirstOf, held)
<1>1. FirstOf \in Rows /\ FirstOf[0] = "not-attempted"
  BY ServersType DEF FirstOf, Rows, UnderWayStages
<1>2. \A k \in 0..RequiredServers :
        /\ k \in 1..Concurrency => FirstOf[k] = "asking"
        /\ k \notin 1..Concurrency => FirstOf[k] = "not-attempted"
  BY DEF FirstOf
<1>3. AtWork(FirstOf) = {k \in 0..RequiredServers : k \in 1..Concurrency}
  BY <1>2 DEF AtWork, UnderWayStages
<1>4. IsFiniteSet(1..Concurrency) /\ Cardinality(1..Concurrency) = Concurrency
  BY ServersType, FS_Interval
<1>5. Cardinality(AtWork(FirstOf)) <= Concurrency
  <2>1. AtWork(FirstOf) \in SUBSET (1..Concurrency)
    BY <1>3
  <2> QED  BY <1>4, <2>1, FS_Subset
<1>6. ASSUME NotBegun(FirstOf) # {}  PROVE Cardinality(AtWork(FirstOf)) = Concurrency
  <2>1. PICK m \in Required : FirstOf[m] = "not-attempted"
    BY <1>6 DEF NotBegun
  <2>2. m \in 1..RequiredServers /\ m \notin 1..Concurrency
    BY <1>2, <2>1, ServersType DEF Required
  <2>3. Concurrency < RequiredServers
    BY <2>2, ServersType
  <2>4. AtWork(FirstOf) = 1..Concurrency
    BY <1>3, <2>3, ServersType
  <2> QED  BY <2>4, <1>4
<1>7. \A held : AcceptedIsHeld(FirstOf, held)
  BY <1>2, ServersType DEF AcceptedIsHeld
<1>8. WorkersBusy(FirstOf)
  BY <1>5, <1>6 DEF WorkersBusy
<1> QED  BY <1>1, <1>7, <1>8 DEF LocalComesLast

\* What an attempt's end begins.
After(u, k, outcome) ==
  LET now == Settles(k, attempts[u], outcome)
      least == CHOOSE n \in NotBegun(now) : \A m \in NotBegun(now) : n <= m
  IN  IF k # 0 /\ NotBegun(now) # {} THEN [now EXCEPT ![least] = "asking"]
      ELSE IF k # 0 /\ LocalIsDue(u, now) THEN [now EXCEPT ![0] = "asking"]
      ELSE now

LEMMA GoesAfter ==
  ASSUME NEW u, NEW k, NEW outcome, Goes(u, k, outcome)
  PROVE  attempts' = [attempts EXCEPT ![u] = After(u, k, outcome)]
BY DEF Goes, After

\* A non-empty set of servers has a first.
LEMMA LeastThere ==
  ASSUME NEW S \in SUBSET Required, S # {}
  PROVE  (CHOOSE n \in S : \A m \in S : n <= m) \in S
<1> DEFINE R == {ss \in Nat \X Nat : ss[1] < ss[2]}
<1>1. IsWellFoundedOn(R, Nat)
  BY NatLessThanWellFounded DEF OpToRel
<1>2. S \subseteq Nat
  BY DEF Required
<1> HIDE DEF R
<1>3. PICK n \in S : \A m \in S : ~ (<<m, n>> \in R)
  BY <1>1, <1>2, WFMin
<1>4. ASSUME NEW m \in S  PROVE n <= m
  <2>1. <<m, n>> \in Nat \X Nat
    BY <1>2
  <2>2. ~ (<<m, n>>[1] < <<m, n>>[2])
    BY <1>3, <2>1 DEF R
  <2> QED  BY <2>1, <2>2
<1> QED  BY <1>4

LEMMA AfterKeeps ==
  ASSUME NEW u \in Uploads, attempts[u] \in Rows, UploadOK(u),
         NEW k \in 0..RequiredServers, attempts[u][k] \in UnderWayStages,
         NEW outcome \in Settled, NEW held, holders[u] \subseteq held,
         k # 0 /\ outcome = "accepted" => k \in held
  PROVE  /\ After(u, k, outcome) \in Rows
         /\ AcceptedIsHeld(After(u, k, outcome), held)
         /\ LocalComesLast(After(u, k, outcome))
         /\ uploading[u] # NoOwner => WorkersBusy(After(u, k, outcome))
<1> DEFINE row == attempts[u]
           now == Settles(k, row, outcome)
           least == CHOOSE n \in NotBegun(now) : \A m \in NotBegun(now) : n <= m
           after == After(u, k, outcome)
<1>1. row \in Rows /\ now = [row EXCEPT ![k] = outcome]
  BY DEF Settles
<1>2. now \in Rows
  BY <1>1 DEF Rows
<1>3. \A m \in 0..RequiredServers : now[m] = IF m = k THEN outcome ELSE row[m]
  BY <1>1 DEF Rows
<1>4. outcome \notin UnderWayStages /\ outcome # "not-attempted"
      /\ "asking" \in UnderWayStages /\ "accepted" \notin UnderWayStages
      /\ "not-attempted" \notin UnderWayStages /\ row[k] \in UnderWayStages
  BY DEF Settled, Failure, UnderWayStages
<1>5. after = IF k # 0 /\ NotBegun(now) # {} THEN [now EXCEPT ![least] = "asking"]
              ELSE IF k # 0 /\ LocalIsDue(u, now) THEN [now EXCEPT ![0] = "asking"]
              ELSE now
  BY DEF After
<1>6. NotBegun(now) = NotBegun(row)
  BY <1>3, <1>4, ServersType DEF NotBegun
<1>7. NotBegun(now) # {} => least \in NotBegun(now)
  <2>1. NotBegun(now) \in SUBSET Required
    BY DEF NotBegun
  <2> QED  BY <2>1, LeastThere
<1>8. AcceptedIsHeld(row, holders[u]) /\ LocalComesLast(row) /\ (uploading[u] # NoOwner => WorkersBusy(row))
  BY DEF UploadOK
<1>9. AtWork(now) = AtWork(row) \ {k} /\ k \in AtWork(row)
  BY <1>3, <1>4 DEF AtWork
<1>10. IsFiniteSet(AtWork(row)) /\ Cardinality(AtWork(row)) \in Nat
       /\ IsFiniteSet(AtWork(now)) /\ Cardinality(AtWork(now)) \in Nat
       /\ Cardinality(AtWork(now)) = Cardinality(AtWork(row)) - 1
  BY <1>9, AtWorkFinite, FS_RemoveElement
<1>11. AcceptedIsHeld(now, held)
  BY <1>3, <1>4, <1>8, ServersType DEF AcceptedIsHeld
<1>12. k # 0 => row[0] = "not-attempted" /\ now[0] = "not-attempted"
  <2>1. k # 0 => ~AllAccepted(row)
    BY <1>4 DEF AllAccepted, Required
  <2> QED  BY <2>1, <1>3, <1>8, ServersType DEF LocalComesLast
<1> HIDE DEF row, now, least, after
<1>13. CASE k # 0 /\ NotBegun(now) # {}
  <2>1. least \in Required /\ now[least] = "not-attempted" /\ least # 0
        /\ least \in 0..RequiredServers
    BY <1>7, <1>13, ServersType DEF NotBegun
  <2>2. after = [now EXCEPT ![least] = "asking"]
    BY <1>5, <1>13
  <2>3. after \in Rows /\ \A m \in 0..RequiredServers :
          after[m] = IF m = least THEN "asking" ELSE now[m]
    BY <1>2, <1>4, <2>1, <2>2 DEF Rows
  <2>4. AtWork(after) = AtWork(now) \cup {least} /\ least \notin AtWork(now)
    BY <2>1, <2>3, <1>4 DEF AtWork
  <2>5. Cardinality(AtWork(after)) = Cardinality(AtWork(row))
    <3>1. Cardinality(AtWork(after)) = Cardinality(AtWork(now)) + 1
      BY <2>4, <1>10, FS_AddElement
    <3> QED  BY <3>1, <1>10
  <2>6. uploading[u] # NoOwner => WorkersBusy(after)
    BY <2>5, <1>6, <1>8, <1>13 DEF WorkersBusy
  <2>7. AcceptedIsHeld(after, held)
    BY <2>3, <1>4, <1>11, ServersType DEF AcceptedIsHeld
  <2>8. LocalComesLast(after)
    BY <2>1, <2>3, <1>12, <1>13, ServersType DEF LocalComesLast
  <2> QED  BY <2>3, <2>6, <2>7, <2>8 DEF after
<1>14. CASE k # 0 /\ NotBegun(now) = {} /\ LocalIsDue(u, now)
  <2>1. after = [now EXCEPT ![0] = "asking"] /\ AllAccepted(now)
    BY <1>5, <1>14 DEF LocalIsDue
  <2>2. after \in Rows /\ \A m \in 0..RequiredServers :
          after[m] = IF m = 0 THEN "asking" ELSE now[m]
    BY <1>2, <1>4, <2>1, ServersType DEF Rows
  <2>3. AtWork(after) = AtWork(now) \cup {0} /\ 0 \notin AtWork(now)
    BY <1>4, <1>12, <1>14, <2>2, ServersType DEF AtWork
  <2>4. Cardinality(AtWork(after)) = Cardinality(AtWork(row))
    <3>1. Cardinality(AtWork(after)) = Cardinality(AtWork(now)) + 1
      BY <2>3, <1>10, FS_AddElement
    <3> QED  BY <3>1, <1>10
  <2>5. NotBegun(after) = NotBegun(now)
    BY <2>2, ServersType DEF NotBegun
  <2>6. uploading[u] # NoOwner => WorkersBusy(after)
    BY <2>4, <2>5, <1>8, <1>14 DEF WorkersBusy
  <2>7. AcceptedIsHeld(after, held) /\ AllAccepted(after)
    BY <2>1, <2>2, <1>11, ServersType DEF AcceptedIsHeld, AllAccepted
  <2> QED  BY <2>2, <2>6, <2>7 DEF after, LocalComesLast
<1>15. CASE ~(k # 0 /\ NotBegun(now) # {}) /\ ~(k # 0 /\ LocalIsDue(u, now))
  <2>1. after = now
    BY <1>5, <1>15
  <2>2. LocalComesLast(now)
    <3>1. CASE k = 0
      <4>1. AllAccepted(row)
        BY <3>1, <1>4, <1>8 DEF LocalComesLast
      <4>2. AllAccepted(now)
        BY <3>1, <4>1, <1>3, ServersType DEF AllAccepted
      <4> QED  BY <4>2 DEF LocalComesLast
    <3>2. CASE k # 0
      BY <3>2, <1>12 DEF LocalComesLast
    <3> QED  BY <3>1, <3>2
  <2>3. NotBegun(now) = {}
    <3>1. CASE k = 0
      <4>1. AllAccepted(row)
        BY <3>1, <1>4, <1>8 DEF LocalComesLast
      <4> QED  BY <4>1, <1>6 DEF NotBegun, AllAccepted
    <3> QED  BY <3>1, <1>15
  <2>4. uploading[u] # NoOwner => Cardinality(AtWork(now)) <= Concurrency
    <3>1. uploading[u] # NoOwner => Cardinality(AtWork(row)) <= Concurrency
      BY <1>8 DEF WorkersBusy
    <3> QED  BY <3>1, <1>10, ServersType
  <2> QED  BY <1>2, <1>11, <2>1, <2>2, <2>3, <2>4 DEF after, WorkersBusy
<1> QED  BY <1>13, <1>14, <1>15

\* An attempt of one upload settles, and what the server holds is noted.
SettlesTo(u, k, outcome, held) ==
  /\ Goes(u, k, outcome)
  /\ holders' = [holders EXCEPT ![u] = held]
  /\ UNCHANGED <<uploading, hasLocal, aborted, statuses>>

MayHold(u, k, outcome, held) ==
  /\ held \in SUBSET (0..RequiredServers) /\ holders[u] \subseteq held
  /\ k # 0 /\ outcome = "accepted" => k \in held

LEMMA SettlesInv ==
  ASSUME TransferInv, NEW u \in Uploads, NEW k \in 0..RequiredServers,
         attempts[u][k] \in UnderWayStages, NEW outcome \in Settled, NEW held,
         SettlesTo(u, k, outcome, held), MayHold(u, k, outcome, held)
  PROVE  TransferInv'
<1> DEFINE after == After(u, k, outcome)
<1>1. attempts \in [Uploads -> Rows] /\ holders \in [Uploads -> SUBSET (0..RequiredServers)]
  BY DEF TransferInv, TransferTypeOK, Rows
<1>2. UploadOK(u) /\ attempts[u] \in Rows
  BY <1>1 DEF TransferInv
<1>3. /\ after \in Rows /\ AcceptedIsHeld(after, held) /\ LocalComesLast(after)
      /\ uploading[u] # NoOwner => WorkersBusy(after)
  BY <1>2, AfterKeeps DEF MayHold
<1>4. attempts' = [attempts EXCEPT ![u] = after] /\ holders' = [holders EXCEPT ![u] = held]
      /\ UNCHANGED <<uploading, hasLocal, aborted, statuses>>
      /\ held \in SUBSET (0..RequiredServers)
  BY GoesAfter DEF SettlesTo, MayHold
<1> HIDE DEF after
<1>5. attempts' \in [Uploads -> Rows] /\ holders' \in [Uploads -> SUBSET (0..RequiredServers)]
  BY <1>1, <1>3, <1>4
<1>6. TransferTypeOK'
  BY <1>4, <1>5 DEF TransferInv, TransferTypeOK, Rows
<1>7. ASSUME NEW v \in Uploads  PROVE UploadOK(v)'
  <2>1. attempts'[v] = (IF v = u THEN after ELSE attempts[v])
        /\ holders'[v] = (IF v = u THEN held ELSE holders[v]) /\ uploading'[v] = uploading[v]
    BY <1>1, <1>4
  <2>2. UploadOK(v)
    BY DEF TransferInv
  <2> QED  BY <1>3, <2>1, <2>2 DEF UploadOK
<1>8. StatusesOK' /\ DOMAIN statuses' = Owners
  BY <1>4 DEF TransferInv, StatusesOK
<1> QED  BY <1>6, <1>7, <1>8 DEF TransferInv

LEMMA ServerInv ==
  ASSUME TransferInv, NEW u \in Uploads, NEW k \in 0..RequiredServers, ServerStep(u, k)
  PROVE  TransferInv'
<1>1. attempts \in [Uploads -> Rows] /\ holders \in [Uploads -> SUBSET (0..RequiredServers)]
      /\ aborted[u] \in {"no", "cancelled", "timeout"}
  BY DEF TransferInv, TransferTypeOK, Rows
<1>2. {"asking", "putting"} \subseteq UnderWayStages /\ Failure \subseteq Settled
      /\ (aborted[u] # "no" => aborted[u] \in Failure)
      /\ {"network-error", "descriptor-mismatch"} \subseteq Failure /\ "accepted" \in Settled
      /\ "accepted" \notin Failure /\ "accepted" # "descriptor-mismatch"
  BY <1>1 DEF UnderWayStages, Failure, Settled
<1>3. holders = [holders EXCEPT ![u] = holders[u]] /\ holders[u] \in SUBSET (0..RequiredServers)
      /\ holders[u] \cup {k} \in SUBSET (0..RequiredServers)
  BY <1>1
<1>4. ASSUME NEW outcome \in Failure, attempts[u][k] = "asking", Goes(u, k, outcome),
             UNCHANGED <<uploading, hasLocal, aborted, holders, statuses>>
      PROVE  TransferInv'
  <2>1. SettlesTo(u, k, outcome, holders[u])
    BY <1>3, <1>4 DEF SettlesTo
  <2>2. attempts[u][k] \in UnderWayStages /\ outcome \in Settled /\ outcome # "accepted"
    BY <1>2, <1>4
  <2>3. MayHold(u, k, outcome, holders[u])
    BY <1>3, <2>2 DEF MayHold
  <2> QED  BY <2>1, <2>2, <2>3, SettlesInv
<1>5. CASE DestinationAuthorized(u, k)
  <2>1. CASE aborted[u] # "no"
    BY <1>2, <1>4, <1>5, <2>1 DEF DestinationAuthorized
  <2>2. CASE aborted[u] = "no"
    <3> DEFINE row == attempts[u]
               after == [row EXCEPT ![k] = "putting"]
    <3>1. row \in Rows /\ row[k] = "asking" /\ attempts' = [attempts EXCEPT ![u] = after]
          /\ UNCHANGED <<uploading, hasLocal, aborted, holders, statuses>>
      BY <1>1, <1>5, <2>2 DEF DestinationAuthorized
    <3>2. after \in Rows /\ \A m \in 0..RequiredServers :
            after[m] = IF m = k THEN "putting" ELSE row[m]
      BY <1>2, <3>1 DEF Rows
    <3>3. AtWork(after) = AtWork(row) /\ NotBegun(after) = NotBegun(row)
      BY <3>1, <3>2, ServersType DEF AtWork, NotBegun, UnderWayStages
    <3>4. (AcceptedIsHeld(row, holders[u]) => AcceptedIsHeld(after, holders[u]))
          /\ (AllAccepted(row) => AllAccepted(after))
          /\ (LocalComesLast(row) => LocalComesLast(after))
      BY <3>1, <3>2, ServersType DEF AcceptedIsHeld, AllAccepted, LocalComesLast
    <3> HIDE DEF after
    <3>5. attempts' \in [Uploads -> Rows]
      BY <1>1, <3>1, <3>2
    <3>6. TransferTypeOK'
      BY <3>1, <3>5 DEF TransferInv, TransferTypeOK, Rows
    <3>7. ASSUME NEW v \in Uploads  PROVE UploadOK(v)'
      <4>1. attempts'[v] = (IF v = u THEN after ELSE attempts[v])
            /\ holders'[v] = holders[v] /\ uploading'[v] = uploading[v]
        BY <1>1, <3>1
      <4>2. UploadOK(v)
        BY DEF TransferInv
      <4> QED  BY <3>3, <3>4, <4>1, <4>2 DEF UploadOK, WorkersBusy
    <3>8. StatusesOK' /\ DOMAIN statuses' = Owners
      BY <3>1 DEF TransferInv, StatusesOK
    <3> QED  BY <3>6, <3>7, <3>8 DEF TransferInv
  <2> QED  BY <2>1, <2>2
<1>6. CASE \E outcome \in Failure : AuthorizationFails(u, k, outcome)
  BY <1>4, <1>6 DEF AuthorizationFails
<1>7. ASSUME NEW same \in BOOLEAN, Answered(u, k, same)  PROVE TransferInv'
  <2>1. attempts[u][k] \in UnderWayStages /\ Goes(u, k, Validated(same))
        /\ UNCHANGED <<uploading, hasLocal, aborted, statuses>>
        /\ holders' = [holders EXCEPT ![u] = IF same THEN holders[u] \cup {k} ELSE holders[u]]
    BY <1>2, <1>7 DEF Answered
  <2>2. CASE same
    <3>1. SettlesTo(u, k, "accepted", holders[u] \cup {k})
      BY <2>1, <2>2 DEF SettlesTo, Validated
    <3>2. MayHold(u, k, "accepted", holders[u] \cup {k})
      BY <1>3 DEF MayHold
    <3> QED  BY <1>2, <2>1, <3>1, <3>2, SettlesInv
  <2>3. CASE ~same
    <3>1. SettlesTo(u, k, "descriptor-mismatch", holders[u])
      BY <2>1, <2>3 DEF SettlesTo, Validated
    <3>2. MayHold(u, k, "descriptor-mismatch", holders[u])
      BY <1>2, <1>3 DEF MayHold
    <3> QED  BY <1>2, <2>1, <3>1, <3>2, SettlesInv
  <2> QED  BY <2>2, <2>3
<1>8. ASSUME NEW arrived \in BOOLEAN, RequestFails(u, k, arrived)  PROVE TransferInv'
  <2> DEFINE outcome == IF aborted[u] # "no" THEN aborted[u] ELSE "network-error"
             held == IF arrived THEN holders[u] \cup {k} ELSE holders[u]
  <2>1. attempts[u][k] \in UnderWayStages /\ Goes(u, k, outcome)
        /\ UNCHANGED <<uploading, hasLocal, aborted, statuses>>
        /\ holders' = [holders EXCEPT ![u] = held]
    BY <1>2, <1>8 DEF RequestFails
  <2>2. outcome \in Settled /\ outcome # "accepted"
    BY <1>2
  <2>3. SettlesTo(u, k, outcome, held)
    BY <2>1 DEF SettlesTo
  <2>4. MayHold(u, k, outcome, held)
    BY <1>3, <2>2 DEF MayHold
  <2> HIDE DEF outcome, held
  <2> QED  BY <2>1, <2>2, <2>3, <2>4, SettlesInv
<1> QED  BY <1>5, <1>6, <1>7, <1>8 DEF ServerStep

LEMMA UploadInv ==
  ASSUME TransferInv, NEW u \in Uploads, NEW o \in Owners, NEW local \in BOOLEAN,
         Upload(u, o, local)
  PROVE  TransferInv'
<1>1. attempts \in [Uploads -> Rows] /\ holders \in [Uploads -> SUBSET (0..RequiredServers)]
      /\ uploading \in [Uploads -> Owners \cup {NoOwner}] /\ hasLocal \in [Uploads -> BOOLEAN]
      /\ aborted \in [Uploads -> {"no", "cancelled", "timeout"}]
  BY DEF TransferInv, TransferTypeOK, Rows
<1>2. attempts' = [attempts EXCEPT ![u] = FirstOf] /\ holders' = [holders EXCEPT ![u] = {}]
      /\ uploading' = [uploading EXCEPT ![u] = o] /\ hasLocal' = [hasLocal EXCEPT ![u] = local]
      /\ aborted' = [aborted EXCEPT ![u] = "no"] /\ statuses' = statuses
  BY DEF Upload
<1>3. attempts' \in [Uploads -> Rows] /\ holders' \in [Uploads -> SUBSET (0..RequiredServers)]
  BY <1>1, <1>2, FirstBusy
<1>4. uploading' \in [Uploads -> Owners \cup {NoOwner}] /\ hasLocal' \in [Uploads -> BOOLEAN]
      /\ aborted' \in [Uploads -> {"no", "cancelled", "timeout"}]
  BY <1>1, <1>2
<1>5. TransferTypeOK'
  BY <1>2, <1>3, <1>4 DEF TransferInv, TransferTypeOK, Rows
<1>6. ASSUME NEW v \in Uploads  PROVE UploadOK(v)'
  <2>1. v # u => attempts'[v] = attempts[v] /\ holders'[v] = holders[v] /\ uploading'[v] = uploading[v]
    BY <1>1, <1>2
  <2>2. attempts'[u] = FirstOf /\ holders'[u] = {}
    BY <1>1, <1>2
  <2>3. UploadOK(v)
    BY DEF TransferInv
  <2> QED  BY <2>1, <2>2, <2>3, FirstBusy DEF UploadOK
<1>7. StatusesOK' /\ DOMAIN statuses' = Owners
  BY <1>2 DEF TransferInv, StatusesOK
<1> QED  BY <1>5, <1>6, <1>7 DEF TransferInv

LEMMA SignalInv ==
  ASSUME TransferInv, NEW u \in Uploads, NEW reason \in {"cancelled", "timeout"},
         SignalAborts(u, reason)
  PROVE  TransferInv'
<1>1. aborted' \in [Uploads -> {"no", "cancelled", "timeout"}]
  BY DEF SignalAborts, TransferInv, TransferTypeOK
<1>2. UNCHANGED <<uploading, hasLocal, attempts, holders, statuses>>
  BY DEF SignalAborts
<1> QED  BY <1>1, <1>2 DEF TransferInv, TransferTypeOK, StatusesOK, UploadOK

\* A status list that is cut at its front is one.
StatusList(list) ==
  list \in Seq(UploadStatus) /\ \A n \in 1..Len(list) : list[n].complete => list[n].everywhere

LEMMA PrunedList ==
  ASSUME NEW list, StatusList(list), NEW n \in Nat
  PROVE  /\ StatusList(SubSeq(list, n + 1, Len(list)))
         /\ Len(SubSeq(list, n + 1, Len(list))) <= Len(list)
<1> DEFINE rest == SubSeq(list, n + 1, Len(list))
<1>1. list \in Seq(UploadStatus) /\ Len(list) \in Nat
  BY LenProperties DEF StatusList
<1>2. \A i \in (n + 1)..Len(list) : list[i] \in UploadStatus
  BY <1>1, ElementOfSeq
<1>3. rest \in Seq(UploadStatus)
      /\ Len(rest) = (IF n + 1 <= Len(list) THEN Len(list) - (n + 1) + 1 ELSE 0)
      /\ \A i \in 1 .. (Len(list) - (n + 1) + 1) : rest[i] = list[(n + 1) + i - 1]
  <2>1. n + 1 \in Int /\ Len(list) \in Int
    BY <1>1
  <2> DEFINE m == n + 1
             last == Len(list)
  <2> HIDE DEF m, last
  <2>2. /\ SubSeq(list, m, last) \in Seq(UploadStatus)
        /\ Len(SubSeq(list, m, last)) = (IF m <= last THEN last - m + 1 ELSE 0)
        /\ \A i \in 1 .. last - m + 1 : SubSeq(list, m, last)[i] = list[m + i - 1]
    <3>1. m \in Int /\ last \in Int /\ \A i \in m .. last : list[i] \in UploadStatus
      BY <1>2, <2>1 DEF m, last
    <3> QED  BY <3>1, SubSeqProperties
  <2> QED  BY <2>2 DEF m, last
<1> HIDE DEF rest
<1>4. ASSUME NEW i \in 1..Len(rest)  PROVE rest[i].complete => rest[i].everywhere
  <2>1. i \in 1 .. (Len(list) - (n + 1) + 1) /\ (n + 1) + i - 1 \in 1..Len(list)
    BY <1>1, <1>3
  <2> QED  BY <1>3, <2>1 DEF StatusList
<1>5. Len(rest) <= Len(list)
  BY <1>1, <1>3
<1> QED  BY <1>3, <1>4, <1>5 DEF rest, StatusList

LEMMA LatestList ==
  ASSUME NEW list, StatusList(list)
  PROVE  StatusList(Latest(list)) /\ Len(Latest(list)) <= MaxStatuses
<1>1. Len(list) \in Nat /\ list \in Seq(UploadStatus)
  BY LenProperties DEF StatusList
<1>2. CASE Len(list) <= MaxStatuses
  BY <1>2 DEF Latest
<1>3. CASE ~(Len(list) <= MaxStatuses)
  <2> DEFINE n == Len(list) - MaxStatuses
  <2>1. n \in Nat
    BY <1>1, <1>3, ServersType
  <2>2. Latest(list) = SubSeq(list, n + 1, Len(list))
    BY <1>3 DEF Latest
  <2>3. Len(SubSeq(list, n + 1, Len(list))) = IF n + 1 <= Len(list) THEN Len(list) - (n + 1) + 1 ELSE 0
    <3>1. \A i \in (n + 1)..Len(list) : list[i] \in UploadStatus
      BY <1>1, <2>1, ElementOfSeq
    <3>2. n + 1 \in Int /\ Len(list) \in Int
      BY <1>1, <2>1
    <3> HIDE DEF n
    <3> QED  BY <3>1, <3>2, SubSeqProperties, Zenon
  <2>4. Len(Latest(list)) <= MaxStatuses
    BY <1>1, <1>3, <2>2, <2>3, ServersType
  <2> HIDE DEF n
  <2> QED  BY <2>1, <2>2, <2>4, PrunedList
<1> QED  BY <1>2, <1>3

LEMMA AppendedList ==
  ASSUME NEW list, StatusList(list), NEW status \in UploadStatus,
         status.complete => status.everywhere
  PROVE  StatusList(Append(list, status))
<1>1. Append(list, status) \in Seq(UploadStatus)
      /\ Len(list) \in Nat /\ Len(Append(list, status)) = Len(list) + 1
      /\ Append(list, status)[Len(list) + 1] = status
      /\ \A i \in 1..Len(list) : Append(list, status)[i] = list[i]
  BY AppendProperties, LenProperties DEF StatusList
<1>2. ASSUME NEW i \in 1..Len(Append(list, status))
      PROVE  Append(list, status)[i].complete => Append(list, status)[i].everywhere
  <2>1. i \in 1..Len(list) \/ i = Len(list) + 1
    BY <1>1
  <2> QED  BY <1>1, <2>1 DEF StatusList
<1> QED  BY <1>1, <1>2 DEF StatusList

\* One owner's statuses change.
LEMMA StatusesInv ==
  ASSUME TransferInv, NEW o \in Owners, NEW list, StatusList(list), Len(list) <= MaxStatuses,
         statuses' = [statuses EXCEPT ![o] = list]
  PROVE  /\ StatusesOK' /\ DOMAIN statuses' = Owners
         /\ \A p \in Owners : statuses'[p] \in Seq(UploadStatus) /\ Len(statuses'[p]) <= MaxStatuses
<1>1. DOMAIN statuses' = Owners
  BY DEF TransferInv
<1>2. ASSUME NEW p \in Owners
      PROVE  statuses'[p] = IF p = o THEN list ELSE statuses[p]
  BY DEF TransferInv
<1>3. ASSUME NEW p \in Owners
      PROVE  StatusList(statuses'[p]) /\ Len(statuses'[p]) <= MaxStatuses
  <2>1. StatusList(statuses[p]) /\ Len(statuses[p]) <= MaxStatuses
    BY DEF TransferInv, StatusesOK, StatusList
  <2> QED  BY <1>2, <2>1
<1> QED  BY <1>1, <1>3 DEF StatusesOK, StatusList

LEMMA UploadEndsInv ==
  ASSUME TransferInv, NEW u \in Uploads, UploadEnds(u)
  PROVE  TransferInv'
<1> DEFINE o == uploading[u]
           status == [complete |-> Complete(u), everywhere |-> Required \subseteq holders[u]]
<1>1. attempts \in [Uploads -> Rows] /\ uploading \in [Uploads -> Owners \cup {NoOwner}]
      /\ o \in Owners
  BY DEF TransferInv, TransferTypeOK, Rows, UploadEnds, UploadOver
<1>2. PICK n \in 0..Len(statuses[o]) :
        statuses' = [statuses EXCEPT ![o] = Retained(o, n, status)]
  BY DEF UploadEnds
<1>3. attempts' = [attempts EXCEPT ![u] = NotAttempted]
      /\ uploading' = [uploading EXCEPT ![u] = NoOwner] /\ UNCHANGED <<hasLocal, aborted, holders>>
  BY DEF UploadEnds
<1>4. status \in UploadStatus /\ (status.complete => status.everywhere)
  <2>1. Complete(u) \in BOOLEAN /\ (Required \subseteq holders[u]) \in BOOLEAN
    BY DEF Complete, AllAccepted
  <2>2. Complete(u) => Required \subseteq holders[u]
    BY DEF Complete, AllAccepted, TransferInv, UploadOK, AcceptedIsHeld
  <2> QED  BY <2>1, <2>2 DEF UploadStatus
<1>5. StatusList(statuses[o]) /\ n \in Nat
  BY <1>1 DEF TransferInv, StatusesOK, StatusList
<1> HIDE DEF status, o
<1>6. StatusList(Retained(o, n, status)) /\ Len(Retained(o, n, status)) <= MaxStatuses
  <2>1. StatusList(Pruned(o, n))
    BY <1>5, PrunedList DEF Pruned
  <2> QED  BY <1>4, <2>1, AppendedList, LatestList DEF Retained
<1>7. /\ StatusesOK' /\ DOMAIN statuses' = Owners
      /\ \A p \in Owners : statuses'[p] \in Seq(UploadStatus) /\ Len(statuses'[p]) <= MaxStatuses
  BY <1>1, <1>2, <1>6, StatusesInv
<1>8. NotAttempted \in Rows /\ (\A k \in 0..RequiredServers : NotAttempted[k] = "not-attempted")
  BY DEF NotAttempted, Rows
<1>9. attempts' \in [Uploads -> Rows] /\ uploading' \in [Uploads -> Owners \cup {NoOwner}]
  BY <1>1, <1>3, <1>8
<1>10. TransferTypeOK'
  BY <1>3, <1>7, <1>9 DEF TransferInv, TransferTypeOK, Rows
<1>11. ASSUME NEW v \in Uploads  PROVE UploadOK(v)'
  <2>1. UploadOK(v)
    BY DEF TransferInv
  <2>2. CASE v = u
    <3>1. attempts'[u] = NotAttempted /\ uploading'[u] = NoOwner
      BY <1>1, <1>3
    <3> QED  BY <1>8, <2>2, <3>1, ServersType DEF UploadOK, AcceptedIsHeld, LocalComesLast
  <2>3. CASE v # u
    <3>1. attempts'[v] = attempts[v] /\ uploading'[v] = uploading[v] /\ holders'[v] = holders[v]
      BY <1>1, <1>3, <2>3
    <3> QED  BY <2>1, <3>1 DEF UploadOK
  <2> QED  BY <2>2, <2>3
<1> QED  BY <1>7, <1>10, <1>11 DEF TransferInv

\* status and clearOwner change what is kept, and no upload.
LEMMA KeptInv ==
  ASSUME TransferInv, NEW o \in Owners, AskStatus(o) \/ ClearOwner(o)
  PROVE  TransferInv'
<1>1. UNCHANGED <<uploading, hasLocal, aborted, attempts, holders>>
  BY DEF AskStatus, ClearOwner
<1>2. StatusList(statuses[o]) /\ Len(statuses[o]) <= MaxStatuses /\ Len(statuses[o]) \in Nat
  BY LenProperties DEF TransferInv, StatusesOK, StatusList
<1>3. PICK list : /\ statuses' = [statuses EXCEPT ![o] = list]
                  /\ StatusList(list) /\ Len(list) <= MaxStatuses
  <2>1. CASE AskStatus(o)
    <3>1. PICK n \in 1..Len(statuses[o]) : statuses' = [statuses EXCEPT ![o] = Pruned(o, n)]
      BY <2>1 DEF AskStatus
    <3>2. n \in Nat
      BY <3>1, <1>2
    <3>3. StatusList(Pruned(o, n)) /\ Len(Pruned(o, n)) <= Len(statuses[o])
      BY <1>2, <3>2, PrunedList DEF Pruned
    <3>4. Len(Pruned(o, n)) \in Nat
      BY <3>3, LenProperties DEF StatusList
    <3>5. Len(Pruned(o, n)) <= MaxStatuses
      BY <1>2, <3>3, <3>4, ServersType
    <3> QED  BY <3>1, <3>3, <3>5
  <2>2. CASE ClearOwner(o)
    <3> DEFINE none == <<>>
    <3>1. none \in Seq(UploadStatus) /\ Len(none) = 0
      BY EmptySeq
    <3>2. statuses' = [statuses EXCEPT ![o] = none]
      BY <2>2 DEF ClearOwner
    <3> HIDE DEF none
    <3>3. StatusList(none) /\ Len(none) <= MaxStatuses
      BY <3>1, ServersType DEF StatusList
    <3> QED  BY <3>2, <3>3
  <2> QED  BY <2>1, <2>2
<1>4. /\ StatusesOK' /\ DOMAIN statuses' = Owners
      /\ \A p \in Owners : statuses'[p] \in Seq(UploadStatus) /\ Len(statuses'[p]) <= MaxStatuses
  BY <1>3, StatusesInv
<1> QED  BY <1>1, <1>4 DEF TransferInv, TransferTypeOK, UploadOK

LEMMA InitTransfer == TransferInit => TransferInv
<1> SUFFICES ASSUME TransferInit  PROVE TransferInv
  OBVIOUS
<1>1. NotAttempted \in Rows /\ (\A k \in 0..RequiredServers : NotAttempted[k] = "not-attempted")
  BY DEF NotAttempted, Rows
<1>2. \A o \in Owners : statuses[o] = <<>>
  BY DEF TransferInit
<1>3. <<>> \in Seq(UploadStatus) /\ Len(<<>>) = 0
  BY EmptySeq
<1>4. StatusesOK /\ DOMAIN statuses = Owners
  BY <1>2, <1>3, ServersType DEF TransferInit, StatusesOK
<1>5. TransferTypeOK
  <2>1. attempts \in [Uploads -> Rows]
    BY <1>1 DEF TransferInit
  <2> QED  BY <2>1, <1>4 DEF TransferInit, TransferTypeOK, Rows, StatusesOK
<1>6. ASSUME NEW u \in Uploads  PROVE UploadOK(u)
  <2>1. attempts[u] = NotAttempted /\ uploading[u] = NoOwner
    BY DEF TransferInit
  <2> QED  BY <1>1, <2>1, ServersType DEF UploadOK, AcceptedIsHeld, LocalComesLast
<1> QED  BY <1>4, <1>5, <1>6 DEF TransferInv

LEMMA TransferStep == TransferInv /\ [TransferNext]_transferVars => TransferInv'
<1> SUFFICES ASSUME TransferInv, [TransferNext]_transferVars  PROVE TransferInv'
  OBVIOUS
<1>1. CASE \E u \in Uploads : UploadStep(u)
  BY <1>1, UploadInv, SignalInv, ServerInv, UploadEndsInv DEF UploadStep
<1>2. CASE \E o \in Owners : AskStatus(o) \/ ClearOwner(o)
  BY <1>2, KeptInv
<1>3. CASE UNCHANGED transferVars
  BY <1>3 DEF transferVars, TransferInv, TransferTypeOK, StatusesOK, UploadOK
<1> QED  BY <1>1, <1>2, <1>3 DEF TransferNext

LEMMA TransfersSafe ==
  TransferInit /\ [][TransferNext]_transferVars => [](TransferTypeOK /\ UploadsAreTrue)
BY InitTransfer, TransferStep, TransferInvTells, PTL

(***************************************************************************)
(* An upload that says complete is with every required server, the local   *)
(* cache is offered only such a blob, and the workers are neither too many *)
(* nor idle, for any number of servers, workers and uploads                *)
(* (blossom_transfer.ts).                                                  *)
(***************************************************************************)
THEOREM UploadsAreAlwaysTrue == TransferSpec => [](TransferTypeOK /\ UploadsAreTrue)
BY TransfersSafe, PTL DEF TransferSpec
===============================================================================
