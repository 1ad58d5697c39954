---------------------------- MODULE SignerAccounts ----------------------------
(***************************************************************************)
(* Signing in and out: SignerConnectionService (signer_service.ts) runs    *)
(* one attempt at a time, main.ts keeps one reading of the account file,   *)
(* PortalAccounts (accounts.ts) holds the active account and has it        *)
(* written by AccountStore (account_store.ts).                             *)
(*                                                                         *)
(* External: the remote signer, which may answer late or never, and the    *)
(* file system.  Of the snapshot the active account is kept; a private-key *)
(* account differs from a remote one in being online after a restart.      *)
(* retryOffline has no caller and is left out.                             *)
(***************************************************************************)
EXTENDS Naturals, Sequences

CONSTANTS AccountIds, KeyAccounts,  \* accounts, and those that sign with a private key
          SignIns,                  \* ids of sign-ins
          NobodySignedIn, NoSignIn,
          MaxSnapshots                 \* bound: snapshots queued

ASSUME SignerAssumption ==
  /\ KeyAccounts \subseteq AccountIds /\ NobodySignedIn \notin AccountIds
  /\ NoSignIn \notin SignIns
  /\ MaxSnapshots \in Nat

VARIABLES
  activeId,      \* the manager's active account
  online,        \* #connectedAccountIds, remote accounts only
  accountsFile,  \* activeAccountId in the file
  snapshots,     \* snapshots queued in the store, with the sign-in that waits
  restored,      \* restoredSignerAccounts of main.ts: none, reading or done
  found,         \* while reading: the accounts it may have found in the file
  strayRead,     \* the same of a reading that was forgotten and goes on; {} if none does
  restoreAsked,  \* #restore of the service is set
  signIns,       \* signIns[j]: how far it is, and of which account
  attemptId,     \* #attempt
  pending,       \* #pending
  behind         \* history: the file missed a change, or was read before one was written

signerVars == <<activeId, online, accountsFile, snapshots, restored, found, strayRead,
                restoreAsked, signIns, attemptId, pending, behind>>
kept == <<activeId, online, accountsFile, snapshots, strayRead, behind>>

Kinds == {"connect", "direct"}   \* startNostrConnect; signInBunker and signInNsec
Steps == {"idle", "restoring", "stray", "opening", "waiting", "asking", "saving"}
SignInState == [step : Steps, kind : Kinds, account : AccountIds \cup {NobodySignedIn},
                aborted : BOOLEAN]
Unused == [step |-> "idle", kind |-> "direct", account |-> NobodySignedIn, aborted |-> FALSE]
SignInRuns(j) == signIns[j].step # "idle"

\* #identityForActive, and #project on top of it
AccountStatus == IF activeId = NobodySignedIn THEN "unavailable"
          ELSE IF activeId \in KeyAccounts \cup online THEN "active" ELSE "offline"
State == IF pending # "idle" THEN pending ELSE IF AccountStatus = "active" THEN "active" ELSE "idle"

SignerInit ==
  /\ activeId = NobodySignedIn /\ online = {}
  /\ accountsFile \in AccountIds \cup {NobodySignedIn}
  /\ snapshots = <<>> /\ restored = "none" /\ found = {} /\ strayRead = {}
  /\ restoreAsked = FALSE
  /\ signIns = [j \in SignIns |-> Unused]
  /\ attemptId = NoSignIn /\ pending = "idle"
  /\ behind = FALSE

-----------------------------------------------------------------------------
(***************************************************************************)
(* Requests.  Each that needs the account file shares one reading of it.   *)
(***************************************************************************)
Reads == IF restored = "none" THEN restored' = "reading" /\ found' = {accountsFile}
         ELSE UNCHANGED <<restored, found>>
AfterReading(kind) == IF kind = "connect" THEN "opening" ELSE "asking"
Asking(kind, a) == [step |-> IF restored = "done" THEN AfterReading(kind) ELSE "restoring",
                    kind |-> kind, account |-> a, aborted |-> FALSE]

\* restore, asked for by the status page and by runtime.start
Restore ==
  /\ ~restoreAsked
  /\ restoreAsked' = TRUE
  /\ Reads
  /\ UNCHANGED <<kept, signIns, attemptId, pending>>

\* start
StartAttempt(j) ==
  /\ ~SignInRuns(j)
  /\ attemptId = NoSignIn /\ State # "active"
  /\ attemptId' = j
  /\ pending' = "preparing"
  /\ signIns' = [signIns EXCEPT ![j] = Asking("connect", NobodySignedIn)]
  /\ Reads
  /\ UNCHANGED <<kept, restoreAsked>>

\* Mutant: the snapshot is of the account that was active before.
QueuedBefore(a, j) == Append(snapshots, [active |-> activeId, by |-> j])

\* #persist: the snapshot is taken when it is asked for.
Queued(a, j) == Append(snapshots, [active |-> a, by |-> j])

\* Mutant: the controller is not aborted.
ForgottenAttempt == signIns

\* cancel: what becomes of the sign-ins; waitForSigner heeds the signal, nothing else does.
AbortedAttempt == IF attemptId = NoSignIn \/ signIns[attemptId].step = "saving" THEN signIns
                  ELSE [signIns EXCEPT ![attemptId].aborted = TRUE]

CancelAttempt ==
  /\ attemptId # NoSignIn \/ pending # "idle"
  /\ signIns' = AbortedAttempt
  /\ attemptId' = NoSignIn /\ pending' = "idle"
  /\ UNCHANGED <<kept, restored, found, restoreAsked>>

\* signInBunker, signInNsec
SignInDirectly(j, a) ==
  /\ ~SignInRuns(j)
  /\ signIns' = [AbortedAttempt EXCEPT ![j] = Asking("direct", a)]
  /\ attemptId' = NoSignIn /\ pending' = "idle"
  /\ Reads
  /\ UNCHANGED <<kept, restoreAsked>>

\* main.ts puts something in the place of its reading: whoever awaits the reading
\* still does.  (Readings forgotten one after the other count as one.)
Strayed(t) ==
  [j \in SignIns |-> IF t[j].step = "restoring" THEN [t[j] EXCEPT !.step = "stray"] ELSE t[j]]
Forget(by) == restored' = by /\ found' = {} /\ strayRead' = strayRead \cup found

\* signOut: the account is gone before the snapshot without it is written.
SignOutAsked ==
  /\ Len(snapshots) < MaxSnapshots
  /\ signIns' = Strayed(AbortedAttempt)
  /\ attemptId' = NoSignIn /\ pending' = "idle"
  /\ Forget("none")
  /\ activeId' = NobodySignedIn
  /\ snapshots' = Queued(NobodySignedIn, NoSignIn)
  /\ UNCHANGED <<online, accountsFile, restoreAsked, behind>>

-----------------------------------------------------------------------------
(***************************************************************************)
(* How a sign-in ends, and what its caller shows: #run looks at the token, *)
(* signInBunker and signInNsec do not.                                     *)
(***************************************************************************)

SignInOver(t, j, failed) ==
  /\ signIns' = [t EXCEPT ![j] = Unused]
  /\ attemptId' = IF attemptId = j THEN NoSignIn ELSE attemptId
  /\ pending' = IF signIns[j].kind = "connect" /\ attemptId # j THEN pending
                ELSE IF failed THEN "error" ELSE "idle"

To(j, step) == signIns' = [signIns EXCEPT ![j].step = step]

(***************************************************************************)
(* PortalAccounts.restore: what was read, from a file that may be another  *)
(* by now, becomes the active account; a file without one changes nothing. *)
(***************************************************************************)
Takes(read) ==
  /\ activeId' = IF read = NobodySignedIn THEN activeId ELSE read
  /\ behind' = \/ behind
               \/ snapshots # <<>> /\ read # NobodySignedIn
               \/ read # accountsFile /\ activeId' # accountsFile

Resumed(step) == signIns' = [j \in SignIns |->
  IF signIns[j].step = step THEN [signIns[j] EXCEPT !.step = AfterReading(signIns[j].kind)]
  ELSE signIns[j]]

FileRead ==
  /\ restored = "reading"
  /\ Resumed("restoring")
  /\ restored' = "done" /\ found' = {}
  /\ \E read \in found : Takes(read)
  /\ UNCHANGED <<online, accountsFile, snapshots, strayRead, restoreAsked, attemptId, pending>>

StrayFileRead ==
  /\ strayRead' = {}
  /\ \E read \in strayRead : Takes(read)
  /\ Resumed("stray")
  /\ UNCHANGED <<online, accountsFile, snapshots, restored, found, restoreAsked, attemptId,
                 pending>>

RestoreFails ==
  /\ restored = "reading"
  /\ restored' = "none" /\ found' = {} /\ restoreAsked' = FALSE
  /\ signIns' = [j \in SignIns |-> IF signIns[j].step = "restoring" THEN Unused ELSE signIns[j]]
  /\ attemptId' = IF attemptId # NoSignIn /\ signIns[attemptId].step = "restoring"
                  THEN NoSignIn ELSE attemptId
  /\ pending' = IF \E j \in SignIns : signIns[j].step = "restoring"
                     /\ (signIns[j].kind = "direct" \/ attemptId = j)
                THEN "error" ELSE pending
  /\ UNCHANGED kept

\* The signer is open; #run shows the address unless the attempt is over.
Opened(j) ==
  /\ signIns[j].step = "opening"
  /\ To(j, "waiting")
  /\ pending' = IF attemptId = j THEN "awaiting" ELSE pending
  /\ UNCHANGED <<kept, restored, found, restoreAsked, attemptId>>

\* waitForSigner: the remote signer connects, for one of its accounts.
Approved(j, a) ==
  /\ signIns[j].step = "waiting" /\ ~signIns[j].aborted
  /\ a \notin KeyAccounts
  /\ signIns' = [signIns EXCEPT ![j].step = "asking", ![j].account = a]
  /\ UNCHANGED <<kept, restored, found, restoreAsked, attemptId, pending>>

\* It was cancelled, or 120 s have passed.
WaitEnds(j) ==
  /\ signIns[j].step = "waiting"
  /\ SignInOver(signIns, j, TRUE)
  /\ UNCHANGED <<kept, restored, found, restoreAsked>>

SignInFails(j) ==
  /\ signIns[j].step \in {"opening", "asking"}
  /\ SignInOver(signIns, j, TRUE)
  /\ UNCHANGED <<kept, restored, found, restoreAsked>>

\* getPublicKey is answered: #activate, and the snapshot is queued.
Activate(j) ==
  /\ signIns[j].step = "asking" /\ Len(snapshots) < MaxSnapshots
  /\ activeId' = signIns[j].account
  /\ online' = online \cup ({signIns[j].account} \ KeyAccounts)
  /\ snapshots' = Queued(signIns[j].account, j)
  /\ To(j, "saving")
  /\ UNCHANGED <<accountsFile, restored, found, strayRead, restoreAsked, attemptId, pending,
                 behind>>

(***************************************************************************)
(* The store writes the snapshots in their order.                          *)
(***************************************************************************)

SnapshotOver(failed) ==
  LET j == Head(snapshots).by
  IN  /\ snapshots' = Tail(snapshots)
      /\ IF j = NoSignIn
         THEN /\ restoreAsked' = (restoreAsked /\ failed)
              /\ UNCHANGED <<signIns, attemptId, pending>>
         ELSE /\ SignInOver(IF failed THEN signIns ELSE Strayed(signIns), j, failed)
              /\ UNCHANGED restoreAsked

\* What a reading may find if the file comes to name account a before it ends.
MayFind(reading, a) == IF reading = {} THEN {} ELSE reading \cup {a}

SnapshotWritten ==
  /\ snapshots # <<>>
  /\ accountsFile' = Head(snapshots).active
  /\ behind' = (behind /\ ~(accountsFile' = activeId /\ Tail(snapshots) = <<>>))
  /\ SnapshotOver(FALSE)
  /\ LET f == MayFind(found, Head(snapshots).active)
         s == MayFind(strayRead, Head(snapshots).active)
     IN  IF Head(snapshots).by = NoSignIn
         THEN found' = f /\ strayRead' = s /\ UNCHANGED restored
         ELSE restored' = "done" /\ found' = {} /\ strayRead' = s \cup f
  /\ UNCHANGED <<activeId, online>>

SnapshotFails ==
  /\ snapshots # <<>>
  /\ behind' = TRUE
  /\ SnapshotOver(TRUE)
  /\ UNCHANGED <<activeId, online, accountsFile, restored, found, strayRead>>

\* The process ends and starts again.
RestartSigner ==
  /\ activeId' = NobodySignedIn /\ online' = {}
  /\ snapshots' = <<>> /\ restored' = "none" /\ found' = {} /\ strayRead' = {}
  /\ restoreAsked' = FALSE
  /\ signIns' = [j \in SignIns |-> Unused]
  /\ attemptId' = NoSignIn /\ pending' = "idle" /\ behind' = FALSE
  /\ UNCHANGED accountsFile

-----------------------------------------------------------------------------
UserAsks ==
  \/ Restore \/ CancelAttempt \/ SignOutAsked
  \/ \E j \in SignIns : StartAttempt(j) \/ \E a \in AccountIds : SignInDirectly(j, a)

ReadingEnds == FileRead \/ RestoreFails
WritingEnds == SnapshotWritten \/ SnapshotFails

SignInGoesOn(j) == Opened(j) \/ WaitEnds(j) \/ SignInFails(j) \/ Activate(j)

SignerNext ==
  \/ UserAsks
  \/ ReadingEnds \/ StrayFileRead \/ WritingEnds
  \/ \E j \in SignIns : SignInGoesOn(j) \/ \E a \in AccountIds : Approved(j, a)
  \/ RestartSigner

\* Files answer, relays answer or fail, and the wait for approval has its
\* timeout.  A signer that is connected need not answer getPublicKey, which has
\* none: SignInsEnd holds of one that does.
SignerFairness ==
  /\ WF_signerVars(ReadingEnds) /\ WF_signerVars(StrayFileRead) /\ WF_signerVars(WritingEnds)
  /\ \A j \in SignIns : WF_signerVars(SignInGoesOn(j))

SignerSpec == SignerInit /\ [][SignerNext]_signerVars /\ SignerFairness

-----------------------------------------------------------------------------
(***************************************************************************)
(* The fields of the service, the accounts and the store have their types; *)
(* a sign-in is saving for as long as its snapshot is queued.              *)
(***************************************************************************)
SignerTypeOK ==
  /\ {activeId, accountsFile} \subseteq AccountIds \cup {NobodySignedIn}
  /\ online \subseteq AccountIds
  /\ snapshots \in Seq([active : AccountIds \cup {NobodySignedIn}, by : SignIns \cup {NoSignIn}])
  /\ Len(snapshots) <= MaxSnapshots
  /\ restored \in {"none", "reading", "done"}
  /\ {restoreAsked, behind} \subseteq BOOLEAN
  /\ {found, strayRead} \subseteq SUBSET (AccountIds \cup {NobodySignedIn})
  /\ restored = "reading" <=> found # {}
  /\ signIns \in [SignIns -> SignInState]
  /\ attemptId \in SignIns \cup {NoSignIn}
  /\ pending \in {"idle", "preparing", "awaiting", "error"}
  /\ \A j \in SignIns :
       signIns[j].step = "saving" <=> \E n \in DOMAIN snapshots : snapshots[n].by = j

(***************************************************************************)
(* There is one attempt: the sign-in whose signal is not aborted, whatever *)
(* attempts before it still do, and a page that says preparing or awaiting *)
(* says so of a running one (tests/signer_service_test.ts:153).            *)
(***************************************************************************)
OneAttemptRuns ==
  /\ attemptId # NoSignIn => SignInRuns(attemptId) /\ ~signIns[attemptId].aborted
  /\ \A j \in SignIns :
       SignInRuns(j) /\ signIns[j].kind = "connect" /\ signIns[j].step # "saving"
         /\ ~signIns[j].aborted => attemptId = j
  /\ pending \in {"preparing", "awaiting"} => attemptId # NoSignIn

(***************************************************************************)
(* After any overlap of sign-ins and sign-outs the file names the account  *)
(* that is active, unless a write failed or what was read before one took  *)
(* effect after it was asked for (accounts.ts:200).                        *)
(***************************************************************************)
FileIsNewest ==
  snapshots = <<>> /\ restored = "done" /\ ~behind => accountsFile = activeId

(***************************************************************************)
(* Each sign-in ends, in an account or in an error, whatever is cancelled, *)
(* signed out or lost meanwhile.                                           *)
(***************************************************************************)
SignInsEnd ==
  SignerFairness => \A j \in SignIns : SignInRuns(j) ~> ~SignInRuns(j)
===============================================================================
