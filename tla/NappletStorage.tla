---------------------------- MODULE NappletStorage ----------------------------
(***************************************************************************)
(* The storage of a napplet: StorageService (storage.ts) queues mutations, *)
(* checks each against the quotas and its caller's authority, and has the  *)
(* whole snapshot written by NappletStorageStore (storage_store.ts), which *)
(* replaces the file through a temporary one (atomic_file.ts).             *)
(*                                                                         *)
(* The file system is external: a call may fail, and a crash may take back *)
(* a rename whose directory was not synced.  The store's own queue is left *)
(* out: the service writes one snapshot at a time.  One napplet's          *)
(* namespaces stand for the file; others differ in name only.              *)
(***************************************************************************)
EXTENDS Naturals, Sequences, FiniteSets

CONSTANTS Namespaces, EntryKeys, Sizes, KeysPerNamespace, AggregateSize,
          MaxMutations,       \* bound: mutations asked for and not answered
          MaxFiles            \* bound: files a crash may leave

ASSUME StorageAssumption == /\ Sizes \subseteq Nat \ {0}
                            /\ {KeysPerNamespace, AggregateSize, MaxMutations, MaxFiles}
                                 \subseteq Nat

VARIABLES
  stored,     \* #snapshot
  files,      \* what the file may hold after a crash
  mutations,  \* the mutations behind #mutationTail, the running one first
  writing,    \* how far the running one is
  next        \* the snapshot it writes

storageVars == <<stored, files, mutations, writing, next>>

T == INSTANCE StorageTable WITH table <- stored

Mutation == [name : Namespaces, key : EntryKeys, value : Sizes \cup {T!Absent},
             held : {"yes", "no", "late"}]
Mine == Head(mutations)
InFlight == writing \in {"renaming", "syncing"}

StorageInit ==
  /\ stored = T!Empty
  /\ files = {T!Empty}
  /\ mutations = <<>> /\ writing = "no" /\ next = T!Empty

(***************************************************************************)
(* set and remove (a removed value is absent) join the queue.  The window  *)
(* that asked may lose its authority, for good: isCurrent compares the     *)
(* generation.  It does so too late for a rename that is under way.        *)
(***************************************************************************)
Mutate(n, k, v) ==
  /\ Len(mutations) < MaxMutations
  /\ mutations' = Append(mutations, [name |-> n, key |-> k, value |-> v, held |-> "yes"])
  /\ UNCHANGED <<stored, files, writing, next>>

AuthorityLost(n) ==
  /\ \E i \in DOMAIN mutations : mutations[i].name = n /\ mutations[i].held = "yes"
  /\ mutations' = [i \in DOMAIN mutations |->
                     IF mutations[i].name # n \/ mutations[i].held # "yes" THEN mutations[i]
                     ELSE [mutations[i] EXCEPT !.held = IF i = 1 /\ InFlight THEN "late" ELSE "no"]]
  /\ UNCHANGED <<stored, files, writing, next>>

\* Mutant: the tail keeps the rejection, and nothing behind it runs.
AnswerStuck == mutations' = mutations /\ writing' = "broken" /\ next' = T!Empty

\* The mutation is answered, with a result or an error; the next one may run.
Answer == mutations' = Tail(mutations) /\ writing' = "no" /\ next' = T!Empty

\* Mutant: only the namespace's own entries are counted.
FitsAlone(t) == \A n \in Namespaces : T!FewKeys(t, n)

\* The checks on the snapshot about to be written.
Fits(t) == T!InQuota(t)

StartWrite ==
  /\ mutations # <<>> /\ writing = "no"
  /\ LET t == T!With(stored, Mine.name, Mine.key, Mine.value)
     IN  IF Mine.held = "yes" /\ Fits(t)
         THEN writing' = "temporary" /\ next' = t /\ UNCHANGED mutations
         ELSE Answer
  /\ UNCHANGED <<stored, files>>

\* Mutant: the snapshot in memory is replaced before the write.
WriteFailsInMemory == writing # "no" /\ stored' = next /\ Answer /\ UNCHANGED files

\* A failure, wherever it happens, leaves the snapshot in memory as it was.
WriteFails ==
  /\ writing # "no"
  /\ Answer
  /\ UNCHANGED <<stored, files>>

\* The temporary file is complete: the last test of authority.
IssueRename ==
  /\ writing = "temporary"
  /\ IF Mine.held = "yes" THEN writing' = "renaming" /\ UNCHANGED <<mutations, next>>
     ELSE Answer
  /\ UNCHANGED <<stored, files>>

Renamed ==
  /\ writing = "renaming" /\ Cardinality(files \cup {next}) <= MaxFiles
  /\ writing' = "syncing"
  /\ files' = files \cup {next}
  /\ UNCHANGED <<stored, mutations, next>>

DirectorySynced ==
  /\ writing = "syncing"
  /\ files' = {next}
  /\ stored' = next
  /\ Answer

(***************************************************************************)
(* The runtime stops with all it has in memory and starts from the file,   *)
(* whichever of the tables it may be: a rename can still be taken back     *)
(* until the directory is synced (Renamed keeps both, DirectorySynced one).*)
(***************************************************************************)
Crash ==
  /\ \E t \in files : stored' = t /\ files' = {t}
  /\ mutations' = <<>> /\ writing' = "no" /\ next' = T!Empty

WriteStep == StartWrite \/ WriteFails \/ IssueRename \/ Renamed \/ DirectorySynced

StorageNext ==
  \/ \E n \in Namespaces, k \in EntryKeys, v \in Sizes \cup {T!Absent} : Mutate(n, k, v)
  \/ \E n \in Namespaces : AuthorityLost(n)
  \/ WriteStep
  \/ Crash

StorageFairness == WF_storageVars(WriteStep)
StorageSpec == StorageInit /\ [][StorageNext]_storageVars /\ StorageFairness

-----------------------------------------------------------------------------
(***************************************************************************)
(* Memory and whatever the file may hold after a crash are snapshots of    *)
(* the right shape; something is written only for a queued mutation.       *)
(***************************************************************************)
StorageTypeOK ==
  /\ stored \in T!Tables /\ next \in T!Tables /\ files \subseteq T!Tables /\ files # {}
  /\ mutations \in Seq(Mutation) /\ Len(mutations) <= MaxMutations
  /\ writing \in {"no", "temporary", "renaming", "syncing"}
  /\ mutations = <<>> => writing = "no"

(***************************************************************************)
(* Mutations asked for together do not add up to more than the quotas      *)
(* allow, not even in a file left by a failed write (storage.ts:126).      *)
(***************************************************************************)
QuotasHold == \A t \in files \cup {stored} : T!InQuota(t)

(***************************************************************************)
(* Whatever failed before, a crash takes back or brings back one entry at  *)
(* most: no answered mutation is lost with one that failed.                *)
(***************************************************************************)
CrashCostsOneEntry ==
  \A t \in files : Cardinality({e \in Namespaces \X EntryKeys :
                                   t[e[1]][e[2]] # stored[e[1]][e[2]]}) <= 1

(***************************************************************************)
(* What a caller was told is stored is all that a crash can leave.         *)
(***************************************************************************)
AnsweredIsDurable == [][stored' # stored => files' = {stored'}]_storageVars

(***************************************************************************)
(* A caller that lost its authority changes nothing any more, but by the   *)
(* rename that was under way: what it had queued is refused.               *)
(***************************************************************************)
RevokedWritesNothing == InFlight => Mine.held # "no"

(***************************************************************************)
(* The queue moves on, whatever fails: a full one has room again ("write   *)
(* failure preserves committed memory ... and queue recovers",             *)
(* tests/storage_test.ts:126).                                             *)
(***************************************************************************)
QueueRecovers ==
  StorageFairness => Len(mutations) = MaxMutations ~> Len(mutations) < MaxMutations

(***************************************************************************)
(* The service implements StorageTable.                                    *)
(***************************************************************************)
KeepsTable == T!TableSpec

(***************************************************************************)
(* Failures, crashes and lost authorities cost what was being written, not *)
(* what was answered, and leave every file within the quotas.              *)
(***************************************************************************)
CrashIsSurvived ==
  /\ [](QuotasHold /\ CrashCostsOneEntry /\ RevokedWritesNothing)
  /\ AnsweredIsDurable
===============================================================================
