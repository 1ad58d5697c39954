-------------------------- MODULE DurableState_proofs --------------------------
(***************************************************************************)
(* Proofs about what the portal keeps in files: the storage of napplets    *)
(* (NappletStorage), the settings (SettingsService) and the accounts       *)
(* (SignerAccounts), for all values of their constants.  Whether a table   *)
(* of the storage is within the quotas is left as it is: a sum over a set  *)
(* is defined by recursion.                                                *)
(***************************************************************************)
EXTENDS NappletStorage, SettingsService, SignerAccounts, FiniteSetTheorems, SequenceTheorems,
        TLAPS

-----------------------------------------------------------------------------
(***************************************************************************)
(* NappletStorage.                                                         *)
(***************************************************************************)
\* t differs from the snapshot in memory by one mutation that was accepted.
OneStep(t) ==
  \E n \in Namespaces, k \in EntryKeys, v \in Sizes \cup {T!Absent} :
    t = T!With(stored, n, k, v) /\ T!InQuota(t)

\* What is written, and all that a crash can leave, is the snapshot in memory or
\* one mutation away from it.
StorageInv ==
  /\ StorageTypeOK
  /\ writing # "no" => OneStep(next)
  /\ \A t \in files : t = stored \/ OneStep(t)
  /\ RevokedWritesNothing

-----------------------------------------------------------------------------
\* The tables with one entry changed are tables.
LEMMA TableWithEntry ==
  ASSUME NEW t \in T!Tables, NEW n \in Namespaces, NEW k \in EntryKeys,
         NEW v \in Sizes \cup {T!Absent}
  PROVE  T!With(t, n, k, v) \in T!Tables
BY DEF T!With, T!Tables

LEMMA EmptyType == T!Empty \in T!Tables
BY DEF T!Empty, T!Tables, T!Absent

\* The running mutation is one, and the others move up when it is answered.
LEMMA QueueType ==
  ASSUME StorageTypeOK, mutations # <<>>
  PROVE  /\ Mine \in Mutation
         /\ Tail(mutations) \in Seq(Mutation)
         /\ Len(Tail(mutations)) <= MaxMutations
<1>1. mutations \in Seq(Mutation) /\ Len(mutations) <= MaxMutations
  BY DEF StorageTypeOK
<1>2. Head(mutations) \in Mutation /\ Tail(mutations) \in Seq(Mutation)
      /\ Len(Tail(mutations)) = Len(mutations) - 1 /\ Len(mutations) \in Nat
  BY <1>1, HeadTailProperties
<1> QED  BY <1>1, <1>2, StorageAssumption DEF Mine

\* A step that answers leaves nothing written and a queue of the same type.
LEMMA AnswerKeeps ==
  ASSUME StorageTypeOK, mutations # <<>>, Answer, stored' = stored, files' = files
  PROVE  StorageTypeOK' /\ writing' = "no" /\ RevokedWritesNothing'
<1>1. Tail(mutations) \in Seq(Mutation) /\ Len(Tail(mutations)) <= MaxMutations
  BY QueueType
<1>2. StorageTypeOK'
  BY <1>1, EmptyType DEF Answer, StorageTypeOK
<1>3. writing' = "no" /\ RevokedWritesNothing'
  BY DEF Answer, RevokedWritesNothing, InFlight
<1> QED  BY <1>2, <1>3

LEMMA InitStorage == StorageInit => StorageInv
<1> SUFFICES ASSUME StorageInit  PROVE StorageInv
  OBVIOUS
<1>1. mutations \in Seq(Mutation) /\ Len(mutations) = 0
  BY EmptySeq DEF StorageInit
<1> QED
  BY <1>1, EmptyType, StorageAssumption
  DEF StorageInit, StorageInv, StorageTypeOK, RevokedWritesNothing, InFlight

-----------------------------------------------------------------------------
(***************************************************************************)
(* Steps that leave memory and file alone: what is one step away stays so. *)
(***************************************************************************)
LEMMA SameMemory ==
  ASSUME StorageInv, stored' = stored, files' = files
  PROVE  /\ \A t \in files' : t = stored' \/ OneStep(t)'
         /\ \A t : OneStep(t) => OneStep(t)'
BY DEF StorageInv, OneStep

\* An answered mutation leaves nothing under way.
LEMMA AnsweredInv ==
  ASSUME StorageInv, mutations # <<>>, Answer, stored' = stored, files' = files
  PROVE  StorageInv'
<1>1. StorageTypeOK' /\ writing' = "no" /\ RevokedWritesNothing'
  BY AnswerKeeps DEF StorageInv
<1> QED  BY <1>1, SameMemory DEF StorageInv

LEMMA MutateInv ==
  ASSUME StorageInv, NEW n \in Namespaces, NEW k \in EntryKeys,
         NEW v \in Sizes \cup {T!Absent}, Mutate(n, k, v)
  PROVE  StorageInv'
<1> DEFINE m == [name |-> n, key |-> k, value |-> v, held |-> "yes"]
<1>1. m \in Mutation
  BY DEF Mutation
<1>2. mutations \in Seq(Mutation) /\ Len(mutations) \in Nat /\ mutations' = Append(mutations, m)
  BY LenProperties DEF StorageInv, StorageTypeOK, Mutate
<1> HIDE DEF m
<1>3. mutations' \in Seq(Mutation) /\ Len(mutations') = Len(mutations) + 1 /\ mutations' # <<>>
  BY <1>1, <1>2, AppendProperties
<1>4. StorageTypeOK'
  BY <1>2, <1>3, StorageAssumption DEF StorageInv, StorageTypeOK, Mutate
<1>5. RevokedWritesNothing'
  <2> SUFFICES ASSUME InFlight'  PROVE Mine'.held # "no"
    BY DEF RevokedWritesNothing
  <2>1. InFlight /\ mutations # <<>>
    BY DEF InFlight, Mutate, StorageInv, StorageTypeOK
  <2>2. Head(mutations') = Head(mutations)
    BY <1>1, <1>2, <2>1, AppendProperties
  <2> QED  BY <2>1, <2>2 DEF Mine, StorageInv, RevokedWritesNothing
<1>6. writing' # "no" => OneStep(next)'
  BY SameMemory DEF Mutate, StorageInv
<1>7. \A t \in files' : t = stored' \/ OneStep(t)'
  BY SameMemory DEF Mutate
<1> QED  BY <1>4, <1>5, <1>6, <1>7 DEF StorageInv

LEMMA AuthorityLostInv ==
  ASSUME StorageInv, NEW n \in Namespaces, AuthorityLost(n)
  PROVE  StorageInv'
<1>1. mutations \in Seq(Mutation) /\ Len(mutations) \in Nat
      /\ DOMAIN mutations = 1..Len(mutations)
  BY LenProperties DEF StorageInv, StorageTypeOK
<1>2. ASSUME NEW i \in DOMAIN mutations
      PROVE  /\ mutations[i] \in Mutation
             /\ mutations'[i] \in Mutation
             /\ i = 1 /\ InFlight /\ mutations[i].held # "no" => mutations'[i].held # "no"
  <2>1. mutations[i] \in Mutation
    BY <1>1, ElementOfSeq
  <2>2. \/ mutations'[i] = mutations[i]
        \/ mutations'[i] = [mutations[i] EXCEPT !.held = "late"]
        \/ mutations'[i] = [mutations[i] EXCEPT !.held = "no"] /\ ~ (i = 1 /\ InFlight)
    BY DEF AuthorityLost
  <2> QED  BY <2>1, <2>2 DEF Mutation
<1>3. DOMAIN mutations' = 1..Len(mutations)
  BY <1>1 DEF AuthorityLost
<1>4. mutations' \in Seq(Mutation) /\ Len(mutations') = Len(mutations)
  <2>1. mutations' = [i \in 1..Len(mutations) |-> mutations'[i]]
    BY <1>1 DEF AuthorityLost
  <2>2. \A i \in 1..Len(mutations) : mutations'[i] \in Mutation
    BY <1>1, <1>2
  <2>3. mutations' \in [1..Len(mutations) -> Mutation]
    BY <2>1, <2>2
  <2> QED  BY <2>3, <1>1, <1>3, SeqDef, LenProperties
<1>5. mutations # <<>> /\ mutations' # <<>>
  BY <1>1, <1>4, EmptySeq DEF AuthorityLost
<1>6. StorageTypeOK'
  BY <1>4, <1>5 DEF AuthorityLost, StorageInv, StorageTypeOK
<1>7. RevokedWritesNothing'
  <2> SUFFICES ASSUME InFlight'  PROVE Mine'.held # "no"
    BY DEF RevokedWritesNothing
  <2>1. InFlight
    BY DEF InFlight, AuthorityLost
  <2>2. 1 \in DOMAIN mutations /\ mutations[1] = Mine /\ mutations'[1] = Mine'
    BY <1>1, <1>4, <1>5, EmptySeq, HeadTailProperties DEF Mine
  <2> QED  BY <2>1, <2>2, <1>2 DEF StorageInv, RevokedWritesNothing
<1>8. (\A t \in files' : t = stored' \/ OneStep(t)') /\ (writing' # "no" => OneStep(next)')
  BY SameMemory DEF AuthorityLost, StorageInv
<1> QED  BY <1>6, <1>7, <1>8 DEF StorageInv

LEMMA StartWriteInv ==
  ASSUME StorageInv, StartWrite
  PROVE  StorageInv'
<1> DEFINE t == T!With(stored, Mine.name, Mine.key, Mine.value)
<1>1. mutations # <<>> /\ stored' = stored /\ files' = files
  BY DEF StartWrite
<1>2. CASE Answer
  BY <1>1, <1>2, AnsweredInv
<1>3. CASE Fits(t) /\ writing' = "temporary" /\ next' = t /\ UNCHANGED mutations
  <2>1. Mine.name \in Namespaces /\ Mine.key \in EntryKeys /\ Mine.value \in Sizes \cup {T!Absent}
    BY <1>1, QueueType DEF StorageInv, Mutation
  <2>2. t \in T!Tables
    BY <2>1, TableWithEntry DEF StorageInv, StorageTypeOK
  <2>3. OneStep(next)'
    BY <1>1, <1>3, <2>1 DEF OneStep, Fits
  <2>4. StorageTypeOK' /\ RevokedWritesNothing'
    BY <1>1, <1>3, <2>2 DEF StorageInv, StorageTypeOK, RevokedWritesNothing, InFlight
  <2> QED  BY <1>1, <2>3, <2>4, SameMemory DEF StorageInv
<1> QED  BY <1>2, <1>3 DEF StartWrite

LEMMA WriteFailsInv == StorageInv /\ WriteFails => StorageInv'
BY AnsweredInv DEF WriteFails, StorageInv, StorageTypeOK

\* The last test of authority is what makes a rename under way the caller's own.
LEMMA IssueRenameInv ==
  ASSUME StorageInv, IssueRename
  PROVE  StorageInv'
<1>1. writing = "temporary" /\ mutations # <<>> /\ stored' = stored /\ files' = files
  BY DEF IssueRename, StorageInv, StorageTypeOK
<1>2. CASE Answer
  BY <1>1, <1>2, AnsweredInv
<1>3. CASE Mine.held = "yes" /\ writing' = "renaming" /\ UNCHANGED <<mutations, next>>
  <2>1. StorageTypeOK' /\ RevokedWritesNothing'
    BY <1>1, <1>3 DEF StorageInv, StorageTypeOK, RevokedWritesNothing, Mine
  <2>2. OneStep(next)'
    BY <1>1, <1>3, SameMemory DEF StorageInv
  <2> QED  BY <1>1, <2>1, <2>2, SameMemory DEF StorageInv
<1> QED  BY <1>2, <1>3 DEF IssueRename

\* The file may now hold what is written: one mutation more than memory does.
LEMMA RenamedInv ==
  ASSUME StorageInv, Renamed
  PROVE  StorageInv'
<1>1. writing = "renaming" /\ writing' = "syncing" /\ files' = files \cup {next}
      /\ stored' = stored /\ mutations' = mutations /\ next' = next
  BY DEF Renamed
<1>2. StorageTypeOK'
  BY <1>1 DEF StorageInv, StorageTypeOK
<1>3. RevokedWritesNothing'
  BY <1>1 DEF StorageInv, RevokedWritesNothing, InFlight, Mine
<1>4. OneStep(next)' /\ OneStep(next)
  BY <1>1 DEF StorageInv, OneStep
<1>5. \A t \in files' : t = stored' \/ OneStep(t)'
  BY <1>1, <1>4 DEF StorageInv, OneStep
<1> QED  BY <1>2, <1>3, <1>4, <1>5 DEF StorageInv

\* Only now is the mutation kept: memory and file agree.
LEMMA DirectorySyncedInv ==
  ASSUME StorageInv, DirectorySynced
  PROVE  StorageInv' /\ OneStep(stored')
<1>1. writing = "syncing" /\ mutations # <<>> /\ files' = {next} /\ stored' = next
  BY DEF DirectorySynced, StorageInv, StorageTypeOK
<1>2. Tail(mutations) \in Seq(Mutation) /\ Len(Tail(mutations)) <= MaxMutations
  BY <1>1, QueueType DEF StorageInv
<1>3. writing' = "no" /\ next' = T!Empty /\ mutations' = Tail(mutations)
  BY DEF DirectorySynced, Answer
<1>4. StorageTypeOK' /\ RevokedWritesNothing'
  BY <1>1, <1>2, <1>3, EmptyType DEF StorageInv, StorageTypeOK, RevokedWritesNothing, InFlight
<1>5. OneStep(stored')
  BY <1>1 DEF StorageInv
<1> QED  BY <1>1, <1>3, <1>4, <1>5 DEF StorageInv

\* A start finds the snapshot in memory as it was, or one mutation further.
LEMMA CrashInv ==
  ASSUME StorageInv, Crash
  PROVE  StorageInv' /\ (stored' = stored \/ OneStep(stored'))
<1>1. PICK t \in files : stored' = t /\ files' = {t}
  BY DEF Crash
<1>2. mutations' = <<>> /\ writing' = "no" /\ next' = T!Empty
  BY DEF Crash
<1>3. mutations' \in Seq(Mutation) /\ Len(mutations') = 0
  BY <1>2, EmptySeq
<1>4. StorageTypeOK' /\ RevokedWritesNothing'
  BY <1>1, <1>2, <1>3, EmptyType, StorageAssumption
  DEF StorageInv, StorageTypeOK, RevokedWritesNothing, InFlight
<1>5. stored' = stored \/ OneStep(stored')
  BY <1>1 DEF StorageInv
<1> QED  BY <1>1, <1>2, <1>4, <1>5 DEF StorageInv

-----------------------------------------------------------------------------
(***************************************************************************)
(* A step keeps the invariant; it changes memory, if at all, by one        *)
(* mutation within the quotas, and only together with the file.            *)
(***************************************************************************)
LEMMA StorageStep ==
  ASSUME StorageInv, [StorageNext]_storageVars
  PROVE  /\ StorageInv'
         /\ stored' = stored \/ OneStep(stored')
         /\ stored' # stored => files' = {stored'}
<1>1. ASSUME NEW n \in Namespaces, NEW k \in EntryKeys, NEW v \in Sizes \cup {T!Absent},
             Mutate(n, k, v)
      PROVE  StorageInv' /\ stored' = stored
  BY <1>1, MutateInv DEF Mutate
<1>2. ASSUME NEW n \in Namespaces, AuthorityLost(n)
      PROVE  StorageInv' /\ stored' = stored
  BY <1>2, AuthorityLostInv DEF AuthorityLost
<1>3. CASE StartWrite
  BY <1>3, StartWriteInv DEF StartWrite
<1>4. CASE WriteFails
  BY <1>4, WriteFailsInv DEF WriteFails
<1>5. CASE IssueRename
  BY <1>5, IssueRenameInv DEF IssueRename
<1>6. CASE Renamed
  BY <1>6, RenamedInv DEF Renamed
<1>7. CASE DirectorySynced
  BY <1>7, DirectorySyncedInv DEF DirectorySynced
<1>8. CASE Crash
  <2>1. files' = {stored'}
    BY <1>8 DEF Crash
  <2> QED  BY <1>8, <2>1, CrashInv
<1>9. CASE UNCHANGED storageVars
  BY <1>9 DEF storageVars, StorageInv, StorageTypeOK, OneStep, RevokedWritesNothing, InFlight, Mine
<1> QED
  BY <1>1, <1>2, <1>3, <1>4, <1>5, <1>6, <1>7, <1>8, <1>9 DEF StorageNext, WriteStep

LEMMA StorageInvHolds == StorageInit /\ [][StorageNext]_storageVars => []StorageInv
<1>1. StorageInv /\ [StorageNext]_storageVars => StorageInv'
  BY StorageStep
<1> QED  BY <1>1, InitStorage, PTL

LEMMA TableSafe == StorageInit /\ [][StorageNext]_storageVars => KeepsTable
<1>1. StorageInit => T!TableInit
  BY DEF StorageInit, T!TableInit
<1>2. StorageInv /\ [StorageNext]_storageVars => [T!TableNext]_stored
  <2> SUFFICES ASSUME StorageInv, [StorageNext]_storageVars, stored' # stored
               PROVE  T!TableNext
    OBVIOUS
  <2> QED  BY StorageStep DEF OneStep, T!TableNext
<1> QED  BY <1>1, <1>2, StorageInvHolds, PTL DEF KeepsTable, T!TableSpec

(***************************************************************************)
(* The service of storage.ts and storage_store.ts, with its queue, its     *)
(* temporary file and its crashes, implements the table a napplet sees.    *)
(***************************************************************************)
THEOREM StorageImplementsTable == StorageSpec => KeepsTable
BY TableSafe, PTL DEF StorageSpec

\* A table differs in at most one entry from what one mutation makes of it.
LEMMA OneStepIsOneEntry == StorageInv => CrashCostsOneEntry
<1> SUFFICES ASSUME StorageInv, NEW t \in files
             PROVE  Cardinality({e \in Namespaces \X EntryKeys :
                                   t[e[1]][e[2]] # stored[e[1]][e[2]]}) <= 1
  BY DEF CrashCostsOneEntry
<1> DEFINE D == {e \in Namespaces \X EntryKeys : t[e[1]][e[2]] # stored[e[1]][e[2]]}
<1>1. PICK x : D \subseteq {x}
  <2>1. CASE t = stored
    BY <2>1
  <2>2. CASE OneStep(t)
    <3>1. PICK n \in Namespaces, k \in EntryKeys, v \in Sizes \cup {T!Absent} :
            t = [stored EXCEPT ![n][k] = v]
      BY <2>2 DEF OneStep, T!With
    <3>2. \A m \in Namespaces, j \in EntryKeys : <<m, j>> # <<n, k>> => t[m][j] = stored[m][j]
      BY <3>1 DEF StorageInv, StorageTypeOK, T!Tables
    <3>3. D \subseteq {<<n, k>>}
      BY <3>2
    <3> QED  BY <3>3
  <2> QED  BY <2>1, <2>2 DEF StorageInv
<1>2. Cardinality({x}) = 1 /\ IsFiniteSet({x})
  BY FS_Singleton
<1>3. Cardinality(D) <= Cardinality({x})
  BY <1>1, <1>2, FS_Subset
<1> QED  BY <1>2, <1>3

LEMMA CrashSafe ==
  T!InQuota(T!Empty) /\ StorageInit /\ [][StorageNext]_storageVars => CrashIsSurvived
<1>1. T!InQuota(T!Empty) /\ StorageInit => QuotasHold
  BY DEF StorageInit, QuotasHold
<1>2. StorageInv /\ QuotasHold /\ [StorageNext]_storageVars => QuotasHold'
  <2> SUFFICES ASSUME StorageInv, QuotasHold, [StorageNext]_storageVars,
                      NEW t \in files' \cup {stored'}
               PROVE  T!InQuota(t)
    BY DEF QuotasHold
  <2>1. T!InQuota(stored')
    BY StorageStep DEF QuotasHold, OneStep
  <2>2. t = stored' \/ OneStep(t)'
    BY StorageStep DEF StorageInv
  <2> QED  BY <2>1, <2>2 DEF OneStep
<1>3. StorageInv => CrashCostsOneEntry /\ RevokedWritesNothing
  BY OneStepIsOneEntry DEF StorageInv
<1>4. StorageInv /\ [StorageNext]_storageVars
        => [stored' # stored => files' = {stored'}]_storageVars
  BY StorageStep
<1> QED
  BY <1>1, <1>2, <1>3, <1>4, StorageInvHolds, PTL
  DEF CrashIsSurvived, AnsweredIsDurable

(***************************************************************************)
(* A crash takes back or brings back one entry, what was answered is in    *)
(* the file, revoked callers write nothing, and no file is beyond the      *)
(* quotas.  That an empty table is within them is a hypothesis: the size   *)
(* of a table is a recursive sum, which the provers cannot unfold.         *)
(***************************************************************************)
THEOREM StorageSurvivesCrashes == T!InQuota(T!Empty) /\ StorageSpec => CrashIsSurvived
BY CrashSafe, PTL DEF StorageSpec

-----------------------------------------------------------------------------
(***************************************************************************)
(* SettingsService.                                                        *)
(***************************************************************************)
\* Settings that authenticate only to relays in use that are not blocked.
Eligible == {s \in Settings : s.auth \subseteq s.relays \ BlockedUrls}

\* What is queued, however many fail before it, is eligible, and its page waits for it
\* with the values it sent; each page has one save.
QueueInv ==
  /\ saves \in Seq([by : Forms, to : Eligible])
  /\ \A i \in 1..Len(saves) : form[saves[i].by].page = "saving"
                              /\ form[saves[i].by].sent = saves[i].to
  /\ \A i, j \in 1..Len(saves) : saves[i].by = saves[j].by => i = j

SettingsInv ==
  /\ {settings, settingsFile} \subseteq Eligible
  /\ saveStep \in {"no", "writing", "renamed"}
  /\ form \in [Forms -> [page : {"shown", "saving", "saved", "failed"}, sent : Settings]]
  /\ completed \in BOOLEAN
  /\ QueueInv
  /\ saveStep # "no" => saves # <<>>
  /\ saveStep = "renamed" => settingsFile = Head(saves).to
  /\ FileIsSettings

-----------------------------------------------------------------------------
\* parseSettingsForm yields eligible settings, whatever is ticked.
LEMMA ParsedIsEligible ==
  ASSUME NEW relays \in SUBSET RelayUrls, NEW ticked \in SUBSET RelayUrls
  PROVE  Parsed(relays, ticked) \in Eligible
<1>1. Parsed(relays, ticked) = [relays |-> relays, auth |-> (ticked \cap relays) \ BlockedUrls]
  BY DEF Parsed, Values
<1> QED  BY <1>1 DEF Eligible, Settings

LEMMA InitSettings == SettingsInit => SettingsInv
<1> SUFFICES ASSUME SettingsInit  PROVE SettingsInv
  OBVIOUS
<1>1. settings \in Eligible
  BY DEF SettingsInit, Values, Eligible, Settings
<1>2. saves \in Seq([by : Forms, to : Eligible]) /\ Len(saves) = 0
  BY EmptySeq DEF SettingsInit
<1>3. settings \in Settings
  BY <1>1 DEF Eligible
<1>4. form \in [Forms -> [page : {"shown", "saving", "saved", "failed"}, sent : Settings]]
  BY <1>3 DEF SettingsInit
<1>5. QueueInv
  BY <1>2 DEF QueueInv
<1>6. settingsFile = settings /\ saveStep = "no" /\ completed = FALSE
  BY DEF SettingsInit
<1> QED  BY <1>1, <1>4, <1>5, <1>6 DEF SettingsInv, FileIsSettings

\* The first of the queue, and the queue without it.
LEMMA FirstSave ==
  ASSUME SettingsInv, saves # <<>>
  PROVE  /\ Len(saves) \in Nat \ {0} /\ Head(saves) = saves[1]
         /\ Head(saves).by \in Forms /\ Head(saves).to \in Eligible
         /\ Tail(saves) \in Seq([by : Forms, to : Eligible])
         /\ Len(Tail(saves)) = Len(saves) - 1
         /\ \A i \in 1..Len(Tail(saves)) : Tail(saves)[i] = saves[i + 1]
<1>1. saves \in Seq([by : Forms, to : Eligible])
  BY DEF SettingsInv, QueueInv
<1>2. Head(saves) \in [by : Forms, to : Eligible] /\ Len(saves) \in Nat \ {0}
  BY <1>1, HeadTailProperties, EmptySeq, LenProperties
<1> QED  BY <1>1, <1>2, HeadTailProperties

\* A page that asks has no save queued, and gets one.
LEMMA PostInv ==
  ASSUME SettingsInv, NEW f \in Forms, NEW relays \in SUBSET RelayUrls,
         NEW ticked \in SUBSET RelayUrls, Post(f, relays, ticked)
  PROVE  SettingsInv'
<1> DEFINE to == Parsed(relays, ticked)
<1>1. to \in Eligible /\ to \in Settings
  BY ParsedIsEligible DEF Eligible
<1>2. form[f].page # "saving" /\ UNCHANGED <<settings, settingsFile, saveStep, completed>>
  BY DEF Post
<1>3. \A i \in 1..Len(saves) : saves[i].by # f
  BY <1>2 DEF SettingsInv, QueueInv
<1>4. saves \in Seq([by : Forms, to : Eligible]) /\ Len(saves) \in Nat
  BY LenProperties DEF SettingsInv, QueueInv
<1>5. ASSUME NEW i \in 1..Len(saves)  PROVE saves[i].by \in Forms
  <2>1. saves[i] \in [by : Forms, to : Eligible]
    BY <1>4, ElementOfSeq
  <2> QED  BY <2>1
<1> HIDE DEF to
<1>6. CASE form' = [form EXCEPT ![f] = [page |-> "failed", sent |-> to]] /\ UNCHANGED saves
  <2>1. \A g \in Forms : g # f => form'[g] = form[g]
    BY <1>6 DEF SettingsInv
  <2>2. QueueInv'
    BY <1>3, <1>5, <1>6, <2>1 DEF SettingsInv, QueueInv
  <2>3. form' \in [Forms -> [page : {"shown", "saving", "saved", "failed"}, sent : Settings]]
    BY <1>1, <1>6 DEF SettingsInv
  <2> QED  BY <1>2, <1>6, <2>2, <2>3 DEF SettingsInv, FileIsSettings
<1>7. CASE /\ form' = [form EXCEPT ![f] = [page |-> "saving", sent |-> to]]
           /\ saves' = Append(saves, [by |-> f, to |-> to])
  <2>1. form'[f].page = "saving" /\ form'[f].sent = to
        /\ \A g \in Forms : g # f => form'[g] = form[g]
    BY <1>7 DEF SettingsInv
  <2> DEFINE s == [by |-> f, to |-> to]
  <2>2. s \in [by : Forms, to : Eligible] /\ s.by = f /\ s.to = to
    BY <1>1
  <2> HIDE DEF s
  <2>3. saves' = Append(saves, s)
    BY <1>7 DEF s
  <2>4. /\ saves' \in Seq([by : Forms, to : Eligible]) /\ Len(saves') = Len(saves) + 1
        /\ saves'[Len(saves) + 1] = s
        /\ \A i \in 1..Len(saves) : saves'[i] = saves[i]
    BY <1>4, <2>2, <2>3, AppendProperties
  <2>5. \A i \in 1..Len(saves') : i = Len(saves) + 1 \/ i \in 1..Len(saves)
    BY <1>4, <2>4
  <2>6. \A i \in 1..Len(saves') : form'[saves'[i].by].page = "saving"
                                 /\ form'[saves'[i].by].sent = saves'[i].to
    <3> TAKE i \in 1..Len(saves')
    <3>1. CASE i = Len(saves) + 1
      BY <3>1, <2>1, <2>2, <2>4
    <3>2. CASE i \in 1..Len(saves)
      BY <3>2, <1>3, <1>5, <2>1, <2>4 DEF SettingsInv, QueueInv
    <3> QED  BY <3>1, <3>2, <2>5
  <2>7. \A i, j \in 1..Len(saves') : saves'[i].by = saves'[j].by => i = j
    BY <1>3, <2>2, <2>4, <2>5 DEF SettingsInv, QueueInv
  <2>8. saves' # <<>> /\ (saves # <<>> => Head(saves') = Head(saves))
    BY <1>4, <2>2, <2>3, AppendProperties
  <2>9. form' \in [Forms -> [page : {"shown", "saving", "saved", "failed"}, sent : Settings]]
    BY <1>1, <1>7 DEF SettingsInv
  <2>10. QueueInv'
    BY <2>4, <2>6, <2>7 DEF QueueInv
  <2>11. saveStep' = "renamed" => settingsFile' = Head(saves').to
    BY <1>2, <2>8 DEF SettingsInv
  <2>12. FileIsSettings'
    BY <1>2 DEF SettingsInv, FileIsSettings
  <2> QED  BY <1>2, <2>8, <2>9, <2>10, <2>11, <2>12 DEF SettingsInv
<1> QED  BY <1>6, <1>7 DEF Post, to

\* The running save is answered: the others keep their pages.
LEMMA SaveOverInv ==
  ASSUME SettingsInv, saves # <<>>, NEW page \in {"saved", "failed"}, SaveOver(page)
  PROVE  /\ QueueInv' /\ saveStep' = "no"
         /\ form' \in [Forms -> [page : {"shown", "saving", "saved", "failed"}, sent : Settings]]
         /\ \A g \in Forms : g # Head(saves).by => form'[g] = form[g]
         /\ form[Head(saves).by].sent = Head(saves).to
<1> DEFINE f == Head(saves).by
<1>1. f \in Forms /\ f = saves[1].by /\ 1 \in 1..Len(saves)
  BY FirstSave
<1>2. form' = [form EXCEPT ![f].page = page] /\ saves' = Tail(saves) /\ saveStep' = "no"
  BY DEF SaveOver, Page
<1>3. form[f].sent = Head(saves).to
  BY <1>1, FirstSave DEF SettingsInv, QueueInv
<1> HIDE DEF f
<1>4. \A g \in Forms : g # f => form'[g] = form[g]
  BY <1>2 DEF SettingsInv
<1>5. form' \in [Forms -> [page : {"shown", "saving", "saved", "failed"}, sent : Settings]]
  BY <1>1, <1>2 DEF SettingsInv
<1>6. saves' \in Seq([by : Forms, to : Eligible]) /\ Len(saves') = Len(saves) - 1
      /\ Len(saves) \in Nat \ {0}
      /\ \A i \in 1..Len(saves') : saves'[i] = saves[i + 1]
  BY <1>2, FirstSave
<1>7. ASSUME NEW i \in 1..Len(saves')
      PROVE  /\ saves'[i] = saves[i + 1] /\ i + 1 \in 1..Len(saves)
             /\ saves'[i].by \in Forms /\ saves'[i].by # f
  <2>1. i + 1 \in 1..Len(saves) /\ i + 1 # 1 /\ saves'[i] = saves[i + 1]
    BY <1>6
  <2>2. saves'[i] \in [by : Forms, to : Eligible]
    BY <1>6, ElementOfSeq
  <2>3. saves[i + 1].by # saves[1].by
    BY <2>1, <1>1 DEF SettingsInv, QueueInv
  <2> QED  BY <2>1, <2>2, <2>3, <1>1
<1>8. \A i \in 1..Len(saves') : form'[saves'[i].by].page = "saving"
                               /\ form'[saves'[i].by].sent = saves'[i].to
  BY <1>4, <1>7 DEF SettingsInv, QueueInv
<1>9. \A i, j \in 1..Len(saves') : saves'[i].by = saves'[j].by => i = j
  <2> TAKE i, j \in 1..Len(saves')
  <2>1. saves'[i].by = saves'[j].by => i + 1 = j + 1
    BY <1>7 DEF SettingsInv, QueueInv
  <2> QED  BY <2>1
<1> QED  BY <1>2, <1>3, <1>4, <1>5, <1>6, <1>8, <1>9 DEF QueueInv, f

\* A step keeps the invariant, and a page that is told saved sent what is now in use.
LEMMA SettingsStep ==
  ASSUME SettingsInv, [SettingsNext]_settingsVars
  PROVE  /\ SettingsInv'
         /\ \A f \in Forms : form[f].page = "saving" /\ form'[f].page = "saved" /\ ~completed
              => settings' = form[f].sent
<1>1. ASSUME NEW f \in Forms, NEW relays \in SUBSET RelayUrls, NEW ticked \in SUBSET RelayUrls,
             Post(f, relays, ticked)
      PROVE  SettingsInv' /\ \A g \in Forms : form[g].page = "saving" => form'[g] = form[g]
  <2>1. \A g \in Forms : g # f => form'[g] = form[g]
    BY <1>1 DEF Post, SettingsInv
  <2>2. form[f].page # "saving"
    BY <1>1 DEF Post
  <2> QED  BY <1>1, <2>1, <2>2, PostInv
<1>2. CASE SaveStarts
  BY <1>2 DEF SaveStarts, SettingsInv, QueueInv, FileIsSettings
<1>3. CASE SaveRenamed
  <2>1. saves # <<>> /\ Head(saves).to \in Eligible
    BY <1>3, FirstSave DEF SaveRenamed, SettingsInv
  <2> QED  BY <1>3, <2>1 DEF SaveRenamed, SettingsInv, QueueInv, FileIsSettings
<1>4. CASE SaveFails
  <2>1. saves # <<>> /\ SaveOver("failed")
    BY <1>4 DEF SaveFails, SettingsInv
  <2>2. \A f \in Forms : form'[f] = form[f] \/ form'[f].page = "failed"
    BY <2>1, FirstSave DEF SaveOver, Page, SettingsInv
  <2>3. QueueInv' /\ saveStep' = "no"
        /\ form' \in [Forms -> [page : {"shown", "saving", "saved", "failed"}, sent : Settings]]
    BY <2>1, SaveOverInv
  <2>4. SettingsInv'
    BY <1>4, <2>3 DEF SaveFails, SettingsInv, FileIsSettings
  <2> QED  BY <2>2, <2>4
<1>5. CASE SavePublished
  <2>1. saves # <<>> /\ SaveOver("saved") /\ settingsFile = Head(saves).to
        /\ settings' = (IF completed THEN settings ELSE Head(saves).to)
        /\ UNCHANGED <<settingsFile, completed>>
    BY <1>5 DEF SavePublished, SettingsInv, Published
  <2>2. /\ QueueInv' /\ saveStep' = "no"
        /\ form' \in [Forms -> [page : {"shown", "saving", "saved", "failed"}, sent : Settings]]
        /\ \A g \in Forms : g # Head(saves).by => form'[g] = form[g]
        /\ form[Head(saves).by].sent = Head(saves).to
    BY <2>1, SaveOverInv
  <2>3. SettingsInv'
    BY <2>1, <2>2 DEF SettingsInv, FileIsSettings
  <2> QED  BY <2>1, <2>2, <2>3
<1>6. CASE DestroySettings
  BY <1>6 DEF DestroySettings, SettingsInv, QueueInv, FileIsSettings
<1>7. CASE RestartSettings
  <2>1. saves' = <<>> /\ saves' \in Seq([by : Forms, to : Eligible]) /\ Len(saves') = 0
    BY <1>7, EmptySeq DEF RestartSettings
  <2>2. settingsFile \in Eligible /\ settingsFile \in Settings
    BY DEF SettingsInv, Eligible
  <2>3. form' \in [Forms -> [page : {"shown", "saving", "saved", "failed"}, sent : Settings]]
        /\ \A f \in Forms : form'[f].page = "shown"
    BY <1>7, <2>2 DEF RestartSettings
  <2>4. QueueInv'
    BY <2>1 DEF QueueInv
  <2>5. SettingsInv'
    BY <1>7, <2>1, <2>2, <2>3, <2>4 DEF RestartSettings, SettingsInv, FileIsSettings
  <2> QED  BY <2>3, <2>5
<1>8. CASE UNCHANGED settingsVars
  BY <1>8 DEF settingsVars, SettingsInv, QueueInv, FileIsSettings
<1> QED
  BY <1>1, <1>2, <1>3, <1>4, <1>5, <1>6, <1>7, <1>8 DEF SettingsNext, SaveStep

LEMMA SettingsSafe == SettingsInit /\ [][SettingsNext]_settingsVars => SettingsAreKept
<1>1. SettingsInv /\ [SettingsNext]_settingsVars => SettingsInv'
  BY SettingsStep
<1>2. SettingsInv => FileIsSettings /\ AuthIsEligible
  BY DEF SettingsInv, AuthIsEligible, Eligible
<1>3. SettingsInv /\ [SettingsNext]_settingsVars =>
        [\A f \in Forms : form[f].page = "saving" /\ form'[f].page = "saved" /\ ~completed
           => settings' = form[f].sent]_settingsVars
  BY SettingsStep
<1> QED
  BY <1>1, <1>2, <1>3, InitSettings, PTL DEF SettingsAreKept, SavedIsShown

(***************************************************************************)
(* Whichever saves fail among those queued, the runtime uses what its file *)
(* holds, authenticates only to eligible relays, and answers each page for *)
(* the values it sent.                                                     *)
(***************************************************************************)
THEOREM SettingsHold == SettingsSpec => SettingsAreKept
BY SettingsSafe, PTL DEF SettingsSpec

\* A page that waits has its save in the queue.
SavingInv == \A f \in Forms : form[f].page = "saving" => \E i \in 1..Len(saves) : saves[i].by = f

LEMMA SavingOver ==
  ASSUME SettingsInv, SavingInv, saves # <<>>, NEW page \in {"saved", "failed"}, SaveOver(page)
  PROVE  SavingInv'
<1> DEFINE f == Head(saves).by
<1>1. /\ f \in Forms /\ f = saves[1].by /\ saves' = Tail(saves)
      /\ form' = [form EXCEPT ![f].page = page]
  BY FirstSave DEF SaveOver, Page
<1>2. /\ Len(saves) \in Nat \ {0} /\ Len(saves') = Len(saves) - 1
      /\ \A i \in 1..Len(saves') : saves'[i] = saves[i + 1]
  BY <1>1, FirstSave
<1> HIDE DEF f
<1>3. form'[f].page = page /\ \A g \in Forms : g # f => form'[g] = form[g]
  BY <1>1 DEF SettingsInv
<1>4. ASSUME NEW g \in Forms, form'[g].page = "saving"
      PROVE  \E i \in 1..Len(saves') : saves'[i].by = g
  <2>1. g # f /\ form[g].page = "saving"
    BY <1>3, <1>4
  <2>2. PICK i \in 1..Len(saves) : saves[i].by = g
    BY <2>1 DEF SavingInv
  <2>3. i # 1
    BY <1>1, <2>1, <2>2
  <2>4. i - 1 \in 1..Len(saves') /\ saves'[i - 1] = saves[i]
    BY <1>2, <2>3
  <2> QED  BY <2>2, <2>4
<1> QED  BY <1>4 DEF SavingInv

LEMMA SavingStep ==
  ASSUME SettingsInv, SavingInv, [SettingsNext]_settingsVars
  PROVE  SavingInv'
<1>1. ASSUME NEW f \in Forms, NEW relays \in SUBSET RelayUrls, NEW ticked \in SUBSET RelayUrls,
             Post(f, relays, ticked)
      PROVE  SavingInv'
  <2> DEFINE to == Parsed(relays, ticked)
  <2>1. \A g \in Forms : g # f => form'[g] = form[g]
    BY <1>1 DEF Post, SettingsInv
  <2> HIDE DEF to
  <2>2. CASE form' = [form EXCEPT ![f] = [page |-> "failed", sent |-> to]] /\ UNCHANGED saves
    <3>1. form'[f].page = "failed"
      BY <2>2 DEF SettingsInv
    <3> QED  BY <2>1, <2>2, <3>1 DEF SavingInv
  <2>3. CASE saves' = Append(saves, [by |-> f, to |-> to])
    <3> DEFINE s == [by |-> f, to |-> to]
    <3>1. to \in Eligible
      BY ParsedIsEligible DEF to
    <3>2. s \in [by : Forms, to : Eligible] /\ s.by = f
      BY <3>1
    <3>3. saves \in Seq([by : Forms, to : Eligible]) /\ Len(saves) \in Nat
      BY LenProperties DEF SettingsInv, QueueInv
    <3>4. saves' = Append(saves, s)
      BY <2>3
    <3> HIDE DEF s
    <3>5. /\ Len(saves') = Len(saves) + 1 /\ saves'[Len(saves) + 1] = s
          /\ \A i \in 1..Len(saves) : saves'[i] = saves[i]
      BY <3>2, <3>3, <3>4, AppendProperties
    <3>6. Len(saves) + 1 \in 1..Len(saves') /\ \A i \in 1..Len(saves) : i \in 1..Len(saves')
      BY <3>3, <3>5
    <3>7. ASSUME NEW g \in Forms, form'[g].page = "saving"
          PROVE  \E i \in 1..Len(saves') : saves'[i].by = g
      <4>1. CASE g = f
        BY <4>1, <3>2, <3>5, <3>6
      <4>2. CASE g # f
        <5>1. PICK i \in 1..Len(saves) : saves[i].by = g
          BY <4>2, <2>1, <3>7 DEF SavingInv
        <5> QED  BY <5>1, <3>5, <3>6
      <4> QED  BY <4>1, <4>2
    <3> QED  BY <3>7 DEF SavingInv
  <2> QED  BY <1>1, <2>2, <2>3 DEF Post, to
<1>2. CASE SaveStarts \/ SaveRenamed \/ DestroySettings
  BY <1>2 DEF SaveStarts, SaveRenamed, DestroySettings, SavingInv
<1>3. CASE SaveFails
  BY <1>3, SavingOver DEF SaveFails, SettingsInv
<1>4. CASE SavePublished
  BY <1>4, SavingOver DEF SavePublished, SettingsInv
<1>5. CASE RestartSettings
  BY <1>5 DEF RestartSettings, SavingInv
<1>6. CASE UNCHANGED settingsVars
  BY <1>6 DEF settingsVars, SavingInv
<1> QED  BY <1>1, <1>2, <1>3, <1>4, <1>5, <1>6 DEF SettingsNext, SaveStep

LEMMA SettingsInvTypes == SettingsInv /\ SavingInv => SettingsTypeOK
<1> SUFFICES ASSUME SettingsInv, SavingInv  PROVE SettingsTypeOK
  OBVIOUS
<1>1. Eligible \subseteq Settings
  BY DEF Eligible
<1>2. saves \in Seq([by : Forms, to : Eligible]) /\ DOMAIN saves = 1..Len(saves)
  BY LenProperties DEF SettingsInv, QueueInv
<1>3. saves \in Seq(Save)
  <2>1. [by : Forms, to : Eligible] \subseteq Save
    BY <1>1 DEF Save
  <2> QED  BY <1>2, <2>1, SeqMonotonic
<1>4. \A f \in Forms : (form[f].page = "saving") <=> \E i \in DOMAIN saves : saves[i].by = f
  BY <1>2 DEF SettingsInv, QueueInv, SavingInv
<1> QED  BY <1>1, <1>3, <1>4 DEF SettingsInv, SettingsTypeOK

LEMMA SettingsTypesSafe == SettingsInit /\ [][SettingsNext]_settingsVars => []SettingsTypeOK
<1>1. SettingsInit => SavingInv
  BY DEF SettingsInit, SavingInv
<1> QED  BY <1>1, InitSettings, SettingsStep, SavingStep, SettingsInvTypes, PTL
-----------------------------------------------------------------------------
(***************************************************************************)
(* SignerAccounts.                                                         *)
(***************************************************************************)
SnapshotOf == [active : AccountIds \cup {NobodySignedIn}, by : SignIns \cup {NoSignIn}]
QueuedBy(queue) == {queue[n].by : n \in DOMAIN queue}

\* A sign-in whose signer is asked for its key, or that names its account, has one.
SignInKnown ==
  {s \in SignInState : s.step # "idle" /\ (s.kind = "direct" \/ s.step \in {"asking", "saving"})
                         => s.account \in AccountIds}

\* A sign-in waits for one snapshot, and does so when it is saving.
QueuedOnce(queue) ==
  \A m, n \in DOMAIN queue : queue[m].by = queue[n].by /\ queue[m].by # NoSignIn => m = n

Saves(s, queue) == \A j \in SignIns : s[j].step = "saving" <=> j \in QueuedBy(queue)

OneRuns(s, attempt, page) ==
  /\ attempt # NoSignIn => s[attempt].step # "idle" /\ ~s[attempt].aborted
  /\ \A j \in SignIns :
       /\ s[j].step \notin {"idle", "saving"} /\ s[j].kind = "connect" /\ ~s[j].aborted
       => attempt = j
  /\ page \in {"preparing", "awaiting"} => attempt # NoSignIn

\* What the last snapshot says is so, or, with nothing queued, what the file says: only
\* before the file was read may it name an account while nobody is signed in.
NewestIsActive(queue, file, active, read, missed) ==
  ~missed => /\ queue # <<>> => queue[Len(queue)].active = active
             /\ queue = <<>> => file = active \/ (active = NobodySignedIn /\ read # "done")

SignerFields ==
  /\ {activeId, accountsFile} \subseteq AccountIds \cup {NobodySignedIn}
  /\ online \subseteq AccountIds
  /\ restored \in {"none", "reading", "done"}
  /\ {restoreAsked, behind} \subseteq BOOLEAN
  /\ {found, strayRead} \subseteq SUBSET (AccountIds \cup {NobodySignedIn})
  /\ restored = "reading" <=> found # {}
  /\ attemptId \in SignIns \cup {NoSignIn}
  /\ pending \in {"idle", "preparing", "awaiting", "error"}

QueueOK ==
  /\ snapshots \in Seq(SnapshotOf) /\ Len(snapshots) <= MaxSnapshots
  /\ QueuedOnce(snapshots)
  /\ NewestIsActive(snapshots, accountsFile, activeId, restored, behind)

SignInsOK == /\ signIns \in [SignIns -> SignInKnown]
             /\ Saves(signIns, snapshots)
             /\ OneRuns(signIns, attemptId, pending)

SignerInv == SignerFields /\ QueueOK /\ SignInsOK

LEMMA SignerInvHolds == SignerInv => SignerTypeOK /\ OneAttemptRuns /\ FileIsNewest
<1> SUFFICES ASSUME SignerInv  PROVE SignerTypeOK /\ OneAttemptRuns /\ FileIsNewest
  OBVIOUS
<1>1. OneAttemptRuns
  BY DEF SignerInv, SignInsOK, OneRuns, OneAttemptRuns, SignInRuns
<1>2. FileIsNewest
  BY DEF SignerInv, QueueOK, NewestIsActive, FileIsNewest
<1>3. SignerTypeOK
  BY DEF SignerInv, SignerFields, QueueOK, SignInsOK, SignInKnown, Saves, QueuedBy, SnapshotOf,
         SignerTypeOK
<1> QED  BY <1>1, <1>2, <1>3

-----------------------------------------------------------------------------
\* The queue.
LEMMA QueuedAtEnd ==
  ASSUME NEW q \in Seq(SnapshotOf), QueuedOnce(q), NEW snapshot \in SnapshotOf,
         snapshot.by = NoSignIn \/ snapshot.by \notin QueuedBy(q)
  PROVE  LET r == Append(q, snapshot)
         IN  /\ r \in Seq(SnapshotOf) /\ r # <<>> /\ Len(r) = Len(q) + 1
             /\ QueuedOnce(r) /\ QueuedBy(r) = QueuedBy(q) \cup {snapshot.by}
             /\ r[Len(r)] = snapshot
<1> DEFINE r == Append(q, snapshot)
<1>1. r \in Seq(SnapshotOf) /\ Len(q) \in Nat /\ Len(r) = Len(q) + 1 /\ DOMAIN q = 1..Len(q)
      /\ DOMAIN r = 1..(Len(q) + 1) /\ r[Len(q) + 1] = snapshot
      /\ \A n \in 1..Len(q) : r[n] = q[n]
  BY AppendProperties, LenProperties
<1>2. r # <<>>
  BY <1>1, EmptySeq
<1> HIDE DEF r
<1>3. \A n \in DOMAIN r : n \in DOMAIN q \/ n = Len(q) + 1
  BY <1>1
<1>4. QueuedBy(r) = QueuedBy(q) \cup {snapshot.by}
  <2>1. \A n \in DOMAIN q : n \in DOMAIN r /\ r[n] = q[n]
    BY <1>1
  <2>2. Len(q) + 1 \in DOMAIN r
    BY <1>1
  <2> QED  BY <1>1, <1>3, <2>1, <2>2 DEF QueuedBy
<1>5. QueuedOnce(r)
  <2> SUFFICES ASSUME NEW m \in DOMAIN r, NEW n \in DOMAIN r, r[m].by = r[n].by,
                      r[m].by # NoSignIn
               PROVE  m = n
    BY DEF QueuedOnce
  <2>1. CASE m \in DOMAIN q /\ n \in DOMAIN q
    BY <1>1, <2>1 DEF QueuedOnce
  <2>2. CASE m = Len(q) + 1 /\ n \in DOMAIN q
    BY <1>1, <2>2 DEF QueuedBy
  <2>3. CASE n = Len(q) + 1 /\ m \in DOMAIN q
    BY <1>1, <2>3 DEF QueuedBy
  <2> QED  BY <1>3, <2>1, <2>2, <2>3
<1> QED  BY <1>1, <1>2, <1>4, <1>5 DEF r

LEMMA FirstSnapshot ==
  ASSUME NEW q \in Seq(SnapshotOf), QueuedOnce(q), q # <<>>
  PROVE  /\ Head(q) \in SnapshotOf /\ Tail(q) \in Seq(SnapshotOf) /\ Len(Tail(q)) <= Len(q)
         /\ QueuedOnce(Tail(q)) /\ Head(q).by \in QueuedBy(q)
         /\ \A j \in SignIns : j \in QueuedBy(Tail(q)) <=> j \in QueuedBy(q) /\ j # Head(q).by
         /\ Tail(q) # <<>> => Tail(q)[Len(Tail(q))] = q[Len(q)]
         /\ Tail(q) = <<>> => Head(q) = q[Len(q)]
<1> DEFINE t == Tail(q)
           none == <<>>
<1>1. Len(q) \in Nat /\ DOMAIN q = 1..Len(q) /\ q # none
  BY LenProperties
<1>2. Len(q) >= 1
  <2>1. Len(q) = 0 => q = none
    BY EmptySeq
  <2> QED  BY <1>1, <2>1
<1>3. Head(q) \in SnapshotOf /\ t \in Seq(SnapshotOf) /\ Head(q) = q[1] /\ Len(t) = Len(q) - 1
      /\ \A n \in 1..(Len(q) - 1) : t[n] = q[n + 1]
  BY <1>2
<1>4. DOMAIN t = 1..(Len(q) - 1)
  BY <1>3, LenProperties
<1>5. t = none => Len(t) = 0
  BY EmptySeq
<1>6. t # none => Len(t) >= 1
  <2>1. Len(t) = 0 => t = none
    BY <1>3, EmptySeq
  <2> QED  BY <1>1, <1>2, <1>3, <2>1
<1> HIDE DEF t, none
<1>7. \A n \in DOMAIN t : n + 1 \in DOMAIN q /\ n + 1 # 1 /\ t[n] = q[n + 1]
  BY <1>1, <1>3, <1>4
<1>8. \A n \in DOMAIN q : n = 1 \/ (n - 1 \in DOMAIN t /\ t[n - 1] = q[n])
  <2> TAKE n \in DOMAIN q
  <2>1. n # 1 => n - 1 \in 1..(Len(q) - 1) /\ (n - 1) + 1 = n
    BY <1>1
  <2> QED  BY <1>3, <1>4, <2>1
<1>9. QueuedOnce(t)
  <2> SUFFICES ASSUME NEW m \in DOMAIN t, NEW n \in DOMAIN t, t[m].by = t[n].by,
                      t[m].by # NoSignIn
               PROVE  m = n
    BY DEF QueuedOnce
  <2>1. m + 1 = n + 1
    BY <1>7 DEF QueuedOnce
  <2> QED  BY <2>1, <1>4
<1>10. 1 \in DOMAIN q /\ Head(q).by \in QueuedBy(q)
  BY <1>1, <1>2, <1>3 DEF QueuedBy
<1>11. ASSUME NEW j \in SignIns
       PROVE  j \in QueuedBy(t) <=> j \in QueuedBy(q) /\ j # Head(q).by
  <2>1. j # NoSignIn
    BY SignerAssumption
  <2>2. ASSUME j \in QueuedBy(t)  PROVE j \in QueuedBy(q) /\ j # Head(q).by
    <3>1. PICK n \in DOMAIN t : t[n].by = j
      BY <2>2 DEF QueuedBy
    <3>2. n + 1 \in DOMAIN q /\ n + 1 # 1 /\ q[n + 1].by = j
      BY <1>7, <3>1
    <3>3. q[1].by # j
      BY <1>10, <2>1, <3>2 DEF QueuedOnce
    <3> QED  BY <1>3, <3>2, <3>3 DEF QueuedBy
  <2>3. ASSUME j \in QueuedBy(q), j # Head(q).by  PROVE j \in QueuedBy(t)
    <3>1. PICK n \in DOMAIN q : q[n].by = j
      BY <2>3 DEF QueuedBy
    <3>2. n - 1 \in DOMAIN t /\ t[n - 1].by = j
      BY <1>3, <1>8, <2>3, <3>1
    <3> QED  BY <3>2 DEF QueuedBy
  <2> QED  BY <2>2, <2>3
<1>12. t # none => t[Len(t)] = q[Len(q)]
  <2> SUFFICES ASSUME t # none  PROVE t[Len(t)] = q[Len(q)]
    OBVIOUS
  <2>1. Len(t) \in 1..(Len(q) - 1) /\ Len(t) + 1 = Len(q)
    BY <1>1, <1>3, <1>6
  <2> QED  BY <1>3, <2>1
<1>13. t = none => Head(q) = q[Len(q)]
  <2>1. t = none => Len(q) = 1
    BY <1>1, <1>3, <1>5
  <2> QED  BY <1>3, <2>1
<1>14. Len(t) <= Len(q)
  BY <1>1, <1>3
<1> QED  BY <1>3, <1>9, <1>10, <1>11, <1>12, <1>13, <1>14 DEF t, none

-----------------------------------------------------------------------------
\* The sign-ins.  Only that one begins, ends, saves or is aborted matters.
SameMarks(s, t) ==
  \A j \in SignIns : /\ t[j].kind = s[j].kind /\ t[j].aborted = s[j].aborted
                     /\ t[j].step = "idle" <=> s[j].step = "idle"
                     /\ t[j].step = "saving" <=> s[j].step = "saving"

LEMMA MarksKeep ==
  ASSUME NEW s, NEW t, SameMarks(s, t), NEW attempt \in SignIns \cup {NoSignIn}
  PROVE  /\ \A queue : Saves(s, queue) => Saves(t, queue)
         /\ \A page : OneRuns(s, attempt, page) => OneRuns(t, attempt, page)
<1>1. \A queue : Saves(s, queue) => Saves(t, queue)
  BY DEF SameMarks, Saves
<1>2. ASSUME NEW page, OneRuns(s, attempt, page)  PROVE OneRuns(t, attempt, page)
  BY <1>2 DEF SameMarks, OneRuns
<1> QED  BY <1>1, <1>2

LEMMA AbortedMarks ==
  ASSUME SignInsOK, attemptId \in SignIns \cup {NoSignIn}
  PROVE  /\ AbortedAttempt \in [SignIns -> SignInKnown]
         /\ \A j \in SignIns : AbortedAttempt[j].step = signIns[j].step
         /\ Saves(AbortedAttempt, snapshots)
         /\ \A page : page \notin {"preparing", "awaiting"} =>
                        OneRuns(AbortedAttempt, NoSignIn, page)
<1> DEFINE t == AbortedAttempt
<1>1. signIns \in [SignIns -> SignInKnown] /\ Saves(signIns, snapshots)
      /\ OneRuns(signIns, attemptId, pending)
  BY DEF SignInsOK
<1>2. CASE attemptId = NoSignIn \/ signIns[attemptId].step = "saving"
  <2>1. t = signIns
    BY <1>2 DEF AbortedAttempt
  <2>2. ASSUME NEW page, page \notin {"preparing", "awaiting"}
        PROVE  OneRuns(signIns, NoSignIn, page)
    BY <1>1, <1>2, <2>2 DEF OneRuns
  <2> QED  BY <1>1, <2>1, <2>2
<1>3. CASE attemptId \in SignIns /\ signIns[attemptId].step # "saving"
  <2>1. attemptId # NoSignIn
    BY <1>3, SignerAssumption
  <2>2. t = [signIns EXCEPT ![attemptId].aborted = TRUE]
    BY <1>3, <2>1 DEF AbortedAttempt
  <2>3. ASSUME NEW j \in SignIns
        PROVE  /\ t[j] \in SignInKnown /\ t[j].step = signIns[j].step /\ t[j].kind = signIns[j].kind
               /\ t[j].aborted = IF j = attemptId THEN TRUE ELSE signIns[j].aborted
    BY <1>1, <1>3, <2>2 DEF SignInKnown, SignInState
  <2>4. t \in [SignIns -> SignInKnown]
    BY <1>1, <1>3, <2>2 DEF SignInKnown, SignInState
  <2> HIDE DEF t
  <2>5. Saves(t, snapshots)
    BY <1>1, <2>3 DEF Saves
  <2>6. ASSUME NEW page, page \notin {"preparing", "awaiting"}
        PROVE  OneRuns(t, NoSignIn, page)
    BY <1>1, <2>3, <2>6 DEF OneRuns
  <2> QED  BY <2>3, <2>4, <2>5, <2>6 DEF t
<1> QED  BY <1>2, <1>3

LEMMA StrayedMarks ==
  ASSUME NEW t \in [SignIns -> SignInKnown]
  PROVE  Strayed(t) \in [SignIns -> SignInKnown] /\ SameMarks(t, Strayed(t))
<1> DEFINE s == Strayed(t)
<1>1. ASSUME NEW j \in SignIns
      PROVE  /\ s[j] \in SignInKnown /\ s[j].kind = t[j].kind /\ s[j].aborted = t[j].aborted
             /\ s[j].step = IF t[j].step = "restoring" THEN "stray" ELSE t[j].step
  <2>1. s[j] = IF t[j].step = "restoring" THEN [t[j] EXCEPT !.step = "stray"] ELSE t[j]
    BY DEF Strayed
  <2>2. t[j] \in SignInKnown
    OBVIOUS
  <2> QED  BY <2>1, <2>2 DEF SignInKnown, SignInState, Steps
<1>2. s \in [SignIns -> SignInKnown]
  <2>1. s = [j \in SignIns |-> s[j]]
    BY DEF Strayed
  <2> QED  BY <1>1, <2>1
<1> QED  BY <1>1, <1>2 DEF SameMarks

\* A sign-in that is over is no attempt and saves nothing.
LEMMA OverMarks ==
  ASSUME NEW t \in [SignIns -> SignInKnown], NEW j \in SignIns,
         attemptId \in SignIns \cup {NoSignIn}, OneRuns(t, attemptId, pending),
         SignInOver(t, j, TRUE) \/ SignInOver(t, j, FALSE),
         pending \in {"idle", "preparing", "awaiting", "error"}
  PROVE  /\ signIns' \in [SignIns -> SignInKnown]
         /\ signIns'[j].step = "idle" /\ \A i \in SignIns \ {j} : signIns'[i] = t[i]
         /\ OneRuns(signIns', attemptId', pending')
         /\ attemptId' \in SignIns \cup {NoSignIn}
         /\ pending' \in {"idle", "preparing", "awaiting", "error"}
<1>1. /\ signIns' = [t EXCEPT ![j] = Unused]
      /\ attemptId' = (IF attemptId = j THEN NoSignIn ELSE attemptId)
      /\ (pending' = pending /\ attemptId # j) \/ pending' \in {"error", "idle"}
  BY DEF SignInOver
<1>2. Unused \in SignInKnown /\ Unused.step = "idle"
  BY DEF Unused, SignInKnown, SignInState, Steps, Kinds
<1>3. signIns' \in [SignIns -> SignInKnown] /\ signIns'[j] = Unused
      /\ \A i \in SignIns \ {j} : signIns'[i] = t[i]
  BY <1>1, <1>2
<1>4. OneRuns(signIns', attemptId', pending')
  BY <1>1, <1>2, <1>3, SignerAssumption DEF OneRuns
<1> QED  BY <1>1, <1>2, <1>3, <1>4

\* How far a sign-in is changes, to a step before its activation.
LEMMA ResumedMarks ==
  ASSUME SignInsOK, NEW from \in {"restoring", "stray"}, Resumed(from)
  PROVE  signIns' \in [SignIns -> SignInKnown] /\ SameMarks(signIns, signIns')
<1>1. signIns \in [SignIns -> SignInKnown]
  BY DEF SignInsOK
<1>2. ASSUME NEW j \in SignIns
      PROVE  /\ signIns'[j] \in SignInKnown /\ signIns'[j].kind = signIns[j].kind
             /\ signIns'[j].aborted = signIns[j].aborted
             /\ \/ signIns'[j].step = signIns[j].step
                \/ signIns'[j].step \in {"opening", "asking"} /\ signIns[j].step = from
  <2>1. signIns'[j] = IF signIns[j].step = from
                      THEN [signIns[j] EXCEPT !.step = AfterReading(signIns[j].kind)]
                      ELSE signIns[j]
    BY DEF Resumed
  <2>2. signIns[j] \in SignInKnown /\ AfterReading(signIns[j].kind) \in {"opening", "asking"}
    BY <1>1 DEF AfterReading
  <2>3. signIns[j] \in SignInState
        /\ (signIns[j].step = from /\ AfterReading(signIns[j].kind) = "asking"
              => signIns[j].account \in AccountIds)
    BY <2>2 DEF SignInKnown, SignInState, Kinds, AfterReading
  <2>4. CASE signIns[j].step # from
    BY <2>1, <2>2, <2>4
  <2>5. CASE signIns[j].step = from
    <3> DEFINE t == [signIns[j] EXCEPT !.step = AfterReading(signIns[j].kind)]
    <3>1. /\ t \in SignInState /\ t.kind = signIns[j].kind /\ t.aborted = signIns[j].aborted
          /\ t.account = signIns[j].account /\ t.step = AfterReading(signIns[j].kind)
      BY <2>2, <2>3 DEF SignInState, Steps
    <3>2. signIns[j].kind = "direct" => t.step = "asking"
      BY <3>1 DEF AfterReading
    <3>3. t \in SignInKnown
      BY <2>2, <2>3, <2>5, <3>1, <3>2 DEF SignInKnown
    <3> QED  BY <2>1, <2>2, <2>5, <3>1, <3>3
  <2> QED  BY <2>4, <2>5
<1>3. signIns' \in [SignIns -> SignInKnown]
  <2>1. signIns' = [j \in SignIns |-> signIns'[j]]
    BY DEF Resumed
  <2> QED  BY <1>2, <2>1
<1>4. SameMarks(signIns, signIns')
  <2> SUFFICES ASSUME NEW j \in SignIns
               PROVE  /\ signIns'[j].kind = signIns[j].kind
                      /\ signIns'[j].aborted = signIns[j].aborted
                      /\ signIns'[j].step = "idle" <=> signIns[j].step = "idle"
                      /\ signIns'[j].step = "saving" <=> signIns[j].step = "saving"
    BY DEF SameMarks
  <2> QED  BY <1>2
<1> QED  BY <1>3, <1>4

LEMMA AskingState ==
  ASSUME NEW kind \in Kinds, NEW a \in AccountIds \cup {NobodySignedIn},
         kind = "direct" => a \in AccountIds
  PROVE  /\ Asking(kind, a) \in SignInKnown /\ Asking(kind, a).kind = kind
         /\ Asking(kind, a).aborted = FALSE /\ Asking(kind, a).step \notin {"idle", "saving"}
BY DEF Asking, AfterReading, SignInKnown, SignInState, Steps, Kinds

LEMMA FieldTypes ==
  ASSUME SignerInv
  PROVE  /\ SignerFields /\ QueueOK /\ SignInsOK
         /\ activeId \in AccountIds \cup {NobodySignedIn}
         /\ accountsFile \in AccountIds \cup {NobodySignedIn}
         /\ restoreAsked \in BOOLEAN /\ behind \in BOOLEAN
         /\ found \subseteq AccountIds \cup {NobodySignedIn}
         /\ strayRead \subseteq AccountIds \cup {NobodySignedIn}
         /\ restored = "reading" <=> found # {}
         /\ attemptId \in SignIns \cup {NoSignIn}
         /\ restored \in {"none", "reading", "done"}
BY DEF SignerInv, SignerFields

\* A request shares the reading that is under way, or begins one.
LEMMA ReadsTypes ==
  ASSUME SignerInv, Reads
  PROVE  /\ restored' \in {"reading", "done"} /\ (restored' = "done" <=> restored = "done")
         /\ found' \subseteq AccountIds \cup {NobodySignedIn}
         /\ restored' = "reading" <=> found' # {}
<1>1. /\ restored \in {"none", "reading", "done"} /\ (restored = "reading" <=> found # {})
      /\ found \subseteq AccountIds \cup {NobodySignedIn}
      /\ accountsFile \in AccountIds \cup {NobodySignedIn}
  BY FieldTypes
<1>2. CASE restored = "none"
  <2>1. restored' = "reading" /\ found' = {accountsFile}
    BY <1>2 DEF Reads
  <2> QED  BY <1>1, <1>2, <2>1
<1>3. CASE restored # "none"
  <2>1. restored' = restored /\ found' = found
    BY <1>3 DEF Reads
  <2> QED  BY <1>1, <1>3, <2>1
<1> QED  BY <1>2, <1>3

-----------------------------------------------------------------------------
\* Requests that queue nothing leave the queue as it is.
LEMMA SameQueue ==
  ASSUME QueueOK, UNCHANGED <<snapshots, accountsFile, activeId, behind>>,
         restored' = "done" => restored = "done"
  PROVE  QueueOK'
BY DEF QueueOK, NewestIsActive

LEMMA RestoreInv == SignerInv /\ Restore => SignerInv'
<1> SUFFICES ASSUME SignerInv, Restore  PROVE SignerInv'
  OBVIOUS
<1>1. UNCHANGED <<activeId, online, accountsFile, snapshots, strayRead, behind, signIns, attemptId,
                  pending>> /\ restoreAsked' = TRUE /\ Reads
  BY DEF Restore, kept
<1>2. SignerFields'
  BY <1>1, FieldTypes, ReadsTypes DEF SignerFields
<1>3. QueueOK'
  BY <1>1, FieldTypes, ReadsTypes, SameQueue
<1>4. SignInsOK'
  BY <1>1, FieldTypes DEF SignInsOK
<1> QED  BY <1>2, <1>3, <1>4 DEF SignerInv

LEMMA StartAttemptInv ==
  ASSUME SignerInv, NEW j \in SignIns, StartAttempt(j)
  PROVE  SignerInv'
<1> DEFINE new == Asking("connect", NobodySignedIn)
<1>1. /\ UNCHANGED <<activeId, online, accountsFile, snapshots, strayRead, behind, restoreAsked>>
      /\ signIns[j].step = "idle" /\ attemptId = NoSignIn /\ attemptId' = j
      /\ pending' = "preparing" /\ Reads /\ signIns' = [signIns EXCEPT ![j] = new]
  BY DEF StartAttempt, SignInRuns, kept
<1>2. /\ signIns \in [SignIns -> SignInKnown] /\ Saves(signIns, snapshots)
      /\ OneRuns(signIns, attemptId, pending)
  BY FieldTypes DEF SignInsOK
<1>3. new \in SignInKnown /\ new.kind = "connect" /\ new.aborted = FALSE
      /\ new.step \notin {"idle", "saving"}
  BY AskingState DEF Kinds
<1> HIDE DEF new
<1>4. signIns' \in [SignIns -> SignInKnown] /\ signIns'[j] = new
      /\ \A i \in SignIns \ {j} : signIns'[i] = signIns[i]
  BY <1>1, <1>2, <1>3
<1>5. Saves(signIns', snapshots')
  BY <1>1, <1>2, <1>3, <1>4 DEF Saves
<1>6. OneRuns(signIns', attemptId', pending')
  BY <1>1, <1>2, <1>3, <1>4, SignerAssumption DEF OneRuns
<1>7. SignerFields'
  BY <1>1, FieldTypes, ReadsTypes DEF SignerFields
<1>8. QueueOK'
  BY <1>1, FieldTypes, ReadsTypes, SameQueue
<1> QED  BY <1>4, <1>5, <1>6, <1>7, <1>8 DEF SignerInv, SignInsOK

LEMMA CancelAttemptInv == SignerInv /\ CancelAttempt => SignerInv'
<1> SUFFICES ASSUME SignerInv, CancelAttempt  PROVE SignerInv'
  OBVIOUS
<1>1. /\ UNCHANGED <<activeId, online, accountsFile, snapshots, strayRead, behind, restored,
                     found, restoreAsked>>
      /\ signIns' = AbortedAttempt /\ attemptId' = NoSignIn /\ pending' = "idle"
  BY DEF CancelAttempt, kept
<1>2. SignInsOK'
  BY <1>1, FieldTypes, AbortedMarks DEF SignInsOK
<1>3. SignerFields'
  BY <1>1, FieldTypes DEF SignerFields
<1>4. QueueOK'
  BY <1>1, FieldTypes, SameQueue
<1> QED  BY <1>2, <1>3, <1>4 DEF SignerInv

LEMMA SignInDirectlyInv ==
  ASSUME SignerInv, NEW j \in SignIns, NEW a \in AccountIds, SignInDirectly(j, a)
  PROVE  SignerInv'
<1> DEFINE new == Asking("direct", a)
           s == AbortedAttempt
<1>1. /\ UNCHANGED <<activeId, online, accountsFile, snapshots, strayRead, behind, restoreAsked>>
      /\ signIns[j].step = "idle" /\ attemptId' = NoSignIn
      /\ pending' = "idle" /\ Reads /\ signIns' = [s EXCEPT ![j] = new]
  BY DEF SignInDirectly, SignInRuns, kept
<1>2. /\ s \in [SignIns -> SignInKnown] /\ Saves(s, snapshots)
      /\ OneRuns(s, NoSignIn, "idle") /\ s[j].step = "idle"
  BY <1>1, FieldTypes, AbortedMarks
<1>3. new \in SignInKnown /\ new.kind = "direct" /\ new.aborted = FALSE
      /\ new.step \notin {"idle", "saving"}
  BY AskingState DEF Kinds
<1> HIDE DEF new, s
<1>4. signIns' \in [SignIns -> SignInKnown] /\ signIns'[j] = new
      /\ \A i \in SignIns \ {j} : signIns'[i] = s[i]
  BY <1>1, <1>2, <1>3
<1>5. Saves(signIns', snapshots')
  BY <1>1, <1>2, <1>3, <1>4 DEF Saves
<1>6. OneRuns(signIns', attemptId', pending')
  BY <1>1, <1>2, <1>3, <1>4 DEF OneRuns
<1>7. SignerFields'
  BY <1>1, FieldTypes, ReadsTypes DEF SignerFields
<1>8. QueueOK'
  BY <1>1, FieldTypes, ReadsTypes, SameQueue
<1> QED  BY <1>4, <1>5, <1>6, <1>7, <1>8 DEF SignerInv, SignInsOK

\* An account is put in place and its snapshot queued.
LEMMA NewSnapshot ==
  ASSUME SignerInv, NEW a \in AccountIds \cup {NobodySignedIn}, NEW j \in SignIns \cup {NoSignIn},
         Len(snapshots) < MaxSnapshots, j = NoSignIn \/ j \notin QueuedBy(snapshots),
         activeId' = a, snapshots' = Queued(a, j), UNCHANGED <<accountsFile, behind>>
  PROVE  QueueOK' /\ QueuedBy(snapshots') = QueuedBy(snapshots) \cup {j}
<1> DEFINE snapshot == [active |-> a, by |-> j]
<1>1. snapshot \in SnapshotOf /\ snapshot.by = j /\ snapshot.active = a
  BY DEF SnapshotOf
<1>2. snapshots \in Seq(SnapshotOf) /\ QueuedOnce(snapshots) /\ snapshots' = Append(snapshots, snapshot)
  BY DEF SignerInv, QueueOK, Queued
<1> HIDE DEF snapshot
<1>3. /\ snapshots' \in Seq(SnapshotOf) /\ snapshots' # <<>>
      /\ Len(snapshots') = Len(snapshots) + 1
      /\ QueuedOnce(snapshots') /\ QueuedBy(snapshots') = QueuedBy(snapshots) \cup {j}
      /\ snapshots'[Len(snapshots')] = snapshot
  BY <1>1, <1>2, QueuedAtEnd
<1>4. Len(snapshots') <= MaxSnapshots
  <2>1. Len(snapshots) \in Nat
    BY <1>2, LenProperties
  <2>2. Len(snapshots') \in Nat
    BY <1>3, LenProperties
  <2>3. Len(snapshots) <= MaxSnapshots
    BY DEF SignerInv, QueueOK
  <2> QED  BY <1>3, <2>1, <2>2, <2>3, SignerAssumption
<1>5. NewestIsActive(snapshots', accountsFile', activeId', restored', behind')
  BY <1>1, <1>3 DEF NewestIsActive
<1> QED  BY <1>3, <1>4, <1>5 DEF QueueOK

LEMMA SignOutInv == SignerInv /\ SignOutAsked => SignerInv'
<1> SUFFICES ASSUME SignerInv, SignOutAsked  PROVE SignerInv'
  OBVIOUS
<1> DEFINE s == AbortedAttempt
<1>1. /\ Len(snapshots) < MaxSnapshots /\ signIns' = Strayed(s)
      /\ attemptId' = NoSignIn /\ pending' = "idle" /\ activeId' = NobodySignedIn
      /\ snapshots' = Queued(NobodySignedIn, NoSignIn)
      /\ restored' = "none" /\ found' = {} /\ strayRead' = strayRead \cup found
      /\ UNCHANGED <<online, accountsFile, restoreAsked, behind>>
  BY DEF SignOutAsked, Forget
<1>2. s \in [SignIns -> SignInKnown] /\ Saves(s, snapshots) /\ OneRuns(s, NoSignIn, "idle")
  BY FieldTypes, AbortedMarks
<1>3. QueueOK' /\ QueuedBy(snapshots') = QueuedBy(snapshots) \cup {NoSignIn}
  BY <1>1, NewSnapshot
<1> HIDE DEF s
<1>4. signIns' \in [SignIns -> SignInKnown] /\ SameMarks(s, signIns')
  BY <1>1, <1>2, StrayedMarks
<1>5. Saves(signIns', snapshots) /\ OneRuns(signIns', attemptId', pending')
  BY <1>1, <1>2, <1>4, MarksKeep
<1>6. Saves(signIns', snapshots')
  BY <1>3, <1>5, SignerAssumption DEF Saves
<1>7. SignerFields'
  BY <1>1, FieldTypes DEF SignerFields
<1> QED  BY <1>3, <1>4, <1>5, <1>6, <1>7 DEF SignerInv, SignInsOK

-----------------------------------------------------------------------------
\* The file was read: who it names is active, and what waited for it goes on.
LEMMA FileTaken ==
  ASSUME SignerInv, NEW read \in AccountIds \cup {NobodySignedIn}, Takes(read),
         UNCHANGED <<snapshots, accountsFile>>, restored' \in {restored, "done"}
  PROVE  /\ QueueOK' /\ activeId' \in AccountIds \cup {NobodySignedIn} /\ behind' \in BOOLEAN
<1>1. /\ activeId' = (IF read = NobodySignedIn THEN activeId ELSE read)
      /\ behind' = \/ behind
                   \/ snapshots # <<>> /\ read # NobodySignedIn
                   \/ read # accountsFile /\ activeId' # accountsFile
  BY DEF Takes
<1>2. NewestIsActive(snapshots, accountsFile, activeId, restored, behind)
  BY DEF SignerInv, QueueOK
<1>3. NewestIsActive(snapshots', accountsFile', activeId', restored', behind')
  BY <1>1, <1>2 DEF NewestIsActive
<1> QED  BY <1>1, <1>3, FieldTypes DEF QueueOK

LEMMA FileReadInv == SignerInv /\ (FileRead \/ StrayFileRead) => SignerInv'
<1> SUFFICES ASSUME SignerInv, FileRead \/ StrayFileRead  PROVE SignerInv'
  OBVIOUS
<1>1. PICK from \in {"restoring", "stray"} : Resumed(from)
  BY DEF FileRead, StrayFileRead
<1>2. /\ UNCHANGED <<online, accountsFile, snapshots, restoreAsked, attemptId, pending>>
      /\ restored' \in {restored, "done"} /\ strayRead' \in {strayRead, {}}
      /\ found' \in {found, {}} /\ (restored' = "reading" <=> found' # {})
  BY FieldTypes DEF FileRead, StrayFileRead
<1>7. PICK read \in AccountIds \cup {NobodySignedIn} : Takes(read)
  BY FieldTypes DEF FileRead, StrayFileRead
<1>3. signIns' \in [SignIns -> SignInKnown] /\ SameMarks(signIns, signIns')
  BY <1>1, FieldTypes, ResumedMarks
<1>4. Saves(signIns', snapshots') /\ OneRuns(signIns', attemptId', pending')
  BY <1>2, <1>3, FieldTypes, MarksKeep DEF SignInsOK
<1>5. QueueOK' /\ activeId' \in AccountIds \cup {NobodySignedIn} /\ behind' \in BOOLEAN
  BY <1>2, <1>7, FileTaken
<1>6. SignerFields'
  BY <1>2, <1>5, FieldTypes DEF SignerFields
<1> QED  BY <1>3, <1>4, <1>5, <1>6 DEF SignerInv, SignInsOK

LEMMA RestoreFailsInv == SignerInv /\ RestoreFails => SignerInv'
<1> SUFFICES ASSUME SignerInv, RestoreFails  PROVE SignerInv'
  OBVIOUS
<1>1. /\ UNCHANGED <<activeId, online, accountsFile, snapshots, strayRead, behind>>
      /\ restored' = "none" /\ found' = {} /\ restoreAsked' = FALSE
      /\ signIns' = [j \in SignIns |-> IF signIns[j].step = "restoring" THEN Unused ELSE signIns[j]]
      /\ attemptId' = (IF attemptId # NoSignIn /\ signIns[attemptId].step = "restoring"
                       THEN NoSignIn ELSE attemptId)
      /\ pending' = (IF \E j \in SignIns : signIns[j].step = "restoring"
                          /\ (signIns[j].kind = "direct" \/ attemptId = j)
                     THEN "error" ELSE pending)
  BY DEF RestoreFails, kept
<1>2. /\ signIns \in [SignIns -> SignInKnown] /\ Saves(signIns, snapshots)
      /\ OneRuns(signIns, attemptId, pending) /\ attemptId \in SignIns \cup {NoSignIn}
  BY FieldTypes DEF SignInsOK
<1>3. Unused \in SignInKnown /\ Unused.step = "idle"
  BY DEF Unused, SignInKnown, SignInState, Steps, Kinds
<1>4. signIns' \in [SignIns -> SignInKnown]
  BY <1>1, <1>2, <1>3
<1>5. \A j \in SignIns :
        signIns'[j] = IF signIns[j].step = "restoring" THEN Unused ELSE signIns[j]
  BY <1>1
<1>6. Saves(signIns', snapshots')
  BY <1>1, <1>2, <1>3, <1>5 DEF Saves
<1>7. OneRuns(signIns', attemptId', pending')
  <2>1. attemptId' # NoSignIn =>
          attemptId' = attemptId /\ attemptId \in SignIns /\ signIns'[attemptId] = signIns[attemptId]
    BY <1>1, <1>2, <1>5
  <2>2. ASSUME NEW j \in SignIns, signIns'[j].step \notin {"idle", "saving"},
               signIns'[j].kind = "connect", ~signIns'[j].aborted
        PROVE  attemptId' = j
    <3>1. signIns'[j] = signIns[j] /\ signIns[j].step # "restoring"
      BY <1>3, <1>5, <2>2
    <3>2. attemptId = j
      BY <1>2, <2>2, <3>1 DEF OneRuns
    <3> QED  BY <1>1, <3>1, <3>2
  <2>3. ASSUME pending' \in {"preparing", "awaiting"}  PROVE attemptId' # NoSignIn
    <3>1. pending' = pending
          /\ ~(\E j \in SignIns : signIns[j].step = "restoring"
                 /\ (signIns[j].kind = "direct" \/ attemptId = j))
      BY <1>1, <2>3
    <3>2. attemptId # NoSignIn /\ attemptId \in SignIns
      BY <1>2, <2>3, <3>1 DEF OneRuns
    <3>3. signIns[attemptId].step # "restoring"
      BY <3>1, <3>2
    <3> QED  BY <1>1, <3>2, <3>3
  <2> QED  BY <1>2, <2>1, <2>2, <2>3 DEF OneRuns
<1>8. attemptId' \in SignIns \cup {NoSignIn} /\ pending' \in {pending, "error"}
  BY <1>1, <1>2
<1>9. SignerFields'
  BY <1>1, <1>8, FieldTypes DEF SignerFields
<1>10. QueueOK'
  BY <1>1, FieldTypes, SameQueue
<1> QED  BY <1>4, <1>6, <1>7, <1>9, <1>10 DEF SignerInv, SignInsOK

-----------------------------------------------------------------------------
\* A sign-in goes on.
LEMMA OpenedInv ==
  ASSUME SignerInv, NEW j \in SignIns, Opened(j)
  PROVE  SignerInv'
<1>1. /\ UNCHANGED <<activeId, online, accountsFile, snapshots, strayRead, behind, restored,
                     found, restoreAsked, attemptId>>
      /\ signIns[j].step = "opening" /\ signIns' = [signIns EXCEPT ![j].step = "waiting"]
      /\ pending' = (IF attemptId = j THEN "awaiting" ELSE pending)
  BY DEF Opened, To, kept
<1>2. /\ signIns \in [SignIns -> SignInKnown] /\ Saves(signIns, snapshots)
      /\ OneRuns(signIns, attemptId, pending)
  BY FieldTypes DEF SignInsOK
<1>3. ASSUME NEW i \in SignIns
      PROVE  /\ signIns'[i] \in SignInKnown /\ signIns'[i].kind = signIns[i].kind
             /\ signIns'[i].aborted = signIns[i].aborted
             /\ signIns'[i].step = IF i = j THEN "waiting" ELSE signIns[i].step
  <2>1. signIns'[i] = IF i = j THEN [signIns[j] EXCEPT !.step = "waiting"] ELSE signIns[i]
    BY <1>1, <1>2
  <2>2. signIns[i] \in SignInKnown
    BY <1>2
  <2>3. CASE i # j
    BY <2>1, <2>2, <2>3
  <2>4. CASE i = j
    <3> DEFINE t == [signIns[j] EXCEPT !.step = "waiting"]
    <3>1. signIns[j] \in SignInState
      BY <2>2, <2>4 DEF SignInKnown
    <3>2. /\ t \in SignInState /\ t.kind = signIns[j].kind /\ t.aborted = signIns[j].aborted
          /\ t.account = signIns[j].account /\ t.step = "waiting"
      BY <3>1 DEF SignInState, Steps
    <3>3. t \in SignInKnown
      BY <1>1, <2>2, <2>4, <3>2 DEF SignInKnown
    <3> QED  BY <2>1, <2>4, <3>2, <3>3
  <2> QED  BY <2>3, <2>4
<1>4. signIns' \in [SignIns -> SignInKnown]
  <2>1. signIns' = [i \in SignIns |-> signIns'[i]]
    BY <1>1, <1>2
  <2> QED  BY <1>3, <2>1
<1>5. SameMarks(signIns, signIns')
  BY <1>1, <1>3 DEF SameMarks
<1>6. Saves(signIns', snapshots') /\ OneRuns(signIns', attemptId, pending)
  BY <1>1, <1>2, <1>5, FieldTypes, MarksKeep
<1>7. OneRuns(signIns', attemptId', pending')
  BY <1>1, <1>6, SignerAssumption DEF OneRuns
<1>8. SignerFields'
  BY <1>1, FieldTypes DEF SignerFields
<1>9. QueueOK'
  BY <1>1, FieldTypes, SameQueue
<1> QED  BY <1>4, <1>6, <1>7, <1>8, <1>9 DEF SignerInv, SignInsOK

LEMMA ApprovedInv ==
  ASSUME SignerInv, NEW j \in SignIns, NEW a \in AccountIds, Approved(j, a)
  PROVE  SignerInv'
<1>1. /\ UNCHANGED <<activeId, online, accountsFile, snapshots, strayRead, behind, restored,
                     found, restoreAsked, attemptId, pending>>
      /\ signIns[j].step = "waiting"
      /\ signIns' = [signIns EXCEPT ![j].step = "asking", ![j].account = a]
  BY DEF Approved, kept
<1>2. /\ signIns \in [SignIns -> SignInKnown] /\ Saves(signIns, snapshots)
      /\ OneRuns(signIns, attemptId, pending)
  BY FieldTypes DEF SignInsOK
<1>3. ASSUME NEW i \in SignIns
      PROVE  /\ signIns'[i] \in SignInKnown /\ signIns'[i].kind = signIns[i].kind
             /\ signIns'[i].aborted = signIns[i].aborted
             /\ signIns'[i].step = IF i = j THEN "asking" ELSE signIns[i].step
  <2>1. signIns'[i] = IF i = j THEN [signIns[j] EXCEPT !.step = "asking", !.account = a]
                      ELSE signIns[i]
    BY <1>1, <1>2
  <2>2. signIns[i] \in SignInKnown
    BY <1>2
  <2>3. CASE i # j
    BY <2>1, <2>2, <2>3
  <2>4. CASE i = j
    <3> DEFINE t == [signIns[j] EXCEPT !.step = "asking", !.account = a]
    <3>1. signIns[j] \in SignInState
      BY <2>2, <2>4 DEF SignInKnown
    <3>2. /\ t \in SignInState /\ t.kind = signIns[j].kind /\ t.aborted = signIns[j].aborted
          /\ t.account = a /\ t.step = "asking"
      BY <3>1 DEF SignInState, Steps
    <3>3. t \in SignInKnown
      BY <1>1, <2>2, <2>4, <3>2 DEF SignInKnown
    <3> QED  BY <2>1, <2>4, <3>2, <3>3
  <2> QED  BY <2>3, <2>4
<1>4. signIns' \in [SignIns -> SignInKnown]
  <2>1. signIns' = [i \in SignIns |-> signIns'[i]]
    BY <1>1, <1>2
  <2> QED  BY <1>3, <2>1
<1>5. SameMarks(signIns, signIns')
  <2> SUFFICES ASSUME NEW i \in SignIns
               PROVE  /\ signIns'[i].kind = signIns[i].kind
                      /\ signIns'[i].aborted = signIns[i].aborted
                      /\ signIns'[i].step = "idle" <=> signIns[i].step = "idle"
                      /\ signIns'[i].step = "saving" <=> signIns[i].step = "saving"
    BY DEF SameMarks
  <2>1. signIns[j].step = "waiting"
    BY <1>1
  <2> QED  BY <1>3, <2>1
<1>6. Saves(signIns', snapshots') /\ OneRuns(signIns', attemptId', pending')
  BY <1>1, <1>2, <1>5, FieldTypes, MarksKeep
<1>7. SignerFields'
  BY <1>1, FieldTypes DEF SignerFields
<1>8. QueueOK'
  BY <1>1, FieldTypes, SameQueue
<1> QED  BY <1>4, <1>6, <1>7, <1>8 DEF SignerInv, SignInsOK

\* The wait for approval ends, or the signer is not opened or does not answer.
LEMMA SignInFailsInv ==
  ASSUME SignerInv, NEW j \in SignIns, WaitEnds(j) \/ SignInFails(j)
  PROVE  SignerInv'
<1>1. /\ UNCHANGED <<activeId, online, accountsFile, snapshots, strayRead, behind, restored,
                     found, restoreAsked>>
      /\ signIns[j].step \in {"waiting", "opening", "asking"} /\ SignInOver(signIns, j, TRUE)
  BY DEF WaitEnds, SignInFails, kept
<1>2. /\ signIns \in [SignIns -> SignInKnown] /\ Saves(signIns, snapshots)
      /\ OneRuns(signIns, attemptId, pending) /\ attemptId \in SignIns \cup {NoSignIn}
      /\ pending \in {"idle", "preparing", "awaiting", "error"}
  BY FieldTypes DEF SignInsOK, SignerFields
<1>3. /\ signIns' \in [SignIns -> SignInKnown]
      /\ signIns'[j].step = "idle" /\ \A i \in SignIns \ {j} : signIns'[i] = signIns[i]
      /\ OneRuns(signIns', attemptId', pending')
      /\ attemptId' \in SignIns \cup {NoSignIn}
      /\ pending' \in {"idle", "preparing", "awaiting", "error"}
  BY <1>1, <1>2, OverMarks
<1>4. Saves(signIns', snapshots')
  BY <1>1, <1>2, <1>3 DEF Saves
<1>5. SignerFields'
  BY <1>1, <1>3, FieldTypes DEF SignerFields
<1>6. QueueOK'
  BY <1>1, FieldTypes, SameQueue
<1> QED  BY <1>3, <1>4, <1>5, <1>6 DEF SignerInv, SignInsOK

LEMMA ActivateInv ==
  ASSUME SignerInv, NEW j \in SignIns, Activate(j)
  PROVE  SignerInv'
<1> DEFINE a == signIns[j].account
<1>1. /\ signIns[j].step = "asking" /\ Len(snapshots) < MaxSnapshots /\ activeId' = a
      /\ online' = online \cup ({a} \ KeyAccounts) /\ snapshots' = Queued(a, j)
      /\ signIns' = [signIns EXCEPT ![j].step = "saving"]
      /\ UNCHANGED <<accountsFile, restored, found, strayRead, restoreAsked, attemptId, pending,
                     behind>>
  BY DEF Activate, To
<1>2. /\ signIns \in [SignIns -> SignInKnown] /\ Saves(signIns, snapshots)
      /\ OneRuns(signIns, attemptId, pending)
  BY FieldTypes DEF SignInsOK
<1>3. a \in AccountIds
  <2>1. signIns[j] \in SignInKnown
    BY <1>2
  <2> QED  BY <1>1, <2>1 DEF SignInKnown, SignInState
<1>4. j \notin QueuedBy(snapshots)
  BY <1>1, <1>2 DEF Saves
<1> HIDE DEF a
<1>5. QueueOK' /\ QueuedBy(snapshots') = QueuedBy(snapshots) \cup {j}
  BY <1>1, <1>3, <1>4, NewSnapshot
<1>6. ASSUME NEW i \in SignIns
      PROVE  /\ signIns'[i] \in SignInKnown /\ signIns'[i].kind = signIns[i].kind
             /\ signIns'[i].aborted = signIns[i].aborted
             /\ signIns'[i].step = IF i = j THEN "saving" ELSE signIns[i].step
  <2>1. signIns'[i] = IF i = j THEN [signIns[j] EXCEPT !.step = "saving"] ELSE signIns[i]
    BY <1>1, <1>2
  <2>2. signIns[i] \in SignInKnown
    BY <1>2
  <2> QED  BY <1>1, <2>1, <2>2 DEF SignInKnown, SignInState, Steps
<1>7. signIns' \in [SignIns -> SignInKnown]
  <2>1. signIns' = [i \in SignIns |-> signIns'[i]]
    BY <1>1, <1>2
  <2> QED  BY <1>6, <2>1
<1>8. Saves(signIns', snapshots')
  BY <1>2, <1>5, <1>6 DEF Saves
<1>9. OneRuns(signIns', attemptId', pending')
  <2>1. attemptId \in SignIns \cup {NoSignIn}
    BY FieldTypes
  <2> QED  BY <1>1, <1>2, <1>6, <2>1 DEF OneRuns
<1>10. SignerFields'
  BY <1>1, <1>3, FieldTypes DEF SignerFields
<1> QED  BY <1>5, <1>7, <1>8, <1>9, <1>10 DEF SignerInv, SignInsOK

-----------------------------------------------------------------------------
\* The store is done with a snapshot, and its sign-in is over.
LEMMA SnapshotOverInv ==
  ASSUME SignerInv, snapshots # <<>>, NEW failed \in BOOLEAN, SnapshotOver(failed)
  PROVE  /\ SignInsOK'
         /\ attemptId' \in SignIns \cup {NoSignIn}
         /\ pending' \in {"idle", "preparing", "awaiting", "error"}
         /\ restoreAsked' \in BOOLEAN /\ snapshots' = Tail(snapshots)
<1> DEFINE j == Head(snapshots).by
<1>1. snapshots \in Seq(SnapshotOf) /\ QueuedOnce(snapshots)
  BY DEF SignerInv, QueueOK
<1>2. /\ Head(snapshots) \in SnapshotOf /\ j \in QueuedBy(snapshots)
      /\ \A i \in SignIns : i \in QueuedBy(Tail(snapshots)) <=> i \in QueuedBy(snapshots) /\ i # j
  BY <1>1, FirstSnapshot
<1>3. j \in SignIns \cup {NoSignIn}
  BY <1>2 DEF SnapshotOf
<1>4. /\ signIns \in [SignIns -> SignInKnown] /\ Saves(signIns, snapshots)
      /\ OneRuns(signIns, attemptId, pending) /\ attemptId \in SignIns \cup {NoSignIn}
      /\ pending \in {"idle", "preparing", "awaiting", "error"}
      /\ restoreAsked \in BOOLEAN
  BY FieldTypes DEF SignInsOK, SignerFields
<1>5. /\ snapshots' = Tail(snapshots)
      /\ j = NoSignIn => /\ restoreAsked' = (restoreAsked /\ failed)
                         /\ UNCHANGED <<signIns, attemptId, pending>>
      /\ j # NoSignIn => /\ SignInOver(IF failed THEN signIns ELSE Strayed(signIns), j, failed)
                         /\ UNCHANGED restoreAsked
  BY DEF SnapshotOver
<1> HIDE DEF j
<1>6. CASE j = NoSignIn
  <2>1. Saves(signIns', snapshots')
    BY <1>2, <1>4, <1>5, <1>6, SignerAssumption DEF Saves
  <2> QED  BY <1>4, <1>5, <1>6, <2>1 DEF SignInsOK
<1>7. CASE j # NoSignIn
  <2> DEFINE t == IF failed THEN signIns ELSE Strayed(signIns)
  <2>1. t \in [SignIns -> SignInKnown] /\ SameMarks(signIns, t)
    <3>1. SameMarks(signIns, signIns)
      BY DEF SameMarks
    <3> QED  BY <1>4, <3>1, StrayedMarks
  <2>2. Saves(t, snapshots) /\ OneRuns(t, attemptId, pending)
    BY <1>4, <2>1, MarksKeep
  <2>3. SignInOver(t, j, TRUE) \/ SignInOver(t, j, FALSE)
    BY <1>5, <1>7
  <2> HIDE DEF t
  <2>4. /\ signIns' \in [SignIns -> SignInKnown]
        /\ signIns'[j].step = "idle" /\ \A i \in SignIns \ {j} : signIns'[i] = t[i]
        /\ OneRuns(signIns', attemptId', pending')
        /\ attemptId' \in SignIns \cup {NoSignIn}
        /\ pending' \in {"idle", "preparing", "awaiting", "error"}
    BY <1>3, <1>4, <1>7, <2>1, <2>2, <2>3, OverMarks
  <2>5. Saves(signIns', snapshots')
    BY <1>2, <1>5, <2>2, <2>4 DEF Saves
  <2>6. restoreAsked' \in BOOLEAN
    BY <1>4, <1>5, <1>7
  <2> QED  BY <1>5, <2>4, <2>5, <2>6 DEF SignInsOK
<1> QED  BY <1>6, <1>7

\* Who reads the file while it is written may find what it was or what it is.
LEMMA ReadingsAfter ==
  ASSUME SignerInv, WritingEnds
  PROVE  /\ restored' \in {"none", "reading", "done"} /\ (restored' = "reading" <=> found' # {})
         /\ {found', strayRead'} \subseteq SUBSET (AccountIds \cup {NobodySignedIn})
<1> DEFINE a == Head(snapshots).active
           Names == AccountIds \cup {NobodySignedIn}
<1>1. /\ restored \in {"none", "reading", "done"} /\ (restored = "reading" <=> found # {})
      /\ found \in SUBSET Names /\ strayRead \in SUBSET Names
  BY FieldTypes
<1>2. snapshots # <<>> /\ snapshots \in Seq(SnapshotOf) /\ QueuedOnce(snapshots)
  BY DEF SignerInv, QueueOK, WritingEnds, SnapshotWritten, SnapshotFails
<1>3. a \in Names
  <2>1. Head(snapshots) \in SnapshotOf
    BY <1>2, FirstSnapshot
  <2> QED  BY <2>1 DEF SnapshotOf
<1>4. CASE SnapshotFails
  <2>1. UNCHANGED <<restored, found, strayRead>>
    BY <1>4 DEF SnapshotFails
  <2> QED  BY <1>1, <2>1
<1>5. CASE SnapshotWritten
  <2> DEFINE f == MayFind(found, a)
             t == MayFind(strayRead, a)
  <2>1. f \in SUBSET Names /\ t \in SUBSET Names /\ (f # {} <=> found # {})
    <3> HIDE DEF a
    <3> QED  BY <1>1, <1>3 DEF MayFind
  <2>2. \/ found' = f /\ strayRead' = t /\ restored' = restored
        \/ restored' = "done" /\ found' = {} /\ strayRead' = t \cup f
    BY <1>5 DEF SnapshotWritten
  <2> HIDE DEF f, t
  <2>3. t \cup f \in SUBSET Names
    BY <2>1
  <2> QED  BY <1>1, <2>1, <2>2, <2>3
<1> QED  BY <1>4, <1>5 DEF WritingEnds

LEMMA WritingInv == SignerInv /\ WritingEnds => SignerInv'
<1> SUFFICES ASSUME SignerInv, WritingEnds  PROVE SignerInv'
  OBVIOUS
<1> DEFINE first == Head(snapshots)
           none == <<>>
<1>1. /\ snapshots # none /\ UNCHANGED <<activeId, online>>
      /\ \/ /\ accountsFile' = first.active /\ SnapshotOver(FALSE)
            /\ behind' = (behind /\ ~(accountsFile' = activeId /\ Tail(snapshots) = none))
         \/ behind' = TRUE /\ accountsFile' = accountsFile /\ SnapshotOver(TRUE)
  BY DEF WritingEnds, SnapshotWritten, SnapshotFails
<1>2. PICK failed \in BOOLEAN : SnapshotOver(failed)
  BY <1>1
<1>3. /\ SignInsOK' /\ attemptId' \in SignIns \cup {NoSignIn}
      /\ pending' \in {"idle", "preparing", "awaiting", "error"}
      /\ restoreAsked' \in BOOLEAN /\ snapshots' = Tail(snapshots)
  BY <1>1, <1>2, SnapshotOverInv
<1>4. /\ snapshots \in Seq(SnapshotOf) /\ QueuedOnce(snapshots) /\ Len(snapshots) <= MaxSnapshots
      /\ NewestIsActive(snapshots, accountsFile, activeId, restored, behind)
  BY DEF SignerInv, QueueOK
<1>5. /\ first \in SnapshotOf /\ Tail(snapshots) \in Seq(SnapshotOf)
      /\ Len(Tail(snapshots)) <= Len(snapshots) /\ QueuedOnce(Tail(snapshots))
      /\ Tail(snapshots) # none => Tail(snapshots)[Len(Tail(snapshots))] = snapshots[Len(snapshots)]
      /\ Tail(snapshots) = none => first = snapshots[Len(snapshots)]
  BY <1>1, <1>4, FirstSnapshot
<1>6. Len(snapshots') <= MaxSnapshots
  <2>1. Len(snapshots) \in Nat /\ Len(Tail(snapshots)) \in Nat
    BY <1>4, <1>5, LenProperties
  <2> QED  BY <1>3, <1>4, <1>5, <2>1, SignerAssumption
<1> HIDE DEF first, none
<1>7. NewestIsActive(snapshots', accountsFile', activeId', restored', behind')
  <2> SUFFICES ASSUME ~behind'
               PROVE  /\ snapshots' # none => snapshots'[Len(snapshots')].active = activeId'
                      /\ snapshots' = none => accountsFile' = activeId'
    BY DEF NewestIsActive, none
  <2>1. accountsFile' = first.active
        /\ (~behind \/ (accountsFile' = activeId /\ Tail(snapshots) = none))
    BY <1>1
  <2>2. ~behind => snapshots[Len(snapshots)].active = activeId
    BY <1>1, <1>4 DEF NewestIsActive, none
  <2> QED  BY <1>1, <1>3, <1>5, <2>1, <2>2
<1>8. QueueOK'
  BY <1>3, <1>5, <1>6, <1>7 DEF QueueOK
<1>9. SignerFields'
  <2>1. accountsFile' \in AccountIds \cup {NobodySignedIn} /\ behind' \in BOOLEAN
    BY <1>1, <1>5, FieldTypes DEF SnapshotOf
  <2>2. /\ restored' \in {"none", "reading", "done"} /\ (restored' = "reading" <=> found' # {})
        /\ {found', strayRead'} \subseteq SUBSET (AccountIds \cup {NobodySignedIn})
    BY ReadingsAfter
  <2> QED  BY <1>1, <1>3, <2>1, <2>2, FieldTypes DEF SignerFields
<1> QED  BY <1>3, <1>8, <1>9 DEF SignerInv

\* Nothing is under way: at the start, and after a restart.
LEMMA Rested ==
  ASSUME activeId = NobodySignedIn, online = {}, accountsFile \in AccountIds \cup {NobodySignedIn},
         snapshots = <<>>, restored = "none", found = {}, strayRead = {}, restoreAsked = FALSE,
         signIns = [j \in SignIns |-> Unused], attemptId = NoSignIn, pending = "idle",
         behind = FALSE
  PROVE  SignerInv
<1>1. SignerFields
  BY DEF SignerFields
<1>2. Unused \in SignInKnown /\ Unused.step = "idle"
  BY DEF Unused, SignInKnown, SignInState, Steps, Kinds
<1>3. snapshots \in Seq(SnapshotOf) /\ Len(snapshots) = 0 /\ DOMAIN snapshots = {}
  BY EmptySeq
<1>4. signIns \in [SignIns -> SignInKnown] /\ \A j \in SignIns : signIns[j] = Unused
  BY <1>2
<1>5. SignInsOK
  BY <1>2, <1>3, <1>4 DEF SignInsOK, Saves, QueuedBy, OneRuns
<1>6. NewestIsActive(snapshots, accountsFile, activeId, restored, behind)
  BY DEF NewestIsActive
<1>7. QueueOK
  BY <1>3, <1>6, SignerAssumption DEF QueueOK, QueuedOnce
<1> QED  BY <1>1, <1>5, <1>7 DEF SignerInv

LEMMA RestartInv == SignerInv /\ RestartSigner => SignerInv'
<1> SUFFICES ASSUME SignerInv, RestartSigner  PROVE SignerInv'
  OBVIOUS
<1>1. SignerFields'
  BY FieldTypes DEF SignerFields, RestartSigner
<1>2. Unused \in SignInKnown /\ Unused.step = "idle"
  BY DEF Unused, SignInKnown, SignInState, Steps, Kinds
<1>3. snapshots' \in Seq(SnapshotOf) /\ Len(snapshots') = 0 /\ DOMAIN snapshots' = {}
  BY EmptySeq DEF RestartSigner
<1>4. signIns' \in [SignIns -> SignInKnown] /\ \A j \in SignIns : signIns'[j] = Unused
  BY <1>2 DEF RestartSigner
<1>5. attemptId' = NoSignIn /\ pending' = "idle" /\ snapshots' = <<>> /\ restored' = "none"
      /\ activeId' = NobodySignedIn
  BY DEF RestartSigner
<1>6. SignInsOK'
  BY <1>2, <1>3, <1>4, <1>5 DEF SignInsOK, Saves, QueuedBy, OneRuns
<1>7. NewestIsActive(snapshots', accountsFile', activeId', restored', behind')
  BY <1>5 DEF NewestIsActive
<1>8. QueueOK'
  BY <1>3, <1>7, SignerAssumption DEF QueueOK, QueuedOnce
<1> QED  BY <1>1, <1>6, <1>8 DEF SignerInv

LEMMA SignerStep == SignerInv /\ [SignerNext]_signerVars => SignerInv'
<1> SUFFICES ASSUME SignerInv, [SignerNext]_signerVars  PROVE SignerInv'
  OBVIOUS
<1>1. CASE UserAsks
  BY <1>1, RestoreInv, CancelAttemptInv, SignOutInv, StartAttemptInv, SignInDirectlyInv
     DEF UserAsks
<1>2. CASE ReadingEnds \/ StrayFileRead
  BY <1>2, FileReadInv, RestoreFailsInv DEF ReadingEnds
<1>3. CASE WritingEnds
  BY <1>3, WritingInv
<1>4. CASE \E j \in SignIns : SignInGoesOn(j) \/ \E a \in AccountIds : Approved(j, a)
  BY <1>4, OpenedInv, ApprovedInv, SignInFailsInv, ActivateInv DEF SignInGoesOn
<1>5. CASE RestartSigner
  BY <1>5, RestartInv
<1>6. CASE UNCHANGED signerVars
  BY <1>6 DEF signerVars, SignerInv, SignerFields, QueueOK, SignInsOK
<1> QED  BY <1>1, <1>2, <1>3, <1>4, <1>5, <1>6 DEF SignerNext

LEMMA InitSigner == SignerInit => SignerInv
BY Rested DEF SignerInit

LEMMA SignersSafe ==
  SignerInit /\ [][SignerNext]_signerVars => [](SignerTypeOK /\ OneAttemptRuns /\ FileIsNewest)
BY InitSigner, SignerStep, SignerInvHolds, PTL

(***************************************************************************)
(* One attempt to sign in runs, the one on record and not aborted, and     *)
(* when nothing is queued the file names the active account, whatever is   *)
(* cancelled, signed out, lost or restarted meanwhile, for any accounts    *)
(* and sign-ins (signer_service.ts, accounts.ts).                          *)
(***************************************************************************)
THEOREM SignersHold == SignerSpec => [](SignerTypeOK /\ OneAttemptRuns /\ FileIsNewest)
BY SignersSafe, PTL DEF SignerSpec
===============================================================================
