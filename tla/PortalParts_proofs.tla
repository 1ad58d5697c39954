--------------------------- MODULE PortalParts_proofs ---------------------------
(***************************************************************************)
(* The parts side by side: a behaviour of PortalParts is one of each part, *)
(* so that what is proved of a part holds there too.  The parts that are   *)
(* checked by themselves and in PortalParts are thus proved in both.       *)
(***************************************************************************)
EXTENDS PortalParts, Connections_proofs, DurableState_proofs, NapOperations_proofs,
        BlobTransfers_proofs

-----------------------------------------------------------------------------
(***************************************************************************)
(* A behaviour of the parts is one of each: it takes its steps or rests.   *)
(***************************************************************************)
LEMMA ControllerPart == PartsSpec => ControllerInit /\ [][ControllerNext]_controllerVars
<1>1. PartsInit => ControllerInit
  BY DEF PartsInit
<1>2. [PartsNext]_partsVars => [ControllerNext]_controllerVars
  BY DEF PartsNext, partsVars
<1> QED  BY <1>1, <1>2, PTL DEF PartsSpec

LEMMA StoragePart == PartsSpec => StorageInit /\ [][StorageNext]_storageVars
<1>1. PartsInit => StorageInit
  BY DEF PartsInit
<1>2. [PartsNext]_partsVars => [StorageNext]_storageVars
  BY DEF PartsNext, partsVars
<1> QED  BY <1>1, <1>2, PTL DEF PartsSpec

LEMMA SettingsPart == PartsSpec => SettingsInit /\ [][SettingsNext]_settingsVars
<1>1. PartsInit => SettingsInit
  BY DEF PartsInit
<1>2. [PartsNext]_partsVars => [SettingsNext]_settingsVars
  BY DEF PartsNext, partsVars
<1> QED  BY <1>1, <1>2, PTL DEF PartsSpec

LEMMA SignerPart == PartsSpec => SignerInit /\ [][SignerNext]_signerVars
<1>1. PartsInit => SignerInit
  BY DEF PartsInit
<1>2. [PartsNext]_partsVars => [SignerNext]_signerVars
  BY DEF PartsNext, partsVars
<1> QED  BY <1>1, <1>2, PTL DEF PartsSpec

LEMMA DispatcherPart == PartsSpec => DispatcherInit /\ [][DispatcherNext]_dispatcherVars
<1>1. PartsInit => DispatcherInit
  BY DEF PartsInit
<1>2. [PartsNext]_partsVars => [DispatcherNext]_dispatcherVars
  BY DEF PartsNext, partsVars
<1> QED  BY <1>1, <1>2, PTL DEF PartsSpec

LEMMA TransferPart == PartsSpec => TransferInit /\ [][TransferNext]_transferVars
<1>1. PartsInit => TransferInit
  BY DEF PartsInit
<1>2. [PartsNext]_partsVars => [TransferNext]_transferVars
  BY DEF PartsNext, partsVars
<1> QED  BY <1>1, <1>2, PTL DEF PartsSpec

LEMMA ReadsPart == PartsSpec => ReadsInit /\ [][ReadsNext]_readsVars
<1>1. PartsInit => ReadsInit
  BY DEF PartsInit
<1>2. [PartsNext]_partsVars => [ReadsNext]_readsVars
  BY DEF PartsNext, partsVars
<1> QED  BY <1>1, <1>2, PTL DEF PartsSpec

LEMMA CommonPart == PartsSpec => CommonInit /\ [][CommonNext]_commonVars
<1>1. PartsInit => CommonInit
  BY DEF PartsInit
<1>2. [PartsNext]_partsVars => [CommonNext]_commonVars
  BY DEF PartsNext, partsVars
<1> QED  BY <1>1, <1>2, PTL DEF PartsSpec

LEMMA RelayPart == PartsSpec => RelayInit /\ [][RelayNext]_relayVars
<1>1. PartsInit => RelayInit
  BY DEF PartsInit
<1>2. [PartsNext]_partsVars => [RelayNext]_relayVars
  BY DEF PartsNext, partsVars
<1> QED  BY <1>1, <1>2, PTL DEF PartsSpec

(***************************************************************************)
(* The state of every part keeps its type, also while another part runs.   *)
(***************************************************************************)
THEOREM PartsTypes == PartsSpec => []PartsTypeOK
<1>1. PartsSpec => [](ControllerTypeOK /\ StorageTypeOK /\ SettingsTypeOK)
  <2>1. StorageInv => StorageTypeOK
    BY DEF StorageInv
  <2> QED
    BY <2>1, ControllerPart, ControllerTypesSafe, StoragePart, StorageInvHolds, SettingsPart,
       SettingsTypesSafe, PTL
<1>2. PartsSpec => [](SignerTypeOK /\ DispatcherTypeOK)
  BY SignerPart, SignersSafe, DispatcherPart, DispatcherTypesSafe, PTL
<1>3. PartsSpec => [](TransferTypeOK /\ ReadsTypeOK)
  BY TransferPart, TransfersSafe, ReadsPart, ReadsSafe, PTL
<1>4. PartsSpec => [](CommonTypeOK /\ RelayTypeOK)
  BY CommonPart, CommonTypesSafe, RelayPart, RelayTypesSafe, PTL
<1>5. PartsTypeOK <=> /\ ControllerTypeOK /\ StorageTypeOK /\ SettingsTypeOK /\ SignerTypeOK
                      /\ DispatcherTypeOK /\ TransferTypeOK /\ ReadsTypeOK /\ CommonTypeOK
                      /\ RelayTypeOK
  BY DEF PartsTypeOK
<1> QED  BY <1>1, <1>2, <1>3, <1>4, <1>5, PTL

(***************************************************************************)
(* The invariants of the parts hold of them side by side: the connection   *)
(* is kept, one sign-in runs and its file is the newest, answers are due   *)
(* and bounded, uploads are true and blobs are served.                     *)
(***************************************************************************)
THEOREM PartsAreSafe ==
  PartsSpec => [](/\ ConnectionIsKept /\ OneAttemptRuns /\ FileIsNewest
                  /\ AnswersAreDue /\ UploadsAreTrue /\ BlobsAreServed)
BY ControllerPart, ConnectionSafe, SignerPart, SignersSafe, DispatcherPart, DispatcherSafe,
   TransferPart, TransfersSafe, ReadsPart, ReadsSafe, PTL

(***************************************************************************)
(* What the parts do in their steps they do side by side: storage is the   *)
(* table a napplet sees, settings and lists are kept, and streams are      *)
(* heard while they are registered.                                        *)
(***************************************************************************)
THEOREM PartsKeepTheirWord ==
  PartsSpec => KeepsTable /\ SettingsAreKept /\ ChangesAreTheAskers /\ StreamsAreLive
BY StoragePart, TableSafe, SettingsPart, SettingsSafe, CommonPart, ChangesSafe, RelayPart,
   StreamsSafe, PTL
===============================================================================
