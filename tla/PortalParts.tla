------------------------------- MODULE PortalParts -------------------------------
(***************************************************************************)
(* The parts of the portal that share no state, side by side: a behaviour  *)
(* is one of one part, and the others rest in an initial state.  A step of *)
(* one part changes nothing another reads, so that their interleavings     *)
(* show nothing a part does not show by itself.                            *)
(***************************************************************************)
EXTENDS ConnectionController, ConnectionRegistry, NappletStorage, SettingsService,
        SignerAccounts, NapDispatcher, BlossomTransfer, ResourceReads, CommonActions,
        RelaySubscriptions

CONSTANT Parts  \* parts to look at

ASSUME PartsAssumption ==
  Parts \subseteq {"controller", "registry", "storage", "settings", "signer", "dispatcher",
                   "transfers", "reads", "common", "relays"}

VARIABLE part  \* the part the behaviour is of

partsVars == <<part, controllerVars, vars, storageVars, settingsVars, signerVars, dispatcherVars,
               transferVars, readsVars, commonVars, relayVars>>

\* A part may start in several states; one of them is where it rests.
NothingStored == /\ localRelay = {}
                 /\ \A s \in Streams : stream[s].key = CHOOSE k \in StreamKeys : TRUE

NobodyPublished == identity.user = NobodyActive /\ relayLists = contacts

PartsInit ==
  /\ part \in Parts
  /\ ControllerInit /\ (part = "controller" \/ eligible)
  /\ Init
  /\ StorageInit
  /\ SettingsInit /\ (part = "settings" \/ settings = Values({}, {}))
  /\ SignerInit /\ (part = "signer" \/ accountsFile = NobodySignedIn)
  /\ DispatcherInit /\ (part = "dispatcher" \/ accepted = {})
  /\ TransferInit
  /\ ReadsInit /\ (part = "reads" \/ ~localKnown)
  /\ CommonInit /\ (part = "common" \/ NobodyPublished)
  /\ RelayInit /\ (part = "relays" \/ NothingStored)

PartsNext ==
  /\ UNCHANGED part
  /\ IF part = "controller" THEN ControllerNext ELSE UNCHANGED controllerVars
  /\ IF part = "registry" THEN Next ELSE UNCHANGED vars
  /\ IF part = "storage" THEN StorageNext ELSE UNCHANGED storageVars
  /\ IF part = "settings" THEN SettingsNext ELSE UNCHANGED settingsVars
  /\ IF part = "signer" THEN SignerNext ELSE UNCHANGED signerVars
  /\ IF part = "dispatcher" THEN DispatcherNext ELSE UNCHANGED dispatcherVars
  /\ IF part = "transfers" THEN TransferNext ELSE UNCHANGED transferVars
  /\ IF part = "reads" THEN ReadsNext ELSE UNCHANGED readsVars
  /\ IF part = "common" THEN CommonNext ELSE UNCHANGED commonVars
  /\ IF part = "relays" THEN RelayNext ELSE UNCHANGED relayVars

\* Safety of each part; its liveness is stated with the fairness it needs.
PartsSpec == PartsInit /\ [][PartsNext]_partsVars

(***************************************************************************)
(* Each part's state has its type.                                         *)
(***************************************************************************)
PartsTypeOK ==
  /\ ControllerTypeOK /\ StorageTypeOK /\ SettingsTypeOK /\ SignerTypeOK /\ DispatcherTypeOK
  /\ TransferTypeOK /\ ReadsTypeOK /\ CommonTypeOK /\ RelayTypeOK

(***************************************************************************)
(* A lost connection comes back or is cleared away, on both of its sides:  *)
(* the tab tries again, and the portal keeps no record of one that left.   *)
(***************************************************************************)
ConnectionsRecover == ReconnectsAgain /\ DetachedEnds

(***************************************************************************)
(* What waits to be stored or to sign in is answered, whatever failed      *)
(* before it.                                                              *)
(***************************************************************************)
StoresAnswer == QueueRecovers /\ SavesAreAnswered /\ SignInsEnd

(***************************************************************************)
(* What a napplet has asked of the portal ends, however its window, its    *)
(* signer, its servers or the cache behave: operations give their place    *)
(* back, uploads, reads and changes get a result, streams reach upstream.  *)
(***************************************************************************)
RequestsEnd == PlacesAreReturned /\ UploadsEnd /\ ReadsEnd /\ ChangesEnd /\ UpstreamIsReached
===============================================================================
