---------------------------- MODULE SettingsService ----------------------------
(***************************************************************************)
(* Runtime settings: the form of routes/settings.tsx is parsed and saved   *)
(* by RuntimeSettingsService (settings.ts), one save at a time, to the     *)
(* file of SettingsStore (settings_store.ts).  Of the eight fields three   *)
(* are kept: the relays, those among them the runtime authenticates to,    *)
(* and the blocked ones, which no form can change.  The file system is     *)
(* external; the temporary file is not synced, so a crash is one of the    *)
(* process.                                                                *)
(***************************************************************************)
EXTENDS Naturals, Sequences

CONSTANTS RelayUrls,   \* canonical relay URLs
          BlockedUrls, \* blockedRelays
          Forms        \* settings forms open in browsers

ASSUME SettingsAssumption == BlockedUrls \subseteq RelayUrls

VARIABLES
  settings,      \* settings$
  settingsFile,  \* what the file holds
  saves,         \* the saves behind #saveQueue, the running one first
  saveStep,      \* how far the running one is
  form,          \* form[f]: what the page of f last answered, and the values it sent
  completed         \* destroyed

settingsVars == <<settings, settingsFile, saves, saveStep, form, completed>>

Values(relays, auth) == [relays |-> relays, auth |-> auth]
Settings == [relays : SUBSET RelayUrls, auth : SUBSET RelayUrls]
Save == [by : Forms, to : Settings]

\* parseSettingsForm: only relays in use that are not blocked are authenticated to.
Parsed(relays, ticked) == Values(relays, (ticked \cap relays) \ BlockedUrls)

SettingsInit ==
  /\ settings \in {Values(r, {}) : r \in SUBSET RelayUrls}
  /\ settingsFile = settings
  /\ saves = <<>> /\ saveStep = "no"
  /\ form = [f \in Forms |-> [page |-> "shown", sent |-> settings]]
  /\ completed = FALSE

Page(f, page) == form' = [form EXCEPT ![f].page = page]

(***************************************************************************)
(* POST of a form, up to the await of save.                                *)
(***************************************************************************)
Post(f, relays, ticked) ==
  /\ form[f].page # "saving"
  /\ LET to == Parsed(relays, ticked)
     IN  IF completed
         THEN form' = [form EXCEPT ![f] = [page |-> "failed", sent |-> to]] /\ UNCHANGED saves
         ELSE /\ form' = [form EXCEPT ![f] = [page |-> "saving", sent |-> to]]
              /\ saves' = Append(saves, [by |-> f, to |-> to])
  /\ UNCHANGED <<settings, settingsFile, saveStep, completed>>

SaveStarts ==
  /\ saves # <<>> /\ saveStep = "no"
  /\ saveStep' = "writing"
  /\ UNCHANGED <<settings, settingsFile, saves, form, completed>>

SaveRenamed ==
  /\ saveStep = "writing"
  /\ saveStep' = "renamed"
  /\ settingsFile' = Head(saves).to
  /\ UNCHANGED <<settings, saves, form, completed>>

SaveOver(page) == Page(Head(saves).by, page) /\ saves' = Tail(saves) /\ saveStep' = "no"

SaveFails ==
  /\ saveStep = "writing"
  /\ SaveOver("failed")
  /\ UNCHANGED <<settings, settingsFile, completed>>

\* Mutant: the new settings are the last ones asked for.
PublishedLast(s) == s[Len(s)].to

\* The settings a save publishes.
Published(s) == Head(s).to

\* settings$.next, which a completed subject ignores.
SavePublished ==
  /\ saveStep = "renamed"
  /\ settings' = IF completed THEN settings ELSE Published(saves)
  /\ SaveOver("saved")
  /\ UNCHANGED <<settingsFile, completed>>

DestroySettings ==
  /\ ~completed
  /\ completed' = TRUE
  /\ UNCHANGED <<settings, settingsFile, saves, saveStep, form>>

\* The process ends, and starts with what the file holds.
RestartSettings ==
  /\ settings' = settingsFile
  /\ saves' = <<>> /\ saveStep' = "no" /\ completed' = FALSE
  /\ form' = [f \in Forms |-> [page |-> "shown", sent |-> settingsFile]]
  /\ UNCHANGED settingsFile

SaveStep == SaveStarts \/ SaveRenamed \/ SaveFails \/ SavePublished

SettingsNext ==
  \/ \E f \in Forms, relays, ticked \in SUBSET RelayUrls : Post(f, relays, ticked)
  \/ SaveStep
  \/ DestroySettings
  \/ RestartSettings

SettingsFairness == WF_settingsVars(SaveStep)
SettingsSpec == SettingsInit /\ [][SettingsNext]_settingsVars /\ SettingsFairness

-----------------------------------------------------------------------------
(***************************************************************************)
(* Settings, file, queue and forms have their types; a form that is saving *)
(* waits for one save in the queue.                                        *)
(***************************************************************************)
SettingsTypeOK ==
  /\ {settings, settingsFile} \subseteq Settings
  /\ saves \in Seq(Save) /\ saveStep \in {"no", "writing", "renamed"}
  /\ form \in [Forms -> [page : {"shown", "saving", "saved", "failed"}, sent : Settings]]
  /\ completed \in BOOLEAN
  /\ \A f \in Forms : (form[f].page = "saving") <=> \E i \in DOMAIN saves : saves[i].by = f

(***************************************************************************)
(* What the runtime uses is what it will use after a restart, but while a  *)
(* save is between its file and its announcement or the service is closed: *)
(* a failed save changes neither, however many are queued.                 *)
(***************************************************************************)
FileIsSettings == saveStep = "renamed" \/ completed \/ settings = settingsFile

(***************************************************************************)
(* The runtime authenticates only to relays it uses and never to a blocked *)
(* one, after any sequence of saves and restarts.                          *)
(***************************************************************************)
AuthIsEligible ==
  \A s \in {settings, settingsFile} : s.auth \subseteq s.relays \ BlockedUrls

(***************************************************************************)
(* The page that says saved shows the values it sent, not those of a save  *)
(* that ran before or is queued behind.                                    *)
(***************************************************************************)
SavedIsShown ==
  [][\A f \in Forms : form[f].page = "saving" /\ form'[f].page = "saved" /\ ~completed
       => settings' = form[f].sent]_settingsVars

(***************************************************************************)
(* Each form is answered, whatever saves before it did.                    *)
(***************************************************************************)
SavesAreAnswered ==
  SettingsFairness => \A f \in Forms : form[f].page = "saving" ~> form[f].page # "saving"

(***************************************************************************)
(* Runtime, file and pages have the same settings, and those are eligible, *)
(* whichever saves fail among those that overlap.                          *)
(***************************************************************************)
SettingsAreKept == [](FileIsSettings /\ AuthIsEligible) /\ SavedIsShown
===============================================================================
