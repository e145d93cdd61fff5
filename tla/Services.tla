--------------------------------- MODULE Services ---------------------------------
(***************************************************************************)
(* One instance each of the components that serve every job: the ledger,   *)
(* the provider configuration, the local model service and the admission   *)
(* scheduler; and the navigation, the editor and the settings page of the  *)
(* web client.  They share no state (their interplay with a unit of work   *)
(* is in UnitQueue), so an initial choice decides which of them runs, and  *)
(* one run of TLC checks them all.                                         *)
(***************************************************************************)
EXTENDS Naturals, Sequences, FiniteSets

CONSTANTS
  Jobs, Attempts, AttemptJob, Controlled, Reserve, Charges, Budgets, InFlightLimit,   \* of Ledger
  Bindings, Protocol, LocalProtocol, Keys, NoKey, Requests, LegacyBinding, LegacyKey, \* of ProviderConfig
  NoBinding, Tests, MaxRevisions,
  Models, Backend, Preinstalled, LocalUnits, UnitModel, Threads, MaxRestarts,         \* of LocalModels
  MasterJobs, ChildJobs, Owner, Parsing, JobModel, NoModel, ModelSize, Masters, Children, \* of Scheduler
  WorkerLimit, RamTotal, Percents, OtherUse, MaxTasks,
  Hashes, MaxMoves,                                                                   \* of Navigation
  Blocks, Mine, Theirs, Empty, MaxGen, MaxLate,                                       \* of DraftForm
  Forms, Fields, FormOf, Values, Protocols, Endpoints, Order, MaxSaves, MaxActs       \* of SettingsForms

VARIABLES
  active,   \* the component that runs
  sent, money, micro, jobBudget, instanceBudget, dispatchDisabled, unanswered, allowed,
  revisions, current, test, frozen, held,
  status, installed, configured, preparing, prepares, unitAt, cacheLock, writing, readers,
  writersWaiting, restarts,
  order, ready, left, running, resident, percent, otherUse, overtaken, admitted,
  browser, watcher, form, acts,
  server, page, saving, late, typed,
  stored, prefs, service, leaving, inputs

--------------------------------------------------------------------------------
Ldg == INSTANCE Ledger
Cfg == INSTANCE ProviderConfig
Mdl == INSTANCE LocalModels
Sch == INSTANCE Scheduler
Nav == INSTANCE Navigation WITH MaxActs <- MaxMoves
Drf == INSTANCE DraftForm
Set == INSTANCE SettingsForms

ASSUME ServicesAssumption ==
  /\ Ldg!LedgerAssumption /\ Cfg!ProviderConfigAssumption /\ Mdl!LocalModelsAssumption
  /\ Sch!SchedulerAssumption /\ Nav!NavigationAssumption /\ Drf!DraftFormAssumption
  /\ Set!SettingsAssumption

--------------------------------------------------------------------------------
ledgerVars == <<sent, money, micro, jobBudget, instanceBudget, dispatchDisabled,
                unanswered, allowed>>
configVars == <<revisions, current, test, frozen, held>>
modelVars == <<status, installed, configured, preparing, prepares, unitAt, cacheLock, writing,
               readers, writersWaiting, restarts>>
schedVars == <<order, ready, left, running, resident, percent, otherUse, overtaken, admitted>>
navVars == <<browser, watcher, form, acts>>
formVars == <<server, page, saving, late, typed>>
settingsVars == <<stored, prefs, service, leaving, inputs>>
webVars == <<navVars, formVars, settingsVars>>
vars == <<active, ledgerVars, configVars, modelVars, schedVars, webVars>>

Init ==
  /\ active \in {"ledger", "config", "models", "scheduler", "navigation", "editor", "settings"}
  /\ Ldg!Init /\ Cfg!Init /\ Mdl!Init /\ Sch!Init /\ Nav!Init /\ Drf!Init /\ Set!Init

Next ==
  /\ UNCHANGED active
  /\ \/ active = "ledger" /\ Ldg!Next /\ UNCHANGED <<configVars, modelVars, schedVars, webVars>>
     \/ active = "config" /\ Cfg!Next /\ UNCHANGED <<ledgerVars, modelVars, schedVars, webVars>>
     \/ active = "models" /\ Mdl!Next /\ UNCHANGED <<ledgerVars, configVars, schedVars, webVars>>
     \/ active = "scheduler" /\ Sch!Next /\ UNCHANGED <<ledgerVars, configVars, modelVars, webVars>>
     \/ /\ UNCHANGED <<ledgerVars, configVars, modelVars, schedVars>>
        /\ \/ active = "navigation" /\ Nav!Next /\ UNCHANGED <<formVars, settingsVars>>
           \/ active = "editor" /\ Drf!Next /\ UNCHANGED <<navVars, settingsVars>>
           \/ active = "settings" /\ Set!Next /\ UNCHANGED <<navVars, formVars>>

\* LocalModels!Fairness, for the runs in which its threads take steps.
Fairness ==
  /\ \A p \in Threads : WF_modelVars(active = "models" /\ Mdl!PrepThread(p))
  /\ \A u \in LocalUnits : WF_modelVars(active = "models" /\ Mdl!UnitThread(u))

Spec == Init /\ [][Next]_vars /\ Fairness

--------------------------------------------------------------------------------
(* With the first property of a component its type invariant is checked.   *)

(* billing/ledger.py: nothing is at stake beyond the budgets and charges   *)
(* above a reservation, and after such a charge no permit is given until   *)
(* an operator switches dispatch on again; see Ledger.                     *)
SpendingIsBounded == [](Ldg!TypeOK /\ Ldg!WithinBudget) /\ Ldg!OverrunStopsDispatch

(* providers/settings.py, connection.py: a key is only sent where it was   *)
(* entered for, a connection test sends the saved one, and a save sent     *)
(* again is executed once; see ProviderConfig.                             *)
SavedKeysAreSafe ==
  [](Cfg!TypeOK /\ Cfg!KeyStaysWithEndpoint /\ Cfg!SavedOnce) /\ Cfg!TestUsesSavedKey

(* local_models/service.py: nothing takes the model away from a unit that  *)
(* infers, and every unit leaves the service; see LocalModels.             *)
InferenceCompletes ==
  [](Mdl!TypeOK /\ Mdl!InferenceUndisturbed) /\ <>(active = "models" => Mdl!AllLeft)

(* resources/scheduler.py, jobs/queue.py: the models of what runs fit the  *)
(* memory the operator allowed, and no job is claimed twice before one     *)
(* that waits; see Scheduler.                                              *)
AdmissionIsFair == Sch!TypeOK /\ Sch!DemandWithinBudget /\ Sch!NoMonopoly

(* web/navigation-guard.ts: what a form holds is dropped only after its    *)
(* user said so, and the address at rest is that of the mounted page; see  *)
(* Navigation.                                                             *)
NavigationIsGuarded == Nav!TypeOK /\ Nav!InputsNotLost /\ Nav!AddressIsThePage

(* web/editor-state.ts: edits stay until the server has them, and replace  *)
(* only what their user has seen; see DraftForm.                           *)
EditsSurvive == Drf!TypeOK /\ Drf!InputsStay /\ Drf!OnlySeenIsReplaced

(* web/settings-state.tsx: nothing typed is lost between the forms, and a  *)
(* key goes only where it was typed for; see SettingsForms.                *)
SettingsSurvive == Set!TypeOK /\ Set!InputsStay /\ Set!KeySentWhereTyped
================================================================================
