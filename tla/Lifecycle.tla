-------------------------------- MODULE Lifecycle --------------------------------
(***************************************************************************)
(* One instance each of the components whose hazards are crashes, answers  *)
(* of unknown outcome and long sequences of calls by several actors:       *)
(* backups, the calls of the providers, the translation jobs of a document *)
(* and the list of its tasks.  They share no state: "active" says which of *)
(* them runs, and none of them when it has another value (MCLifecycle adds *)
(* components of its own).                                                 *)
(***************************************************************************)
EXTENDS Naturals, FiniteSets, Sequences

CONSTANTS
  Docs, Files, Owner, BackupIds, Procs, Commands, FilesPerPass,  \* of Backups
  Protocols, RetryLimit,                                          \* of ProviderCall
  MaxJobs, MaxSources, MaxDrafts, Workers, Modes,                 \* of Translations
  Startable, MaxRows, MaxPaid, MaxFence, MaxClaims                    \* of TaskHistory

VARIABLES
  active,   \* the component that runs
  db, disk, worker, backups, proc,
  protocol, controlled, task, at, reply, bills,
  current, draft, drafts, jobs,
  rows, deleted

Bak == INSTANCE Backups WITH Ids <- BackupIds, Limit <- FilesPerPass
Prv == INSTANCE ProviderCall
Trs == INSTANCE Translations
His == INSTANCE TaskHistory WITH jobs <- rows, MaxJobs <- MaxRows

ASSUME LifecycleAssumption ==
  /\ Bak!BackupsAssumption /\ Prv!ProviderCallAssumption /\ Trs!TranslationsAssumption
  /\ His!HistoryAssumption

--------------------------------------------------------------------------------
backupVars == <<db, disk, worker, backups, proc>>
callVars == <<protocol, controlled, task, at, reply, bills>>
transVars == <<current, draft, drafts, jobs>>
listVars == <<rows, deleted>>
vars == <<active, backupVars, callVars, transVars, listVars>>

Init == Bak!Init /\ Prv!Init /\ Trs!Init /\ His!Init

Next ==
  /\ UNCHANGED active
  /\ \/ active = "backups" /\ Bak!Next /\ UNCHANGED <<callVars, transVars, listVars>>
     \/ active = "provider" /\ Prv!Next /\ UNCHANGED <<backupVars, transVars, listVars>>
     \/ active = "translations" /\ Trs!Next /\ UNCHANGED <<backupVars, callVars, listVars>>
     \/ active = "tasks" /\ His!Next /\ UNCHANGED <<backupVars, callVars, transVars>>

Spec == Init /\ [][Next]_vars

--------------------------------------------------------------------------------
(* With the first property of a component its type invariant is checked.   *)

(* maintenance/__main__.py: a row never names a file that is gone; see     *)
(* Backups.                                                                *)
NothingRegisteredIsLost == active = "backups" => Bak!TypeOK /\ Bak!NothingRegisteredIsLost

(* providers/*.py: a permit is released only if nobody ran the request and *)
(* settled only on an answer that may be booked; see ProviderCall.         *)
PermitTellsTheTruth == active = "provider" => Prv!TypeOK /\ Prv!PermitTellsTheTruth

(* api/continuation.py, preparation/execution.py: a continued history has  *)
(* no open request, and units use the pack of their own job; see           *)
(* Translations.                                                           *)
ContinuationIsSound ==
  active = "translations" =>
    Trs!TypeOK /\ Trs!ContinuedHistoryIsClosed /\ Trs!UnitsUseTheirPack

(* jobs/visibility.py, hierarchy.py: what is cleared from the list is over, *)
(* a job is part of one operation, and an operation shows its steps; see    *)
(* TaskHistory.                                                             *)
TaskListIsSound ==
  active = "tasks" =>
    His!TypeOK /\ His!HiddenIsOver /\ His!OneOperationEach /\ His!OperationShowsItsSteps

(* jobs/visibility.py, history.py, api/library.py: only finished operations *)
(* leave the list, a deletion changes nothing of it, and the model shown is *)
(* never that of an earlier attempt; see TaskHistory.                       *)
TaskListMovesForward ==
  His!OnlyFinishedOperationsLeave /\ His!DeletionKeepsTheList /\ His!ModelMovesForward
================================================================================
