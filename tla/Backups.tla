-------------------------------- MODULE Backups --------------------------------
(***************************************************************************)
(* Backup, restore and retention of the database together with the files   *)
(* its rows name, while a worker produces and erases files, documents are  *)
(* deleted, and any process may be killed between two steps.               *)
(*                                                                         *)
(* A maintenance command takes the exclusive session lock that a running   *)
(* worker holds shared; two commands may be started at once.  A row stands *)
(* for the file it registers.  A key is written once in the program, so a  *)
(* file is there or not.  A command that fails and one that is killed end  *)
(* the same way: the lock goes with the session, nothing is undone.        *)
(***************************************************************************)
EXTENDS FiniteSets, Naturals

CONSTANTS
  Docs, Files,
  Owner,     \* the document a file belongs to
  Ids,       \* bound: backups ever started
  Procs,     \* maintenance processes that may run at once
  Commands,  \* bound: what each of them may be called for
  Limit      \* --limit: files that one retention pass may remove

BackupsAssumption ==
  /\ "database.dump" \notin Files   \* files have keys under data or uploads
  /\ Owner \in [Files -> Docs] /\ Limit \in Nat \ {0}
  /\ Commands \in [Procs -> SUBSET {"backup", "restore", "retention"}]

VARIABLES
  db,        \* what a dump holds: rows, tombstones, a permit, the maintenance flag
  disk,      \* files of the data and upload volumes
  worker,    \* what the worker does under its shared lock
  backups,   \* directories of the backup volume
  proc       \* maintenance commands

backupVars == <<db, disk, worker, backups, proc>>

Dump == "database.dump"
NoDump == [rows |-> {}, gone |-> {}, money |-> "none", maintenance |-> FALSE]
NoBackup == [dir |-> "none", files |-> {}, listed |-> {}, manifest |-> FALSE, dump |-> NoDump]
Idle == [does |-> "nothing"]
NoCommand == [does |-> "nothing", at |-> "idle", todo |-> {}]

Locked(p) == proc[p].at \notin {"idle", "waiting"}
Exclusive == \E p \in Procs : Locked(p)

--------------------------------------------------------------------------------
(* The worker and the API.  writable refuses under maintenance; locks wait *)
(* for a command that holds the exclusive one.                             *)
Writable == ~Exclusive /\ ~db.maintenance

StartWork(task) ==
  /\ worker = Idle /\ Writable
  /\ worker' = task
  /\ UNCHANGED <<backups, proc>>

(* A file is complete on disk before its row is committed. *)
Produce(f) ==
  /\ Owner[f] \notin db.gone /\ f \notin db.rows
  /\ StartWork([does |-> "register", file |-> f])
  /\ disk' = disk \cup {f}
  /\ UNCHANGED db

Register ==
  /\ worker.does = "register" /\ ~db.maintenance
  /\ Owner[worker.file] \notin db.gone
  /\ db' = [db EXCEPT !.rows = @ \cup {worker.file}]
  /\ worker' = Idle
  /\ UNCHANGED <<disk, backups, proc>>

(* cleanup_document: files first, rows with the commit. *)
StartCleanup(d) ==
  /\ d \in db.gone /\ \E f \in db.rows : Owner[f] = d
  /\ StartWork([does |-> "cleanup", doc |-> d])
  /\ UNCHANGED <<db, disk>>

OfDoc(d) == {f \in Files : Owner[f] = d}

CleanupRemoves(f) ==
  /\ worker.does = "cleanup"
  /\ f \in disk \cap OfDoc(worker.doc)
  /\ disk' = disk \ {f}
  /\ UNCHANGED <<db, worker, backups, proc>>

CleanupCommits ==
  /\ worker.does = "cleanup" /\ disk \cap OfDoc(worker.doc) = {}
  /\ db' = [db EXCEPT !.rows = @ \ OfDoc(worker.doc)]
  /\ worker' = Idle
  /\ UNCHANGED <<disk, backups, proc>>

Request ==
  /\ db.money = "none"
  /\ StartWork([does |-> "ask"])
  /\ db' = [db EXCEPT !.money = "reserved"]
  /\ UNCHANGED disk

Answered ==
  /\ worker.does = "ask"
  /\ db' = [db EXCEPT !.money = "none"]
  /\ worker' = Idle
  /\ UNCHANGED <<disk, backups, proc>>

(* The process dies; its connection gives the shared lock back. *)
WorkerDies ==
  /\ worker # Idle
  /\ worker' = Idle
  /\ UNCHANGED <<db, disk, backups, proc>>

DeleteDocument(d) ==
  /\ Writable /\ d \notin db.gone
  /\ db' = [db EXCEPT !.gone = @ \cup {d}]
  /\ UNCHANGED <<disk, worker, backups, proc>>

--------------------------------------------------------------------------------
(* verify_backup: the manifest and every file it lists. *)
Restorable(b) ==
  /\ backups[b].dir = "done" /\ backups[b].manifest
  /\ backups[b].listed \subseteq backups[b].files

(* Verified before the lock is held; another command may run first.        *)
CallRestore(p, b, replace) ==
  /\ "restore" \in Commands[p] /\ proc[p].at = "idle" /\ Restorable(b)
  /\ proc' = [proc EXCEPT ![p] =
       [does |-> "restore", at |-> "waiting", id |-> b, replace |-> replace, todo |-> {}]]
  /\ UNCHANGED <<db, disk, worker, backups>>

Uncertain(d) == IF d.money = "reserved" THEN [d EXCEPT !.money = "unknown"] ELSE d

ReservationsStay(d, on) == [d EXCEPT !.maintenance = on]   \* mutant: requests in flight are not marked
Maintained(d, on) == [(IF on THEN Uncertain(d) ELSE d) EXCEPT !.maintenance = on]

IgnoresWorkers(p) == ~Exclusive   \* mutant: workers that run are not drained
LockFree(p) == ~Exclusive /\ worker = Idle

(* maintenance_window with pg_try_advisory_lock: polling changes nothing,  *)
(* so a command other than restore is called when it gets the lock.        *)
Window(p, command) ==
  /\ LockFree(p)
  /\ IF command = "restore" THEN proc[p].at = "waiting" ELSE proc[p].at = "idle"
  /\ db' = Maintained(db, TRUE)
  /\ proc' = [proc EXCEPT ![p].at = "start", ![p].does = command]
  /\ UNCHANGED <<disk, worker, backups>>

SetMaintenance(p, on) ==
  /\ LockFree(p) /\ proc[p].at = "idle"
  /\ db' = Maintained(db, on)
  /\ UNCHANGED <<disk, worker, backups, proc>>

(* A command ends, fails or is killed: at any of its steps. *)
Ends(p) ==
  /\ proc[p].at # "idle"
  /\ proc' = [proc EXCEPT ![p] = NoCommand]
  /\ UNCHANGED <<db, disk, worker, backups>>

Step(p, does, from, to, todo) ==
  /\ proc[p].does = does /\ proc[p].at = from
  /\ proc' = [proc EXCEPT ![p].at = to, ![p].todo = todo]
  /\ UNCHANGED <<db, worker>>

--------------------------------------------------------------------------------
(* backup_locked *)
Verified == db.rows \subseteq disk

Stage(p) ==
  /\ proc[p].does = "backup" /\ proc[p].at = "start"
  /\ \E b \in Ids :
       /\ backups[b].dir = "none"
       /\ backups' = [backups EXCEPT ![b].dir = "staging"]
       /\ proc' = [proc EXCEPT ![p] = IF Verified THEN [does |-> "backup", at |-> "dump", id |-> b, todo |-> {}]
                                                  ELSE NoCommand]
  /\ UNCHANGED <<db, disk, worker>>

DumpDatabase(p) ==
  /\ Step(p, "backup", "dump", "list", {})
  /\ backups' = [backups EXCEPT ![proc[p].id].dump = db, ![proc[p].id].files = {Dump}]
  /\ UNCHANGED disk

ListFiles(p) ==
  /\ Step(p, "backup", "list", "copy", db.rows)
  /\ UNCHANGED <<disk, backups>>

CopyFile(p, f) ==
  /\ f \in proc[p].todo \cap disk
  /\ Step(p, "backup", "copy", "copy", proc[p].todo \ {f})
  /\ backups' = [backups EXCEPT ![proc[p].id].files = @ \cup {f}]
  /\ UNCHANGED disk

ManifestEarly(p) == TRUE   \* mutant: the manifest lists what has been copied so far
AllCopied(p) == proc[p].todo = {}

WriteManifest(p) ==
  /\ AllCopied(p)
  /\ Step(p, "backup", "copy", "rename", {})
  /\ backups' = [backups EXCEPT ![proc[p].id].manifest = TRUE, ![proc[p].id].listed = backups[proc[p].id].files]
  /\ UNCHANGED disk

Rename(p) ==
  /\ Step(p, "backup", "rename", "end", {})
  /\ backups' = [backups EXCEPT ![proc[p].id].dir = "done"]
  /\ UNCHANGED disk

--------------------------------------------------------------------------------
(* restore_locked: every file, then the database in one transaction, then  *)
(* the flags again.                                                        *)
FilesLast(p) == {}   \* mutant: the database is switched before the files are there
FilesFirst(p) == backups[proc[p].id].listed \ {Dump}

StartRestore(p) ==
  /\ Step(p, "restore", "start", "files", FilesFirst(p))
  /\ proc[p].replace \/ disk = {}
  /\ UNCHANGED <<disk, backups>>

RestoreFile(p, f) ==
  /\ Step(p, "restore", "files", "files", proc[p].todo \ {f})
  /\ f \in proc[p].todo \cap backups[proc[p].id].files
  /\ disk' = disk \cup {f}
  /\ UNCHANGED backups

SwitchDatabase(p) ==
  /\ proc[p].does = "restore" /\ proc[p].at = "files" /\ proc[p].todo = {}
  /\ Dump \in backups[proc[p].id].files
  /\ db' = backups[proc[p].id].dump
  /\ proc' = [proc EXCEPT ![p].at = "migrate"]
  /\ UNCHANGED <<disk, worker, backups>>

Reassert(p) ==
  /\ proc[p].does = "restore" /\ proc[p].at = "migrate"
  /\ db' = Maintained(db, TRUE)
  /\ proc' = [proc EXCEPT ![p].at = "end"]
  /\ UNCHANGED <<disk, worker, backups>>

--------------------------------------------------------------------------------
(* retention_locked on the backup volume: a finished backup loses its      *)
(* manifest in the pass that removes the last of its other files, a failed *)
(* one whatever comes first.  Any backup may have become old by now.       *)
PlanRetention(p) ==
  \E b \in Ids :
    /\ proc[p].does = "retention" /\ proc[p].at = "start"
    /\ backups[b].dir = "staging" \/ backups[b].manifest
    /\ \E plan \in SUBSET backups[b].files :
         /\ Cardinality(plan) <= Limit
         /\ plan = backups[b].files \/ Cardinality(plan) = Limit
         /\ proc' = [proc EXCEPT ![p] =
              [does |-> "retention", at |-> "remove", id |-> b, todo |-> plan,
               last |-> plan = backups[b].files /\ Cardinality(plan) < Limit]]
    /\ UNCHANGED <<db, disk, worker, backups>>

RemoveFile(p, f) ==
  /\ f \in proc[p].todo
  /\ Step(p, "retention", "remove", "remove", proc[p].todo \ {f})
  /\ backups' = [backups EXCEPT ![proc[p].id].files = @ \ {f}]
  /\ UNCHANGED disk

RemoveManifest(p) ==
  /\ Step(p, "retention", "remove", "end", {})
  /\ proc[p].last /\ proc[p].todo = {}
  /\ backups' = [backups EXCEPT ![proc[p].id] = [NoBackup EXCEPT !.dir = "removed"]]
  /\ UNCHANGED disk

--------------------------------------------------------------------------------
Init ==
  /\ db = NoDump /\ disk = {} /\ worker = Idle
  /\ backups = [b \in Ids |-> NoBackup]
  /\ proc = [p \in Procs |-> NoCommand]

Next ==
  \/ \E f \in Files : Produce(f) \/ CleanupRemoves(f)
  \/ \E d \in Docs : StartCleanup(d) \/ DeleteDocument(d)
  \/ Register \/ CleanupCommits \/ Request \/ Answered \/ WorkerDies
  \/ \E p \in Procs :
       \/ \E c \in Commands[p] : Window(p, c)
       \/ \E on \in BOOLEAN : SetMaintenance(p, on)
       \/ \E b \in Ids, replace \in BOOLEAN : CallRestore(p, b, replace)
       \/ Ends(p)
       \/ Stage(p) \/ DumpDatabase(p) \/ ListFiles(p) \/ WriteManifest(p) \/ Rename(p)
       \/ StartRestore(p) \/ SwitchDatabase(p) \/ Reassert(p)
       \/ PlanRetention(p) \/ RemoveManifest(p)
       \/ \E f \in Files : CopyFile(p, f) \/ RestoreFile(p, f)
       \/ \E f \in Files \cup {Dump} : RemoveFile(p, f)

Spec == Init /\ [][Next]_backupVars

--------------------------------------------------------------------------------
(* Every variable has a value it can hold. *)
TypeOK ==
  /\ db.rows \subseteq Files /\ db.gone \subseteq Docs
  /\ db.money \in {"none", "reserved", "unknown"} /\ db.maintenance \in BOOLEAN
  /\ disk \subseteq Files
  /\ worker.does \in {"nothing", "register", "cleanup", "ask"}
  /\ \A b \in Ids : /\ backups[b].dir \in {"none", "staging", "done", "removed"}
                    /\ backups[b].files \cup backups[b].listed \subseteq Files \cup {Dump}
  /\ \A p \in Procs : proc[p].does \in {"nothing", "backup", "restore", "retention"}

Wanted(d) == {f \in d.rows : Owner[f] \notin d.gone}

(* What a user has is not lost: every row of a document that is not        *)
(* deleted names a file that is there, after any mixture of producing,     *)
(* erasing, backing up, restoring and retention that was killed half way;  *)
(* and every backup that verify-backup accepts holds all files its dump    *)
(* refers to and no request that still passes as under way                 *)
(* (maintenance/__main__.py:215, 266; retention.py:204).                   *)
NothingRegisteredIsLost ==
  /\ Wanted(db) \subseteq disk
  /\ \A b \in Ids : Restorable(b) =>
       /\ backups[b].dump.rows \subseteq backups[b].files
       /\ backups[b].dump.money # "reserved"
================================================================================
