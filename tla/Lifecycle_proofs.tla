----------------------------- MODULE Lifecycle_proofs -----------------------------
(***************************************************************************)
(* Proofs about backups, the calls of the providers and the translation    *)
(* jobs of a document: of each component an inductive invariant, that each *)
(* of its steps keeps it, and that it implies the property which the runs  *)
(* check on an instance.                                                   *)
(***************************************************************************)
EXTENDS Lifecycle, TLAPS

--------------------------------------------------------------------------------
(* Backups.                                                                *)

StoredFile == Files \cup {Bak!Dump}
Image == [rows : SUBSET Files, gone : SUBSET Docs, money : {"none", "reserved", "unknown"}, maintenance : BOOLEAN]
Directory == [dir : {"none", "staging", "done", "removed"}, files : SUBSET StoredFile, listed : SUBSET StoredFile,
              manifest : BOOLEAN, dump : Image]
AtWork == {Bak!Idle, [does |-> "ask"]} \cup [does : {"register"}, file : Files] \cup [does : {"cleanup"}, doc : Docs]
Started == [does : {"backup", "retention"}, at : {"start"}, todo : {{}}]
Backing == [does : {"backup"}, at : {"dump", "list", "copy", "rename", "end"}, id : BackupIds, todo : SUBSET StoredFile]
Restoring == [does : {"restore"}, at : {"waiting", "start", "files", "migrate", "end"}, id : BackupIds, replace : BOOLEAN,
              todo : SUBSET StoredFile]
Retaining == [does : {"retention"}, at : {"remove", "end"}, id : BackupIds, todo : SUBSET StoredFile, last : BOOLEAN]
Command == {Bak!NoCommand} \cup Started \cup Backing \cup Restoring \cup Retaining

BackupTypes ==
  /\ db \in Image /\ disk \subseteq Files /\ worker \in AtWork
  /\ backups \in [BackupIds -> Directory] /\ proc \in [Procs -> Command]

\* The exclusive lock has one holder, and no worker runs under it: neither
\* requests nor files change but by the command.
LockExcludes ==
  /\ \A p, q \in Procs : Bak!Locked(p) /\ Bak!Locked(q) => p = q
  /\ Bak!Exclusive => worker = Bak!Idle /\ db.money # "reserved"

\* A row is written after its file, a file is erased after its document.
WorkerInOrder ==
  /\ Bak!Wanted(db) \subseteq disk
  /\ worker.does = "register" => worker.file \in disk
  /\ worker.does = "cleanup" => worker.doc \in db.gone

\* A directory begins without a manifest and is empty when it was removed.
DirectoriesInOrder ==
  \A b \in BackupIds : /\ backups[b].dir = "none" => ~backups[b].manifest
                       /\ backups[b].dir = "removed" => backups[b].files = {}

\* A manifest lists all files its dump refers to.
ManifestsComplete ==
  \A b \in BackupIds : backups[b].manifest =>
    backups[b].dump.rows \subseteq backups[b].listed /\ backups[b].dump.money # "reserved"

\* What a command has done so far.
Finished(b) == (backups[b].dir = "done" /\ backups[b].manifest) \/ backups[b].dir = "removed"
CommandInOrder(p) ==
  /\ proc[p].does = "backup" /\ proc[p].at \in {"dump", "list", "copy", "rename"} =>
       /\ backups[proc[p].id].dir = "staging"
       /\ proc[p].at # "rename" => ~backups[proc[p].id].manifest
  /\ proc[p].does = "backup" /\ proc[p].at \in {"list", "copy"} =>
       /\ backups[proc[p].id].dump = db
       /\ proc[p].at = "copy" => db.rows \subseteq backups[proc[p].id].files \cup proc[p].todo
  /\ proc[p].does = "restore" =>
       /\ Finished(proc[p].id)
       /\ proc[p].at = "files" => backups[proc[p].id].listed \ {Bak!Dump} \subseteq disk \cup proc[p].todo

BackupInv ==
  /\ BackupTypes /\ LockExcludes /\ WorkerInOrder /\ DirectoriesInOrder /\ ManifestsComplete
  /\ \A p \in Procs : CommandInOrder(p)

LEMMA BackupConstants ==
  LifecycleAssumption =>
    /\ Bak!Dump \notin Files /\ Owner \in [Files -> Docs]
    /\ Commands \in [Procs -> SUBSET {"backup", "restore", "retention"}]
  BY DEF LifecycleAssumption, Bak!BackupsAssumption, Bak!Dump

LEMMA BackupInit == Bak!Init => BackupInv
<1> SUFFICES ASSUME Bak!Init PROVE BackupInv
  OBVIOUS
<1>1. BackupTypes
  <2>1. Bak!NoDump \in Image
    BY DEF Bak!NoDump, Image
  <2>2. Bak!NoBackup \in Directory
    BY <2>1 DEF Bak!NoBackup, Directory
  <2> QED BY <2>1, <2>2 DEF Bak!Init, BackupTypes, AtWork, Command
<1>2. \A p \in Procs : ~Bak!Locked(p)
  BY DEF Bak!Init, Bak!Locked, Bak!NoCommand
<1>3. LockExcludes
  BY <1>2 DEF LockExcludes, Bak!Exclusive
<1>4. WorkerInOrder
  BY DEF Bak!Init, WorkerInOrder, Bak!Wanted, Bak!NoDump, Bak!Idle
<1>5. ManifestsComplete
  BY DEF Bak!Init, ManifestsComplete, Bak!NoBackup
<1>7. DirectoriesInOrder
  BY DEF Bak!Init, DirectoriesInOrder, Bak!NoBackup
<1>6. \A p \in Procs : CommandInOrder(p)
  BY DEF Bak!Init, CommandInOrder, Bak!NoCommand
<1> QED BY <1>1, <1>3, <1>4, <1>5, <1>6, <1>7 DEF BackupInv

LEMMA BackupInvIsEnough == BackupInv => Bak!TypeOK /\ Bak!NothingRegisteredIsLost
<1> SUFFICES ASSUME BackupInv PROVE Bak!TypeOK /\ Bak!NothingRegisteredIsLost
  OBVIOUS
<1>0. BackupTypes /\ WorkerInOrder /\ ManifestsComplete
  BY DEF BackupInv
<1>1. Bak!TypeOK
  <2>1. db.rows \subseteq Files /\ db.gone \subseteq Docs /\ db.money \in {"none", "reserved", "unknown"} /\ db.maintenance \in BOOLEAN
    BY <1>0 DEF BackupTypes, Image
  <2>2. worker.does \in {"nothing", "register", "cleanup", "ask"}
    BY <1>0 DEF BackupTypes, AtWork, Bak!Idle
  <2>3. ASSUME NEW b \in BackupIds PROVE /\ backups[b].dir \in {"none", "staging", "done", "removed"}
                                         /\ backups[b].files \cup backups[b].listed \subseteq Files \cup {Bak!Dump}
    <3>1. backups[b] \in Directory
      BY <1>0 DEF BackupTypes
    <3> QED BY <3>1 DEF Directory, StoredFile
  <2>4. ASSUME NEW p \in Procs PROVE proc[p].does \in {"nothing", "backup", "restore", "retention"}
    <3>1. proc[p] \in Command
      BY <1>0 DEF BackupTypes
    <3> QED BY <3>1 DEF Command, Started, Backing, Restoring, Retaining, Bak!NoCommand
  <2> QED BY <1>0, <2>1, <2>2, <2>3, <2>4 DEF Bak!TypeOK, BackupTypes
<1>2. Bak!NothingRegisteredIsLost
  <2>1. ASSUME NEW b \in BackupIds, Bak!Restorable(b)
        PROVE  backups[b].dump.rows \subseteq backups[b].files /\ backups[b].dump.money # "reserved"
    BY <1>0, <2>1 DEF Bak!Restorable, ManifestsComplete
  <2> QED BY <1>0, <2>1 DEF Bak!NothingRegisteredIsLost, WorkerInOrder
<1> QED BY <1>1, <1>2

\* A step of the worker or of a user: the commands and the backups are as
\* before, and no command holds the lock.
LEMMA WithoutCommand ==
  ASSUME BackupInv, UNCHANGED <<backups, proc>>, ~Bak!Exclusive \/ (worker' = Bak!Idle /\ UNCHANGED <<db, disk>>),
         db' \in Image, disk' \subseteq Files, worker' \in AtWork, WorkerInOrder'
  PROVE  BackupInv'
<1>1. \A p \in Procs : Bak!Locked(p)' <=> Bak!Locked(p)
  BY DEF Bak!Locked
<1>2. Bak!Exclusive' <=> Bak!Exclusive
  BY <1>1 DEF Bak!Exclusive
<1>3. LockExcludes'
  BY <1>1, <1>2 DEF BackupInv, LockExcludes
<1>4. ManifestsComplete' /\ DirectoriesInOrder'
  BY DEF BackupInv, ManifestsComplete, DirectoriesInOrder
<1>5. BackupTypes'
  BY DEF BackupInv, BackupTypes
<1>6. ASSUME NEW p \in Procs PROVE CommandInOrder(p)'
  <2>1. CommandInOrder(p)
    BY DEF BackupInv
  <2>2. CASE UNCHANGED <<db, disk>>
    BY <2>1, <2>2 DEF CommandInOrder, Finished
  <2>3. CASE ~Bak!Exclusive
    <3>1. ~Bak!Locked(p)
      BY <2>3 DEF Bak!Exclusive
    <3>2. proc[p].at \notin {"dump", "list", "copy", "rename", "files"}
      BY <3>1 DEF Bak!Locked
    <3> QED BY <2>1, <3>2 DEF CommandInOrder, Finished
  <2> QED BY <2>2, <2>3
<1> QED BY <1>3, <1>4, <1>5, <1>6 DEF BackupInv

LEMMA WorkerSteps ==
  ASSUME LifecycleAssumption, BackupInv,
         \/ \E f \in Files : Bak!Produce(f) \/ Bak!CleanupRemoves(f)
         \/ \E d \in Docs : Bak!StartCleanup(d) \/ Bak!DeleteDocument(d)
         \/ Bak!Register \/ Bak!CleanupCommits \/ Bak!Request \/ Bak!Answered \/ Bak!WorkerDies
  PROVE  BackupInv'
<1>0. /\ BackupTypes /\ WorkerInOrder /\ db \in Image /\ disk \subseteq Files /\ worker \in AtWork
      /\ worker # Bak!Idle => ~Bak!Exclusive
  BY DEF BackupInv, BackupTypes, LockExcludes
<1>1. ASSUME NEW f \in Files, Bak!Produce(f) PROVE BackupInv'
  <2>1. worker' = [does |-> "register", file |-> f] /\ disk' = disk \cup {f} /\ UNCHANGED <<db, backups, proc>> /\ ~Bak!Exclusive
    BY <1>1 DEF Bak!Produce, Bak!StartWork, Bak!Writable
  <2>2. worker' \in AtWork
    BY <2>1 DEF AtWork
  <2>3. WorkerInOrder'
    BY <1>0, <2>1 DEF WorkerInOrder, Bak!Wanted
  <2> QED BY <1>0, <2>1, <2>2, <2>3, WithoutCommand
<1>2. CASE Bak!Register
  <2>1. worker' = Bak!Idle /\ db' = [db EXCEPT !.rows = @ \cup {worker.file}] /\ UNCHANGED <<disk, backups, proc>>
        /\ worker.does = "register" /\ worker # Bak!Idle
    BY <1>2 DEF Bak!Register, Bak!Idle
  <2>2. worker.file \in Files
    BY <1>0, <2>1 DEF AtWork, Bak!Idle
  <2>3. db' \in Image /\ db'.rows = db.rows \cup {worker.file} /\ db'.gone = db.gone
    BY <1>0, <2>1, <2>2 DEF Image
  <2>4. WorkerInOrder'
    BY <1>0, <2>1, <2>3 DEF WorkerInOrder, Bak!Wanted, Bak!Idle
  <2> QED BY <1>0, <2>1, <2>3, <2>4, WithoutCommand DEF AtWork
<1>3. ASSUME NEW d \in Docs, Bak!StartCleanup(d) PROVE BackupInv'
  <2>1. worker' = [does |-> "cleanup", doc |-> d] /\ d \in db.gone /\ UNCHANGED <<db, disk, backups, proc>> /\ ~Bak!Exclusive
    BY <1>3 DEF Bak!StartCleanup, Bak!StartWork, Bak!Writable
  <2>2. worker' \in AtWork
    BY <2>1 DEF AtWork
  <2>3. WorkerInOrder'
    BY <1>0, <2>1 DEF WorkerInOrder, Bak!Wanted
  <2> QED BY <1>0, <2>1, <2>2, <2>3, WithoutCommand
<1>4. ASSUME NEW f \in Files, Bak!CleanupRemoves(f) PROVE BackupInv'
  <2>1. worker.does = "cleanup" /\ Owner[f] = worker.doc /\ disk' = disk \ {f} /\ UNCHANGED <<db, worker, backups, proc>>
    BY <1>4 DEF Bak!CleanupRemoves, Bak!OfDoc
  <2>2. worker # Bak!Idle
    BY <2>1 DEF Bak!Idle
  <2>3. WorkerInOrder'
    BY <1>0, <2>1 DEF WorkerInOrder, Bak!Wanted
  <2> QED BY <1>0, <2>1, <2>2, <2>3, WithoutCommand
<1>5. CASE Bak!CleanupCommits
  <2>1. worker.does = "cleanup" /\ worker' = Bak!Idle /\ db' = [db EXCEPT !.rows = @ \ Bak!OfDoc(worker.doc)]
        /\ UNCHANGED <<disk, backups, proc>>
    BY <1>5 DEF Bak!CleanupCommits
  <2>2. worker # Bak!Idle
    BY <2>1 DEF Bak!Idle
  <2>3. db' \in Image /\ db'.rows \subseteq db.rows /\ db'.gone = db.gone
    BY <1>0, <2>1 DEF Image
  <2>4. WorkerInOrder'
    BY <1>0, <2>1, <2>3 DEF WorkerInOrder, Bak!Wanted, Bak!Idle
  <2> QED BY <1>0, <2>1, <2>2, <2>3, <2>4, WithoutCommand DEF AtWork
<1>6. CASE Bak!Request
  <2>1. worker' = [does |-> "ask"] /\ db' = [db EXCEPT !.money = "reserved"] /\ UNCHANGED <<disk, backups, proc>> /\ ~Bak!Exclusive
    BY <1>6 DEF Bak!Request, Bak!StartWork, Bak!Writable
  <2>2. db' \in Image /\ db'.rows = db.rows /\ db'.gone = db.gone
    BY <1>0, <2>1 DEF Image
  <2>3. WorkerInOrder'
    BY <1>0, <2>1, <2>2 DEF WorkerInOrder, Bak!Wanted
  <2> QED BY <1>0, <2>1, <2>2, <2>3, WithoutCommand DEF AtWork
<1>7. CASE Bak!Answered
  <2>1. worker.does = "ask" /\ worker' = Bak!Idle /\ db' = [db EXCEPT !.money = "none"] /\ UNCHANGED <<disk, backups, proc>>
    BY <1>7 DEF Bak!Answered
  <2>2. worker # Bak!Idle
    BY <2>1 DEF Bak!Idle
  <2>3. db' \in Image /\ db'.rows = db.rows /\ db'.gone = db.gone
    BY <1>0, <2>1 DEF Image
  <2>4. WorkerInOrder'
    BY <1>0, <2>1, <2>3 DEF WorkerInOrder, Bak!Wanted, Bak!Idle
  <2> QED BY <1>0, <2>1, <2>2, <2>3, <2>4, WithoutCommand DEF AtWork
<1>8. CASE Bak!WorkerDies
  <2>1. worker' = Bak!Idle /\ UNCHANGED <<db, disk, backups, proc>>
    BY <1>8 DEF Bak!WorkerDies
  <2>2. WorkerInOrder'
    BY <1>0, <2>1 DEF WorkerInOrder, Bak!Wanted, Bak!Idle
  <2> QED BY <1>0, <2>1, <2>2, WithoutCommand DEF AtWork
<1>9. ASSUME NEW d \in Docs, Bak!DeleteDocument(d) PROVE BackupInv'
  <2>1. db' = [db EXCEPT !.gone = @ \cup {d}] /\ UNCHANGED <<disk, worker, backups, proc>> /\ ~Bak!Exclusive
    BY <1>9 DEF Bak!DeleteDocument, Bak!Writable
  <2>2. db' \in Image /\ db'.rows = db.rows /\ db'.gone = db.gone \cup {d}
    BY <1>0, <2>1 DEF Image
  <2>3. WorkerInOrder'
    BY <1>0, <2>1, <2>2 DEF WorkerInOrder, Bak!Wanted
  <2> QED BY <1>0, <2>1, <2>2, <2>3, WithoutCommand
<1> QED BY <1>1, <1>2, <1>3, <1>4, <1>5, <1>6, <1>7, <1>8, <1>9

\* A step of the command that holds the lock, which keeps what others wait for.
LEMMA CommandSteps ==
  ASSUME BackupInv, NEW p \in Procs, Bak!Locked(p), NEW cmd \in Command, proc' = [proc EXCEPT ![p] = cmd],
         UNCHANGED worker, db' \in Image, db'.money # "reserved", disk' \subseteq Files, Bak!Wanted(db') \subseteq disk',
         backups' \in [BackupIds -> Directory], ManifestsComplete', DirectoriesInOrder', CommandInOrder(p)',
         \A b \in BackupIds : Finished(b) => Finished(b)'
  PROVE  BackupInv'
<1>1. BackupTypes'
  BY DEF BackupInv, BackupTypes
<1>2. ASSUME NEW q \in Procs, q # p PROVE ~Bak!Locked(q) /\ proc'[q] = proc[q] /\ proc[q] \in Command
  BY <1>2 DEF BackupInv, BackupTypes, LockExcludes
<1>3. LockExcludes'
  <2>1. \A q \in Procs : Bak!Locked(q)' => q = p
    BY <1>2 DEF Bak!Locked
  <2>2. worker = Bak!Idle
    BY DEF BackupInv, LockExcludes, Bak!Exclusive
  <2> QED BY <2>1, <2>2 DEF LockExcludes
<1>4. WorkerInOrder'
  <2>1. worker' = Bak!Idle
    BY DEF BackupInv, LockExcludes, Bak!Exclusive
  <2> QED BY <2>1 DEF WorkerInOrder, Bak!Idle, Bak!Wanted
<1>5. ASSUME NEW q \in Procs, q # p PROVE CommandInOrder(q)'
  <2>1. proc[q].at \in {"idle", "waiting"} /\ proc'[q] = proc[q] /\ CommandInOrder(q)
    BY <1>2, <1>5 DEF Bak!Locked, BackupInv
  <2>2. proc[q].does = "restore" => proc[q].id \in BackupIds /\ Finished(proc[q].id)
    BY <1>2, <1>5, <2>1 DEF CommandInOrder, Command, Bak!NoCommand, Started, Backing, Restoring, Retaining
  <2>3. proc'[q].does = "restore" => \/ backups'[proc'[q].id].dir = "done" /\ backups'[proc'[q].id].manifest
                                     \/ backups'[proc'[q].id].dir = "removed"
    BY <2>1, <2>2 DEF Finished
  <2>4. proc'[q].at \notin {"dump", "list", "copy", "rename", "files"}
    BY <2>1
  <2> QED BY <2>3, <2>4 DEF CommandInOrder, Finished
<1> QED BY <1>1, <1>3, <1>4, <1>5 DEF BackupInv

LEMMA CommandBegins ==
  ASSUME LifecycleAssumption, BackupInv, NEW p \in Procs,
         \/ \E c \in Commands[p] : Bak!Window(p, c)
         \/ \E on \in BOOLEAN : Bak!SetMaintenance(p, on)
         \/ \E b \in BackupIds, replace \in BOOLEAN : Bak!CallRestore(p, b, replace)
         \/ Bak!Ends(p)
  PROVE  BackupInv'
<1>0. BackupTypes /\ LockExcludes /\ WorkerInOrder /\ DirectoriesInOrder /\ ManifestsComplete /\ db \in Image /\ proc \in [Procs -> Command]
  BY DEF BackupInv, BackupTypes
<1>1. ASSUME NEW on \in BOOLEAN PROVE
        /\ Bak!Maintained(db, on) \in Image /\ Bak!Maintained(db, on).rows = db.rows /\ Bak!Maintained(db, on).gone = db.gone
        /\ on => Bak!Maintained(db, on).money # "reserved"
  BY <1>0 DEF Bak!Maintained, Bak!Uncertain, Image
<1>2. ASSUME NEW on \in BOOLEAN, Bak!SetMaintenance(p, on) PROVE BackupInv'
  <2>1. ~Bak!Exclusive /\ db' = Bak!Maintained(db, on) /\ UNCHANGED <<disk, worker, backups, proc>>
    BY <1>2 DEF Bak!SetMaintenance, Bak!LockFree
  <2>2. db' \in Image /\ db'.rows = db.rows /\ db'.gone = db.gone
    BY <1>1, <2>1
  <2>3. WorkerInOrder'
    BY <1>0, <2>1, <2>2 DEF WorkerInOrder, Bak!Wanted
  <2> QED BY <1>0, <2>1, <2>2, <2>3, WithoutCommand DEF BackupTypes
<1>3. ASSUME NEW cmd \in Command, cmd.at \in {"idle", "waiting"}, proc' = [proc EXCEPT ![p] = cmd],
             UNCHANGED <<db, disk, worker, backups>>,
             cmd.does = "restore" => Finished(cmd.id)
      PROVE  BackupInv'
  <2>1. proc' \in [Procs -> Command] /\ \A q \in Procs : proc'[q] = IF q = p THEN cmd ELSE proc[q]
    BY <1>0, <1>3
  <2>2. \A q \in Procs : Bak!Locked(q)' => Bak!Locked(q)
    BY <1>3, <2>1 DEF Bak!Locked
  <2>3. LockExcludes'
    BY <1>0, <1>3, <2>2 DEF LockExcludes, Bak!Exclusive
  <2>4. ASSUME NEW q \in Procs PROVE CommandInOrder(q)'
    <3>1. CASE q = p
      BY <1>3, <2>1, <3>1 DEF CommandInOrder, Finished
    <3>2. CASE q # p
      BY <1>3, <2>1, <3>2 DEF CommandInOrder, Finished, BackupInv
    <3> QED BY <3>1, <3>2
  <2>5. BackupTypes' /\ WorkerInOrder' /\ DirectoriesInOrder' /\ ManifestsComplete'
    BY <1>0, <1>3, <2>1 DEF BackupTypes, WorkerInOrder, DirectoriesInOrder, ManifestsComplete, Bak!Wanted
  <2> QED BY <2>3, <2>4, <2>5 DEF BackupInv
<1>4. CASE Bak!Ends(p)
  <2>1. Bak!NoCommand \in Command /\ Bak!NoCommand.at = "idle" /\ Bak!NoCommand.does # "restore"
    BY DEF Command, Bak!NoCommand
  <2> QED BY <1>3, <1>4, <2>1 DEF Bak!Ends
<1>5. ASSUME NEW b \in BackupIds, NEW replace \in BOOLEAN, Bak!CallRestore(p, b, replace) PROVE BackupInv'
  <2> DEFINE cmd == [does |-> "restore", at |-> "waiting", id |-> b, replace |-> replace, todo |-> {}]
  <2>1. cmd \in Command
    BY DEF Command, Restoring
  <2>2. Finished(b)
    BY <1>5 DEF Bak!CallRestore, Bak!Restorable, Finished
  <2>3. proc' = [proc EXCEPT ![p] = cmd] /\ UNCHANGED <<db, disk, worker, backups>>
    BY <1>5 DEF Bak!CallRestore
  <2> QED BY <1>3, <2>1, <2>2, <2>3
<1>6. ASSUME NEW c \in Commands[p], Bak!Window(p, c) PROVE BackupInv'
  <2> DEFINE cmd == [proc[p] EXCEPT !.at = "start", !.does = c]
  <2>1. /\ ~Bak!Exclusive /\ worker = Bak!Idle /\ db' = Bak!Maintained(db, TRUE) /\ UNCHANGED <<disk, worker, backups>>
        /\ IF c = "restore" THEN proc[p].at = "waiting" ELSE proc[p].at = "idle"
        /\ proc' = [proc EXCEPT ![p].at = "start", ![p].does = c]
    BY <1>6 DEF Bak!Window, Bak!LockFree
  <2>2. proc[p] \in Command /\ c \in {"backup", "restore", "retention"} /\ CommandInOrder(p)
    BY <1>0, BackupConstants DEF BackupInv
  <2>3. proc[p].at = "waiting" => proc[p] \in Restoring
    BY <2>2 DEF Command, Bak!NoCommand, Started, Backing, Retaining
  <2>4. proc[p].at = "idle" => proc[p] = Bak!NoCommand
    BY <2>2 DEF Command, Started, Backing, Restoring, Retaining
  <2>5. /\ cmd \in Command /\ cmd.at = "start" /\ cmd.does = c
        /\ c = "restore" => cmd.id = proc[p].id /\ proc[p].does = "restore"
    <3>1. CASE c = "restore"
      BY <2>1, <2>3, <3>1 DEF Command, Restoring
    <3>2. CASE c # "restore"
      <4>1. cmd = [does |-> c, at |-> "start", todo |-> {}]
        <5>1. proc[p] = [does |-> "nothing", at |-> "idle", todo |-> {}]
          BY <2>1, <2>4, <3>2 DEF Bak!NoCommand
        <5>2. proc[p] \in [does : {"nothing"}, at : {"idle"}, todo : {{}}]
          BY ONLY <5>1
        <5>3. cmd \in [does : {c}, at : {"start"}, todo : {{}}]
          BY <5>2
        <5> HIDE DEF cmd
        <5> QED BY <5>3
      <4>2. [does |-> c, at |-> "start", todo |-> {}] \in Started
        BY <2>2, <3>2 DEF Started
      <4> HIDE DEF cmd
      <4> QED BY <3>2, <4>1, <4>2 DEF Command
    <3> QED BY <3>1, <3>2
  <2>6. proc' = [proc EXCEPT ![p] = cmd]
    BY <1>0, <2>1
  <2> HIDE DEF cmd
  <2>7. proc' \in [Procs -> Command] /\ \A q \in Procs : proc'[q] = IF q = p THEN cmd ELSE proc[q]
    BY <1>0, <2>5, <2>6
  <2>8. db' \in Image /\ db'.rows = db.rows /\ db'.gone = db.gone /\ db'.money # "reserved"
    BY <1>1, <2>1
  <2>9. LockExcludes'
    <3>1. \A q \in Procs : Bak!Locked(q)' => q = p
      BY <2>1, <2>7 DEF Bak!Locked, Bak!Exclusive
    <3> QED BY <2>1, <2>8, <3>1 DEF LockExcludes
  <2>10. ASSUME NEW q \in Procs PROVE CommandInOrder(q)'
    <3>1. CASE q = p
      BY <2>1, <2>2, <2>5, <2>7, <3>1 DEF CommandInOrder, Finished
    <3>2. CASE q # p
      <4>1. proc'[q] = proc[q] /\ proc[q].at \in {"idle", "waiting"} /\ CommandInOrder(q)
        BY <2>1, <2>7, <3>2 DEF Bak!Exclusive, Bak!Locked, BackupInv
      <4> QED BY <2>1, <4>1 DEF CommandInOrder, Finished
    <3> QED BY <3>1, <3>2
  <2>11. BackupTypes' /\ WorkerInOrder' /\ DirectoriesInOrder' /\ ManifestsComplete'
    BY <1>0, <2>1, <2>7, <2>8 DEF BackupTypes, WorkerInOrder, DirectoriesInOrder, ManifestsComplete, Bak!Wanted, Bak!Idle
  <2> QED BY <2>9, <2>10, <2>11 DEF BackupInv
<1> QED BY <1>2, <1>4, <1>5, <1>6

\* The steps of a backup.
LEMMA BackupSteps ==
  ASSUME LifecycleAssumption, BackupInv, NEW p \in Procs,
         Bak!Stage(p) \/ Bak!DumpDatabase(p) \/ Bak!ListFiles(p) \/ Bak!WriteManifest(p) \/ Bak!Rename(p)
           \/ \E f \in Files : Bak!CopyFile(p, f)
  PROVE  BackupInv'
<1>0. /\ BackupTypes /\ LockExcludes /\ WorkerInOrder /\ DirectoriesInOrder /\ ManifestsComplete /\ CommandInOrder(p)
      /\ db \in Image /\ disk \subseteq Files /\ proc \in [Procs -> Command] /\ backups \in [BackupIds -> Directory]
      /\ Bak!Wanted(db) \subseteq disk /\ Bak!Dump \in StoredFile
  BY DEF BackupInv, BackupTypes, WorkerInOrder, StoredFile
<1>1. Bak!Locked(p) => db.money # "reserved"
  BY <1>0 DEF LockExcludes, Bak!Exclusive
<1>2. ASSUME NEW cmd \in Command, Bak!Locked(p), proc' = [proc EXCEPT ![p] = cmd], UNCHANGED <<db, disk, worker>>,
             backups' \in [BackupIds -> Directory], ManifestsComplete', DirectoriesInOrder', CommandInOrder(p)',
             \A b \in BackupIds : Finished(b) => Finished(b)'
      PROVE  BackupInv'
  <2>1. db' \in Image /\ db'.money # "reserved" /\ disk' \subseteq Files /\ Bak!Wanted(db') \subseteq disk' /\ UNCHANGED worker
    BY <1>0, <1>1, <1>2
  <2> QED BY <1>2, <2>1, CommandSteps
\* Only the directory b changes, which is being written.
<1>3. ASSUME NEW b \in BackupIds, NEW d \in Directory, backups' = [backups EXCEPT ![b] = d], backups[b].dir \in {"none", "staging"},
             d.dir \in {"staging", "done"}, d.manifest => d.dump.rows \subseteq d.listed /\ d.dump.money # "reserved"
      PROVE  /\ backups' \in [BackupIds -> Directory] /\ ManifestsComplete' /\ DirectoriesInOrder'
             /\ \A c \in BackupIds : Finished(c) => Finished(c)'
             /\ backups'[b] = d
  BY <1>0, <1>3 DEF ManifestsComplete, DirectoriesInOrder, Finished
<1>4. ASSUME proc[p].does = "backup", proc[p].at \in {"dump", "list", "copy", "rename"}
      PROVE  /\ proc[p] \in Backing /\ proc[p].id \in BackupIds /\ backups[proc[p].id] \in Directory /\ Bak!Locked(p)
             /\ backups[proc[p].id].dir = "staging"
             /\ proc[p].at # "rename" => ~backups[proc[p].id].manifest
  <2>1. proc[p] \in Backing
    BY <1>0, <1>4 DEF Command, Bak!NoCommand, Started, Restoring, Retaining
  <2> QED BY <1>0, <1>4, <2>1 DEF Backing, CommandInOrder, Bak!Locked
<1>5. CASE Bak!Stage(p)
  <2>1. PICK b \in BackupIds : /\ backups[b].dir = "none" /\ backups' = [backups EXCEPT ![b].dir = "staging"]
                               /\ proc' = [proc EXCEPT ![p] = IF Bak!Verified THEN [does |-> "backup", at |-> "dump", id |-> b, todo |-> {}]
                                                              ELSE Bak!NoCommand]
    BY <1>5 DEF Bak!Stage
  <2> DEFINE d == [backups[b] EXCEPT !.dir = "staging"]
             cmd == IF Bak!Verified THEN [does |-> "backup", at |-> "dump", id |-> b, todo |-> {}] ELSE Bak!NoCommand
  <2>2. d \in Directory /\ d.dir = "staging" /\ ~d.manifest /\ backups' = [backups EXCEPT ![b] = d]
    BY <1>0, <2>1 DEF Directory, DirectoriesInOrder
  <2>3. [does |-> "backup", at |-> "dump", id |-> b, todo |-> {}] \in Backing
    BY DEF Backing
  <2>4. cmd \in Command
    BY <2>3 DEF Command
  <2>5. proc'[p] = cmd /\ Bak!Locked(p)
    BY <1>0, <1>5, <2>1 DEF Bak!Stage, Bak!Locked
  <2> HIDE DEF d
  <2>6. backups' \in [BackupIds -> Directory] /\ ManifestsComplete' /\ DirectoriesInOrder' /\ backups'[b] = d
        /\ \A c \in BackupIds : Finished(c) => Finished(c)'
    BY <1>3, <2>1, <2>2
  <2>7. CommandInOrder(p)'
    BY <2>2, <2>5, <2>6 DEF CommandInOrder, Bak!NoCommand
  <2> HIDE DEF cmd
  <2> QED BY <1>2, <1>5, <2>1, <2>4, <2>5, <2>6, <2>7 DEF Bak!Stage, cmd
<1>6. CASE Bak!DumpDatabase(p)
  <2> DEFINE b == proc[p].id
             d == [backups[b] EXCEPT !.dump = db, !.files = {Bak!Dump}]
             cmd == [proc[p] EXCEPT !.at = "list", !.todo = {}]
  <2>1. proc[p].does = "backup" /\ proc[p].at = "dump" /\ proc' = [proc EXCEPT ![p] = cmd] /\ UNCHANGED <<db, disk, worker>>
        /\ backups' = [backups EXCEPT ![b] = d]
    BY <1>0, <1>4, <1>6 DEF Bak!DumpDatabase, Bak!Step
  <2>2. proc[p] \in Backing /\ b \in BackupIds /\ backups[b] \in Directory /\ Bak!Locked(p) /\ backups[b].dir = "staging" /\ ~backups[b].manifest
    BY <1>4, <2>1
  <2>3. d \in Directory /\ d.dir = "staging" /\ ~d.manifest /\ d.dump = db
    BY <1>0, <2>2 DEF Directory
  <2>4. cmd \in Backing /\ cmd.does = "backup" /\ cmd.at = "list" /\ cmd.id = b
    BY <2>1, <2>2 DEF Backing
  <2>5. proc'[p] = cmd
    BY <1>0, <2>1
  <2> HIDE DEF b, d, cmd
  <2>6. backups' \in [BackupIds -> Directory] /\ ManifestsComplete' /\ DirectoriesInOrder' /\ backups'[b] = d
        /\ \A c \in BackupIds : Finished(c) => Finished(c)'
    BY <1>3, <2>1, <2>2, <2>3
  <2>7. CommandInOrder(p)'
    BY <2>1, <2>3, <2>4, <2>5, <2>6 DEF CommandInOrder
  <2> QED BY <1>2, <2>1, <2>2, <2>4, <2>6, <2>7 DEF Command
<1>7. CASE Bak!ListFiles(p)
  <2> DEFINE b == proc[p].id
             cmd == [proc[p] EXCEPT !.at = "copy", !.todo = db.rows]
  <2>1. proc[p].does = "backup" /\ proc[p].at = "list" /\ proc' = [proc EXCEPT ![p] = cmd] /\ UNCHANGED <<db, disk, worker, backups>>
    BY <1>0, <1>7 DEF Bak!ListFiles, Bak!Step
  <2>2. proc[p] \in Backing /\ b \in BackupIds /\ Bak!Locked(p) /\ backups[b].dir = "staging" /\ ~backups[b].manifest /\ backups[b].dump = db
    BY <1>0, <1>4, <2>1 DEF CommandInOrder
  <2>3. cmd \in Backing /\ cmd.does = "backup" /\ cmd.at = "copy" /\ cmd.id = b /\ cmd.todo = db.rows
    BY <1>0, <2>1, <2>2 DEF Backing, Image, StoredFile
  <2>4. proc'[p] = cmd
    BY <1>0, <2>1
  <2> HIDE DEF b, cmd
  <2>5. backups' \in [BackupIds -> Directory] /\ ManifestsComplete' /\ DirectoriesInOrder' /\ \A c \in BackupIds : Finished(c) => Finished(c)'
    BY <1>0, <2>1 DEF ManifestsComplete, DirectoriesInOrder, Finished
  <2>6. CommandInOrder(p)'
    BY <2>1, <2>2, <2>3, <2>4 DEF CommandInOrder
  <2> QED BY <1>2, <2>1, <2>2, <2>3, <2>5, <2>6 DEF Command
<1>8. ASSUME NEW f \in Files, Bak!CopyFile(p, f) PROVE BackupInv'
  <2> DEFINE b == proc[p].id
             d == [backups[b] EXCEPT !.files = @ \cup {f}]
             cmd == [proc[p] EXCEPT !.at = "copy", !.todo = proc[p].todo \ {f}]
  <2>1. proc[p].does = "backup" /\ proc[p].at = "copy" /\ proc' = [proc EXCEPT ![p] = cmd] /\ UNCHANGED <<db, disk, worker>>
        /\ backups' = [backups EXCEPT ![b] = d]
    BY <1>0, <1>4, <1>8 DEF Bak!CopyFile, Bak!Step
  <2>2. /\ proc[p] \in Backing /\ b \in BackupIds /\ backups[b] \in Directory /\ Bak!Locked(p) /\ backups[b].dir = "staging" /\ ~backups[b].manifest
        /\ backups[b].dump = db /\ db.rows \subseteq backups[b].files \cup proc[p].todo
    BY <1>0, <1>4, <2>1 DEF CommandInOrder
  <2>3. d \in Directory /\ d.dir = "staging" /\ ~d.manifest /\ d.dump = db /\ d.files = backups[b].files \cup {f}
    BY <1>0, <2>2 DEF Directory, StoredFile
  <2>4. cmd \in Backing /\ cmd.does = "backup" /\ cmd.at = "copy" /\ cmd.id = b /\ cmd.todo = proc[p].todo \ {f}
    BY <2>1, <2>2 DEF Backing
  <2>5. proc'[p] = cmd
    BY <1>0, <2>1
  <2> HIDE DEF b, d, cmd
  <2>6. backups' \in [BackupIds -> Directory] /\ ManifestsComplete' /\ DirectoriesInOrder' /\ backups'[b] = d
        /\ \A c \in BackupIds : Finished(c) => Finished(c)'
    BY <1>3, <2>1, <2>2, <2>3
  <2>7. CommandInOrder(p)'
    BY <2>1, <2>2, <2>3, <2>4, <2>5, <2>6 DEF CommandInOrder
  <2> QED BY <1>2, <2>1, <2>2, <2>4, <2>6, <2>7 DEF Command
<1>9. CASE Bak!WriteManifest(p)
  <2> DEFINE b == proc[p].id
             d == [backups[b] EXCEPT !.manifest = TRUE, !.listed = backups[b].files]
             cmd == [proc[p] EXCEPT !.at = "rename", !.todo = {}]
  <2>1. proc[p].does = "backup" /\ proc[p].at = "copy" /\ proc' = [proc EXCEPT ![p] = cmd] /\ UNCHANGED <<db, disk, worker>>
        /\ backups' = [backups EXCEPT ![b] = d] /\ proc[p].todo = {}
    BY <1>0, <1>4, <1>9 DEF Bak!WriteManifest, Bak!Step, Bak!AllCopied
  <2>2. /\ proc[p] \in Backing /\ b \in BackupIds /\ backups[b] \in Directory /\ Bak!Locked(p) /\ backups[b].dir = "staging"
        /\ backups[b].dump = db /\ db.rows \subseteq backups[b].files
    BY <1>0, <1>4, <2>1 DEF CommandInOrder
  <2>3. d \in Directory /\ d.dir = "staging" /\ d.dump = db /\ d.listed = backups[b].files
    BY <1>0, <2>2 DEF Directory
  <2>4. cmd \in Backing /\ cmd.does = "backup" /\ cmd.at = "rename" /\ cmd.id = b
    BY <2>1, <2>2 DEF Backing
  <2>5. proc'[p] = cmd
    BY <1>0, <2>1
  <2> HIDE DEF b, d, cmd
  <2>6. backups' \in [BackupIds -> Directory] /\ ManifestsComplete' /\ DirectoriesInOrder' /\ backups'[b] = d
        /\ \A c \in BackupIds : Finished(c) => Finished(c)'
    BY <1>1, <1>3, <2>1, <2>2, <2>3
  <2>7. CommandInOrder(p)'
    BY <2>3, <2>4, <2>5, <2>6 DEF CommandInOrder
  <2> QED BY <1>2, <2>1, <2>2, <2>4, <2>6, <2>7 DEF Command
<1>10. CASE Bak!Rename(p)
  <2> DEFINE b == proc[p].id
             d == [backups[b] EXCEPT !.dir = "done"]
             cmd == [proc[p] EXCEPT !.at = "end", !.todo = {}]
  <2>1. proc[p].does = "backup" /\ proc[p].at = "rename" /\ proc' = [proc EXCEPT ![p] = cmd] /\ UNCHANGED <<db, disk, worker>>
        /\ backups' = [backups EXCEPT ![b] = d]
    BY <1>0, <1>4, <1>10 DEF Bak!Rename, Bak!Step
  <2>2. /\ proc[p] \in Backing /\ b \in BackupIds /\ backups[b] \in Directory /\ Bak!Locked(p) /\ backups[b].dir = "staging"
        /\ backups[b].manifest => backups[b].dump.rows \subseteq backups[b].listed /\ backups[b].dump.money # "reserved"
    BY <1>0, <1>4, <2>1 DEF ManifestsComplete
  <2>3. d \in Directory /\ d.dir = "done" /\ d.dump = backups[b].dump /\ d.listed = backups[b].listed /\ d.manifest = backups[b].manifest
    BY <1>0, <2>2 DEF Directory
  <2>4. cmd \in Backing /\ cmd.does = "backup" /\ cmd.at = "end"
    BY <2>1, <2>2 DEF Backing
  <2>5. proc'[p] = cmd
    BY <1>0, <2>1
  <2> HIDE DEF b, d, cmd
  <2>6. backups' \in [BackupIds -> Directory] /\ ManifestsComplete' /\ DirectoriesInOrder' /\ backups'[b] = d
        /\ \A c \in BackupIds : Finished(c) => Finished(c)'
    BY <1>3, <2>1, <2>2, <2>3
  <2>7. CommandInOrder(p)'
    BY <2>4, <2>5 DEF CommandInOrder
  <2> QED BY <1>2, <2>1, <2>2, <2>4, <2>6, <2>7 DEF Command
<1> QED BY <1>5, <1>6, <1>7, <1>8, <1>9, <1>10

\* The steps of a restore: the files of the backup, then its dump.
LEMMA RestoreSteps ==
  ASSUME LifecycleAssumption, BackupInv, NEW p \in Procs,
         Bak!StartRestore(p) \/ Bak!SwitchDatabase(p) \/ Bak!Reassert(p) \/ \E f \in Files : Bak!RestoreFile(p, f)
  PROVE  BackupInv'
<1>0. /\ BackupTypes /\ LockExcludes /\ WorkerInOrder /\ DirectoriesInOrder /\ ManifestsComplete /\ CommandInOrder(p)
      /\ db \in Image /\ disk \subseteq Files /\ proc \in [Procs -> Command] /\ backups \in [BackupIds -> Directory]
      /\ Bak!Wanted(db) \subseteq disk
  BY DEF BackupInv, BackupTypes, WorkerInOrder
<1>1. Bak!Locked(p) => db.money # "reserved"
  BY <1>0 DEF LockExcludes, Bak!Exclusive
<1>2. ASSUME NEW cmd \in Command, Bak!Locked(p), proc' = [proc EXCEPT ![p] = cmd], UNCHANGED <<worker, backups>>,
             db' \in Image, db'.money # "reserved", disk' \subseteq Files, Bak!Wanted(db') \subseteq disk', CommandInOrder(p)'
      PROVE  BackupInv'
  <2>1. /\ backups' \in [BackupIds -> Directory] /\ ManifestsComplete' /\ DirectoriesInOrder'
        /\ \A b \in BackupIds : Finished(b) => Finished(b)'
    BY <1>0, <1>2 DEF ManifestsComplete, DirectoriesInOrder, Finished
  <2> QED BY <1>2, <2>1, CommandSteps
<1>3. ASSUME proc[p].does = "restore"
      PROVE  /\ proc[p] \in Restoring /\ proc[p].id \in BackupIds /\ backups[proc[p].id] \in Directory
             /\ Finished(proc[p].id)
  <2>1. proc[p] \in Restoring
    BY <1>0, <1>3 DEF Command, Bak!NoCommand, Started, Backing, Retaining
  <2> QED BY <1>0, <1>3, <2>1 DEF Restoring, CommandInOrder
<1>4. CASE Bak!StartRestore(p)
  <2> DEFINE b == proc[p].id
             cmd == [proc[p] EXCEPT !.at = "files", !.todo = Bak!FilesFirst(p)]
  <2>1. proc[p].does = "restore" /\ proc[p].at = "start" /\ proc' = [proc EXCEPT ![p] = cmd] /\ UNCHANGED <<db, disk, worker, backups>>
    BY <1>0, <1>4 DEF Bak!StartRestore, Bak!Step
  <2>2. proc[p] \in Restoring /\ b \in BackupIds /\ backups[b] \in Directory /\ Finished(b) /\ Bak!Locked(p)
    BY <1>3, <2>1 DEF Bak!Locked
  <2>3. cmd \in Restoring /\ cmd.does = "restore" /\ cmd.at = "files" /\ cmd.id = b /\ cmd.todo = backups[b].listed \ {Bak!Dump}
    BY <2>1, <2>2 DEF Restoring, Bak!FilesFirst, Directory
  <2>4. proc'[p] = cmd
    BY <1>0, <2>1
  <2> HIDE DEF b, cmd
  <2>5. CommandInOrder(p)'
    BY <2>1, <2>2, <2>3, <2>4 DEF CommandInOrder, Finished
  <2> QED BY <1>0, <1>1, <1>2, <2>1, <2>2, <2>3, <2>5 DEF Command
<1>5. ASSUME NEW f \in Files, Bak!RestoreFile(p, f) PROVE BackupInv'
  <2> DEFINE b == proc[p].id
             cmd == [proc[p] EXCEPT !.at = "files", !.todo = proc[p].todo \ {f}]
  <2>1. proc[p].does = "restore" /\ proc[p].at = "files" /\ proc' = [proc EXCEPT ![p] = cmd] /\ UNCHANGED <<db, worker, backups>>
        /\ disk' = disk \cup {f}
    BY <1>0, <1>5 DEF Bak!RestoreFile, Bak!Step
  <2>2. /\ proc[p] \in Restoring /\ b \in BackupIds /\ backups[b] \in Directory /\ Finished(b) /\ Bak!Locked(p)
        /\ backups[b].listed \ {Bak!Dump} \subseteq disk \cup proc[p].todo
    BY <1>0, <1>3, <2>1 DEF Bak!Locked, CommandInOrder
  <2>3. cmd \in Restoring /\ cmd.does = "restore" /\ cmd.at = "files" /\ cmd.id = b /\ cmd.todo = proc[p].todo \ {f}
    BY <2>1, <2>2 DEF Restoring
  <2>4. proc'[p] = cmd
    BY <1>0, <2>1
  <2> HIDE DEF b, cmd
  <2>5. CommandInOrder(p)'
    BY <2>1, <2>2, <2>3, <2>4 DEF CommandInOrder, Finished
  <2>6. disk' \subseteq Files /\ Bak!Wanted(db') \subseteq disk' /\ db' \in Image /\ db'.money # "reserved"
    BY <1>0, <1>1, <2>1, <2>2
  <2> QED BY <1>2, <2>1, <2>2, <2>3, <2>5, <2>6 DEF Command
<1>6. CASE Bak!SwitchDatabase(p)
  <2> DEFINE b == proc[p].id
             cmd == [proc[p] EXCEPT !.at = "migrate"]
  <2>1. /\ proc[p].does = "restore" /\ proc[p].at = "files" /\ proc' = [proc EXCEPT ![p] = cmd] /\ UNCHANGED <<disk, worker, backups>>
        /\ db' = backups[b].dump /\ proc[p].todo = {} /\ Bak!Dump \in backups[b].files
    BY <1>0, <1>6 DEF Bak!SwitchDatabase
  <2>2. /\ proc[p] \in Restoring /\ b \in BackupIds /\ backups[b] \in Directory /\ Finished(b) /\ Bak!Locked(p)
        /\ backups[b].listed \ {Bak!Dump} \subseteq disk
    BY <1>0, <1>3, <2>1 DEF Bak!Locked, CommandInOrder
  <2>3. backups[b].manifest
    BY <1>0, <2>1, <2>2 DEF Finished, DirectoriesInOrder
  <2>4. backups[b].dump \in Image /\ backups[b].dump.rows \subseteq backups[b].listed /\ backups[b].dump.money # "reserved"
    BY <1>0, <2>2, <2>3 DEF ManifestsComplete, Directory
  <2>5. db' \in Image /\ db'.money # "reserved" /\ Bak!Wanted(db') \subseteq disk'
    <3>1. backups[b].dump.rows \subseteq Files
      BY <2>4 DEF Image
    <3> QED BY <2>1, <2>2, <2>4, <3>1, BackupConstants DEF Bak!Wanted
  <2>6. cmd \in Restoring /\ cmd.does = "restore" /\ cmd.at = "migrate" /\ cmd.id = b
    BY <2>1, <2>2 DEF Restoring
  <2>7. proc'[p] = cmd
    BY <1>0, <2>1
  <2> HIDE DEF b, cmd
  <2>8. CommandInOrder(p)'
    BY <2>1, <2>2, <2>6, <2>7 DEF CommandInOrder, Finished
  <2>9. disk' \subseteq Files
    BY <1>0, <2>1
  <2> QED BY <1>2, <2>1, <2>2, <2>5, <2>6, <2>8, <2>9 DEF Command
<1>7. CASE Bak!Reassert(p)
  <2> DEFINE b == proc[p].id
             cmd == [proc[p] EXCEPT !.at = "end"]
  <2>1. /\ proc[p].does = "restore" /\ proc[p].at = "migrate" /\ proc' = [proc EXCEPT ![p] = cmd] /\ UNCHANGED <<disk, worker, backups>>
        /\ db' = Bak!Maintained(db, TRUE)
    BY <1>0, <1>7 DEF Bak!Reassert
  <2>2. proc[p] \in Restoring /\ b \in BackupIds /\ backups[b] \in Directory /\ Finished(b) /\ Bak!Locked(p)
    BY <1>3, <2>1 DEF Bak!Locked
  <2>3. db' \in Image /\ db'.rows = db.rows /\ db'.gone = db.gone /\ db'.money # "reserved"
    BY <1>0, <2>1 DEF Bak!Maintained, Bak!Uncertain, Image
  <2>4. cmd \in Restoring /\ cmd.does = "restore" /\ cmd.at = "end" /\ cmd.id = b
    BY <2>1, <2>2 DEF Restoring
  <2>5. proc'[p] = cmd
    BY <1>0, <2>1
  <2> HIDE DEF b, cmd
  <2>6. CommandInOrder(p)'
    BY <2>1, <2>2, <2>4, <2>5 DEF CommandInOrder, Finished
  <2>7. Bak!Wanted(db') \subseteq disk' /\ disk' \subseteq Files
    BY <1>0, <2>1, <2>3 DEF Bak!Wanted
  <2> QED BY <1>2, <2>1, <2>2, <2>3, <2>4, <2>6, <2>7 DEF Command
<1> QED BY <1>4, <1>5, <1>6, <1>7

\* The steps of retention on the backup volume.
LEMMA RetentionSteps ==
  ASSUME BackupInv, NEW p \in Procs,
         Bak!PlanRetention(p) \/ Bak!RemoveManifest(p) \/ \E f \in Files \cup {Bak!Dump} : Bak!RemoveFile(p, f)
  PROVE  BackupInv'
<1>0. /\ BackupTypes /\ LockExcludes /\ WorkerInOrder /\ DirectoriesInOrder /\ ManifestsComplete
      /\ db \in Image /\ disk \subseteq Files /\ proc \in [Procs -> Command] /\ backups \in [BackupIds -> Directory]
      /\ Bak!Wanted(db) \subseteq disk
  BY DEF BackupInv, BackupTypes, WorkerInOrder
<1>1. ASSUME NEW cmd \in Command, cmd.does = "retention", Bak!Locked(p), proc' = [proc EXCEPT ![p] = cmd], UNCHANGED <<db, disk, worker>>,
             backups' \in [BackupIds -> Directory], ManifestsComplete', DirectoriesInOrder',
             \A b \in BackupIds : Finished(b) => Finished(b)'
      PROVE  BackupInv'
  <2>1. db' \in Image /\ db'.money # "reserved" /\ disk' \subseteq Files /\ Bak!Wanted(db') \subseteq disk' /\ UNCHANGED worker
    BY <1>0, <1>1 DEF LockExcludes, Bak!Exclusive
  <2>2. proc'[p] = cmd
    BY <1>0, <1>1
  <2>3. CommandInOrder(p)'
    BY <1>1, <2>2 DEF CommandInOrder
  <2> QED BY <1>1, <2>1, <2>3, CommandSteps
<1>2. CASE Bak!PlanRetention(p)
  <2>1. PICK b \in BackupIds :
          /\ proc[p].does = "retention" /\ proc[p].at = "start" /\ UNCHANGED <<db, disk, worker, backups>>
          /\ \E plan \in SUBSET backups[b].files : \E last \in BOOLEAN :
               proc' = [proc EXCEPT ![p] = [does |-> "retention", at |-> "remove", id |-> b, todo |-> plan, last |-> last]]
    BY <1>2 DEF Bak!PlanRetention
  <2>0. PICK plan \in SUBSET backups[b].files, last \in BOOLEAN :
          proc' = [proc EXCEPT ![p] = [does |-> "retention", at |-> "remove", id |-> b, todo |-> plan, last |-> last]]
    BY <2>1
  <2> DEFINE cmd == [does |-> "retention", at |-> "remove", id |-> b, todo |-> plan, last |-> last]
  <2>2. UNCHANGED <<db, disk, worker, backups>> /\ Bak!Locked(p) /\ proc' = [proc EXCEPT ![p] = cmd]
    BY <2>1, <2>0 DEF Bak!Locked
  <2>3. plan \subseteq StoredFile
    BY <1>0 DEF Directory
  <2>4. cmd \in Command /\ cmd.does = "retention"
    BY <2>3 DEF Command, Retaining
  <2> HIDE DEF cmd
  <2>5. backups' \in [BackupIds -> Directory] /\ ManifestsComplete' /\ DirectoriesInOrder' /\ \A c \in BackupIds : Finished(c) => Finished(c)'
    BY <1>0, <2>2 DEF ManifestsComplete, DirectoriesInOrder, Finished
  <2> QED BY <1>1, <2>2, <2>4, <2>5
<1>3. ASSUME proc[p].does = "retention", proc[p].at = "remove"
      PROVE  proc[p] \in Retaining /\ proc[p].id \in BackupIds /\ backups[proc[p].id] \in Directory /\ Bak!Locked(p)
  <2>1. proc[p] \in Retaining
    BY <1>0, <1>3 DEF Command, Bak!NoCommand, Started, Backing, Restoring
  <2> QED BY <1>0, <1>3, <2>1 DEF Retaining, Bak!Locked
<1>4. ASSUME NEW f \in Files \cup {Bak!Dump}, Bak!RemoveFile(p, f) PROVE BackupInv'
  <2> DEFINE b == proc[p].id
             d == [backups[b] EXCEPT !.files = @ \ {f}]
             cmd == [proc[p] EXCEPT !.at = "remove", !.todo = proc[p].todo \ {f}]
  <2>1. /\ proc[p].does = "retention" /\ proc[p].at = "remove" /\ proc' = [proc EXCEPT ![p] = cmd] /\ UNCHANGED <<db, disk, worker>>
        /\ backups' = [backups EXCEPT ![b] = d]
    BY <1>0, <1>3, <1>4 DEF Bak!RemoveFile, Bak!Step
  <2>2. proc[p] \in Retaining /\ b \in BackupIds /\ backups[b] \in Directory /\ Bak!Locked(p)
    BY <1>3, <2>1
  <2>3. /\ d \in Directory /\ d.dir = backups[b].dir /\ d.manifest = backups[b].manifest /\ d.listed = backups[b].listed
        /\ d.dump = backups[b].dump /\ d.files \subseteq backups[b].files
    BY <2>2 DEF Directory
  <2>4. cmd \in Retaining /\ cmd.does = "retention"
    BY <2>1, <2>2 DEF Retaining
  <2> HIDE DEF b, d, cmd
  <2>5. backups' \in [BackupIds -> Directory] /\ \A c \in BackupIds : backups'[c] = IF c = b THEN d ELSE backups[c]
    BY <1>0, <2>1, <2>3
  <2>6. ManifestsComplete' /\ DirectoriesInOrder' /\ \A c \in BackupIds : Finished(c) => Finished(c)'
    BY <1>0, <2>2, <2>3, <2>5 DEF ManifestsComplete, DirectoriesInOrder, Finished
  <2> QED BY <1>1, <2>1, <2>2, <2>4, <2>5, <2>6 DEF Command
<1>5. CASE Bak!RemoveManifest(p)
  <2> DEFINE b == proc[p].id
             d == [Bak!NoBackup EXCEPT !.dir = "removed"]
             cmd == [proc[p] EXCEPT !.at = "end", !.todo = {}]
  <2>1. /\ proc[p].does = "retention" /\ proc[p].at = "remove" /\ proc' = [proc EXCEPT ![p] = cmd] /\ UNCHANGED <<db, disk, worker>>
        /\ backups' = [backups EXCEPT ![b] = d]
    BY <1>0, <1>3, <1>5 DEF Bak!RemoveManifest, Bak!Step
  <2>2. proc[p] \in Retaining /\ b \in BackupIds /\ backups[b] \in Directory /\ Bak!Locked(p)
    BY <1>3, <2>1
  <2>3. d \in Directory /\ d.dir = "removed" /\ ~d.manifest /\ d.files = {}
    BY DEF Bak!NoBackup, Bak!NoDump, Directory, Image
  <2>4. cmd \in Retaining /\ cmd.does = "retention"
    BY <2>1, <2>2 DEF Retaining
  <2> HIDE DEF b, d, cmd
  <2>5. backups' \in [BackupIds -> Directory] /\ \A c \in BackupIds : backups'[c] = IF c = b THEN d ELSE backups[c]
    BY <1>0, <2>1, <2>3
  <2>6. ManifestsComplete' /\ DirectoriesInOrder' /\ \A c \in BackupIds : Finished(c) => Finished(c)'
    BY <1>0, <2>2, <2>3, <2>5 DEF ManifestsComplete, DirectoriesInOrder, Finished
  <2> QED BY <1>1, <2>1, <2>2, <2>4, <2>5, <2>6 DEF Command
<1> QED BY <1>2, <1>4, <1>5

LEMMA BackupStep == LifecycleAssumption /\ BackupInv /\ (Bak!Next \/ UNCHANGED backupVars) => BackupInv'
<1> SUFFICES ASSUME LifecycleAssumption, BackupInv, Bak!Next \/ UNCHANGED backupVars PROVE BackupInv'
  OBVIOUS
<1>1. CASE UNCHANGED backupVars
  <2>1. UNCHANGED <<db, disk, worker, backups, proc>>
    BY <1>1 DEF backupVars
  <2>2. BackupTypes' /\ LockExcludes' /\ WorkerInOrder' /\ DirectoriesInOrder' /\ ManifestsComplete'
    BY <2>1 DEF BackupInv, BackupTypes, LockExcludes, WorkerInOrder, DirectoriesInOrder, ManifestsComplete,
                Bak!Locked, Bak!Exclusive, Bak!Wanted
  <2>3. \A p \in Procs : CommandInOrder(p)'
    BY <2>1 DEF BackupInv, CommandInOrder, Finished
  <2> QED BY <2>2, <2>3 DEF BackupInv
<1>2. CASE Bak!Next
  BY <1>2, WorkerSteps, CommandBegins, BackupSteps, RestoreSteps, RetentionSteps DEF Bak!Next
<1> QED BY <1>1, <1>2

(* Nothing a user has is lost (maintenance/__main__.py, retention.py): a   *)
(* row of a document that is not deleted names a file that is there, and a *)
(* backup that verify-backup accepts is complete, for any documents,       *)
(* files, backups and processes, whichever of them are killed.             *)
THEOREM BackupsLoseNothing == Spec => []NothingRegisteredIsLost
<1>1. Init => BackupInv
  BY BackupInit DEF Init
<1>2. BackupInv /\ [Next]_vars => BackupInv'
  <2> SUFFICES ASSUME BackupInv, [Next]_vars PROVE BackupInv'
    OBVIOUS
  <2>1. Bak!Next \/ UNCHANGED backupVars
    BY DEF Next, vars
  <2> QED BY <2>1, BackupStep, LifecycleAssumption
<1>3. BackupInv => NothingRegisteredIsLost
  BY BackupInvIsEnough DEF NothingRegisteredIsLost
<1> QED BY <1>1, <1>2, <1>3, PTL DEF Spec

--------------------------------------------------------------------------------
(* Calls of the providers.                                                 *)

Bill == [permit : {"reserved", "released", "unknown", "settled"}, did : Prv!Did, checkpoint : BOOLEAN]
UnitTask == [status : {"pending", "leased", "succeeded", "failed", "outcome_unknown"}, attempts : Nat, repaired : BOOLEAN]
Answer == [body : Prv!Bodies, usage : Prv!Usages, model : Prv!Models]

CallTypes ==
  /\ protocol \in Protocols /\ controlled \in BOOLEAN /\ task \in UnitTask
  /\ at \in {"idle", "sent", "received", "settled"}
  /\ reply \in {Prv!NoReply} \cup Answer
  /\ bills \in Seq(Bill)

Booked(b) == b.permit \in {"released", "settled"}
BillIsTrue(b) ==
  /\ b.permit = "released" => b.did = "nothing"
  /\ b.permit = "settled" => b.did \in Prv!Accepted /\ (controlled => b.did \in {"clean", "other_clean"})
  /\ b.checkpoint => b.permit = "settled"

\* What the bill of a request says at each point of the call.
BillFollows ==
  /\ at = "sent" => bills[Prv!Last].permit \in {"reserved", "unknown"} /\ bills[Prv!Last].did = "unsent"
  /\ at \in {"received", "settled"} => reply \in Answer /\ bills[Prv!Last].did = Prv!Truth(reply)
  /\ at = "received" => bills[Prv!Last].permit \in {"reserved", "unknown"}
  /\ at = "settled" => bills[Prv!Last].permit = "settled"

\* A unit may be asked for again when its last request is booked.
UnitIsBooked == task.status \in {"pending", "succeeded"} => Prv!Last = 0 \/ Booked(bills[Prv!Last])

AttemptsLeft ==
  /\ task.attempts <= RetryLimit + 1
  /\ task.status # "succeeded" => task.attempts <= RetryLimit
  /\ task.status = "pending" => task.attempts < RetryLimit \/ Prv!Checkpointed

CallInv ==
  /\ CallTypes /\ BillFollows /\ UnitIsBooked /\ AttemptsLeft
  /\ task.status = "leased" \/ at # "idle" => Prv!Last # 0
  /\ task.status = "succeeded" => at = "idle"
  /\ \A n \in 1 .. Prv!Last : BillIsTrue(bills[n]) /\ (n < Prv!Last => Booked(bills[n]))

LEMMA CallConstants == LifecycleAssumption => RetryLimit \in Nat \ {0}
  BY DEF LifecycleAssumption, Prv!ProviderCallAssumption

LEMMA CallInit == LifecycleAssumption /\ Prv!Init => CallInv
<1> SUFFICES ASSUME LifecycleAssumption, Prv!Init PROVE CallInv
  OBVIOUS
<1>1. protocol \in Protocols /\ controlled \in BOOLEAN
  BY DEF Prv!Init
<1>2. task \in UnitTask /\ at = "idle" /\ reply = Prv!NoReply /\ bills \in Seq(Bill) /\ Prv!Last = 0
      /\ task.status = "pending" /\ task.attempts = 0
  BY DEF Prv!Init, UnitTask, Prv!Last
<1> QED BY <1>1, <1>2, CallConstants DEF CallInv, CallTypes, BillFollows, UnitIsBooked, AttemptsLeft

LEMMA CallInvIsEnough == LifecycleAssumption /\ CallInv => Prv!TypeOK /\ Prv!PermitTellsTheTruth
<1> SUFFICES ASSUME LifecycleAssumption, CallInv PROVE Prv!TypeOK /\ Prv!PermitTellsTheTruth
  OBVIOUS
<1>0. CallTypes /\ AttemptsLeft /\ UnitIsBooked
  BY DEF CallInv
<1>1. \A n \in 1 .. Prv!Last : bills[n] \in Bill
  BY <1>0 DEF CallTypes, Prv!Last
<1>2. task.attempts \in 0 .. RetryLimit + 1
  BY <1>0, CallConstants DEF CallTypes, UnitTask, AttemptsLeft
<1>3. Prv!TypeOK
  <2>1. task.status \in {"pending", "leased", "succeeded", "failed", "outcome_unknown"} /\ task.repaired \in BOOLEAN
    BY <1>0 DEF CallTypes, UnitTask
  <2> QED BY <1>0, <1>1, <1>2, <2>1 DEF Prv!TypeOK, CallTypes, Bill, Answer
<1>4. ASSUME NEW n \in 1 .. Prv!Last, n < Prv!Last \/ task.status = "succeeded" PROVE Booked(bills[n])
  <2>1. CASE n < Prv!Last
    BY <2>1 DEF CallInv
  <2>2. CASE n = Prv!Last
    BY <1>0, <1>4, <2>2 DEF UnitIsBooked
  <2> QED BY <1>0, <2>1, <2>2 DEF CallTypes, Prv!Last
<1>5. Prv!PermitTellsTheTruth
  <2>1. ASSUME NEW n \in 1 .. Prv!Last PROVE BillIsTrue(bills[n])
    BY DEF CallInv
  <2> QED BY <1>4, <2>1 DEF Prv!PermitTellsTheTruth, BillIsTrue, Booked
<1> QED BY <1>3, <1>5

\* What a step does to the last bill only.
LEMMA LastBillChanges ==
  ASSUME CallInv, Prv!Last # 0, NEW b \in Bill, BillIsTrue(b), bills' = [bills EXCEPT ![Prv!Last] = b],
         UNCHANGED <<protocol, controlled>>
  PROVE  /\ bills' \in Seq(Bill) /\ Prv!Last' = Prv!Last /\ bills'[Prv!Last'] = b
         /\ \A n \in 1 .. Prv!Last' : BillIsTrue(bills[n])' /\ (n < Prv!Last' => Booked(bills[n])')
<1>1. bills \in Seq(Bill) /\ Prv!Last = Len(bills) /\ Prv!Last' = Len(bills')
  BY DEF CallInv, CallTypes, Prv!Last
<1>2. Prv!Last \in 1 .. Len(bills)
  BY <1>1
<1>3. bills' \in Seq(Bill) /\ Len(bills') = Len(bills) /\ \A n \in 1 .. Len(bills) : bills'[n] = IF n = Prv!Last THEN b ELSE bills[n]
  BY <1>1, <1>2
<1>4. ASSUME NEW n \in 1 .. Prv!Last PROVE BillIsTrue(bills[n])' /\ (n < Prv!Last => Booked(bills[n])')
  <2>1. BillIsTrue(bills[n]) /\ (n < Prv!Last => Booked(bills[n]))
    BY DEF CallInv
  <2>2. CASE n = Prv!Last
    <3>1. bills'[n] = b
      BY <1>1, <1>2, <1>3, <2>2
    <3> QED BY <1>1, <2>2, <3>1 DEF BillIsTrue, Prv!Accepted, Prv!Compares
  <2>3. CASE n # Prv!Last
    <3>1. bills'[n] = bills[n]
      BY <1>1, <1>3, <2>3
    <3> QED BY <2>1, <3>1 DEF BillIsTrue, Booked, Prv!Accepted, Prv!Compares
  <2> QED BY <2>2, <2>3
<1> QED BY <1>1, <1>2, <1>3, <1>4

LEMMA BillsStay ==
  ASSUME CallInv, UNCHANGED <<protocol, controlled, bills>>
  PROVE  \A n \in 1 .. Prv!Last' : BillIsTrue(bills[n])' /\ (n < Prv!Last' => Booked(bills[n])')
<1>1. UNCHANGED <<Prv!Last, Prv!Accepted>>
  BY DEF Prv!Last, Prv!Accepted, Prv!Compares
<1>2. ASSUME NEW n \in 1 .. Prv!Last PROVE BillIsTrue(bills[n]) /\ (n < Prv!Last => Booked(bills[n]))
  BY DEF CallInv
<1> QED BY <1>1, <1>2 DEF BillIsTrue, Booked

\* A status that an adapter takes as a refusal is one of a request that never ran.
LEMMA RejectedNeverRuns ==
  ASSUME NEW status \in Prv!Rejected
  PROVE  Prv!NeverRuns(status)
<1>1. CASE protocol = "local_translation"
  BY <1>1 DEF Prv!Rejected, Prv!NeverRuns
<1>2. CASE protocol # "local_translation" /\ protocol \in Prv!Native
  BY <1>2 DEF Prv!Rejected, Prv!NeverRuns
<1>3. CASE protocol # "local_translation" /\ protocol \notin Prv!Native
  BY <1>3 DEF Prv!Rejected, Prv!NeverRuns
<1> QED BY <1>1, <1>2, <1>3

\* A checkpoint is where it was when only the last bill changes, and not its checkpoint.
LEMMA CheckpointsStay ==
  ASSUME CallInv, Prv!Last # 0, NEW b \in Bill, b.checkpoint = bills[Prv!Last].checkpoint, bills' = [bills EXCEPT ![Prv!Last] = b]
  PROVE  Prv!Checkpointed' <=> Prv!Checkpointed
<1>1. bills \in Seq(Bill) /\ Prv!Last = Len(bills) /\ Prv!Last' = Len(bills')
  BY DEF CallInv, CallTypes, Prv!Last
<1>2. Prv!Last \in 1 .. Len(bills)
  BY <1>1
<1>3. Len(bills') = Len(bills) /\ \A n \in 1 .. Len(bills) : bills'[n] = IF n = Prv!Last THEN b ELSE bills[n]
  BY <1>1, <1>2
<1>4. \A n \in 1 .. Len(bills) : bills'[n].checkpoint = bills[n].checkpoint
  BY <1>3
<1> QED BY <1>1, <1>3, <1>4 DEF Prv!Checkpointed

\* retry_or_stop, with what each place that calls it knows: a request that
\* was not sent or not executed is open and reached nobody, an invalid
\* answer is settled.
LEMMA RetryStep ==
  ASSUME LifecycleAssumption, CallInv, at # "idle", NEW said, NEW code, NEW did \in Prv!Did, Prv!RetryOrStop(said, code, did),
         said \in {"not_sent", "not_executed"} => at = "sent" /\ did = "nothing",
         said = "executed_invalid" => at = "settled",
         at = "settled" => said = "executed_invalid" /\ did = bills[Prv!Last].did,
         said \in {"not_sent", "not_executed", "unknown", "executed_invalid"}
  PROVE  CallInv'
<1>0. /\ CallTypes /\ BillFollows /\ UnitIsBooked /\ AttemptsLeft /\ Prv!Last # 0 /\ task \in UnitTask
      /\ task.status # "succeeded" /\ bills \in Seq(Bill) /\ bills[Prv!Last] \in Bill /\ BillIsTrue(bills[Prv!Last])
  <2>1. Prv!Last # 0 /\ bills \in Seq(Bill) /\ CallTypes
    BY DEF CallInv, CallTypes
  <2>2. Prv!Last \in 1 .. Prv!Last /\ Prv!Last \in 1 .. Len(bills)
    BY <2>1 DEF Prv!Last
  <2> QED BY <2>1, <2>2 DEF CallInv, CallTypes
<1> DEFINE outcome == Prv!Classified(said)
           refused == outcome \in {"not_sent", "not_executed"} /\ bills[Prv!Last].permit # "reserved"
           permit == IF refused THEN bills[Prv!Last].permit ELSE Prv!Permit(outcome)
           b == [bills[Prv!Last] EXCEPT !.did = did, !.permit = permit]
<1>1. /\ at' = "idle" /\ reply' = Prv!NoReply /\ bills' = [bills EXCEPT ![Prv!Last] = b]
      /\ task' = (IF refused THEN task ELSE Prv!Fate(outcome, code)) /\ UNCHANGED <<protocol, controlled>>
  BY <1>0 DEF Prv!RetryOrStop
<1>2. /\ outcome = said
      /\ at = "sent" => bills[Prv!Last].permit \in {"reserved", "unknown"}
      /\ at = "received" => bills[Prv!Last].permit \in {"reserved", "unknown"} /\ said = "unknown"
      /\ at = "settled" => bills[Prv!Last].permit = "settled" /\ said = "executed_invalid"
      /\ at \in {"sent", "received", "settled"}
  BY <1>0 DEF BillFollows, CallTypes, Prv!Classified
<1>3. /\ permit \in {"reserved", "released", "unknown", "settled"}
      /\ permit = "released" => did = "nothing"
      /\ permit = "settled" => at = "settled"
      /\ at = "settled" => permit = "settled"
      /\ ~refused /\ said \in {"not_sent", "not_executed"} => permit = "released"
  BY <1>2 DEF Prv!Permit
<1>4. /\ b \in Bill /\ b.checkpoint = bills[Prv!Last].checkpoint /\ b.permit = permit /\ b.did = did
  <2>1. bills[Prv!Last] \in Bill /\ permit \in {"reserved", "released", "unknown", "settled"}
    BY <1>0, <1>3
  <2> HIDE DEF permit
  <2> QED BY <2>1 DEF Bill
<1>5. BillIsTrue(b)
  <2>1. bills[Prv!Last].checkpoint => at = "settled"
    BY <1>0, <1>2 DEF BillIsTrue
  <2>2. at = "settled" => b.permit = bills[Prv!Last].permit /\ b.did = bills[Prv!Last].did
    BY <1>2, <1>3, <1>4
  <2> HIDE DEF b
  <2> QED BY <1>0, <1>2, <1>3, <1>4, <2>1, <2>2 DEF BillIsTrue
<1>6. task' \in UnitTask /\ task'.attempts = task.attempts /\ task'.status # "succeeded" /\ task'.status \in {task.status, "pending", "failed", "outcome_unknown"}
      /\ (~refused /\ task'.status = "pending" => said # "unknown" /\ task.attempts < RetryLimit)
  <2>1. CASE refused
    BY <1>0, <1>1, <2>1
  <2>2. CASE ~refused
    <3>1. task' = Prv!Fate(said, code)
      BY <1>1, <1>2, <2>2
    <3>2. \/ task' = [task EXCEPT !.status = "outcome_unknown"]
          \/ task' = [task EXCEPT !.status = "failed"]
          \/ task' = [task EXCEPT !.status = "pending"] /\ Prv!Retries /\ said # "unknown"
          \/ task' = [task EXCEPT !.status = "pending", !.repaired = TRUE] /\ Prv!Retries /\ said # "unknown"
      BY <3>1 DEF Prv!Fate
    <3> QED BY <1>0, <2>2, <3>2 DEF UnitTask, Prv!Retries
  <2> QED BY <2>1, <2>2
<1> HIDE DEF b
<1>7. /\ bills' \in Seq(Bill) /\ Prv!Last' = Prv!Last /\ bills'[Prv!Last'] = b
      /\ \A n \in 1 .. Prv!Last' : BillIsTrue(bills[n])' /\ (n < Prv!Last' => Booked(bills[n])')
  BY <1>0, <1>1, <1>4, <1>5, LastBillChanges
<1>8. Prv!Checkpointed' <=> Prv!Checkpointed
  BY <1>0, <1>1, <1>4, CheckpointsStay
<1>9. UnitIsBooked'
  <2>1. ASSUME task'.status = "pending" PROVE Booked(b)
    <3>1. CASE refused
      \* A refused release leaves the task as it is, and a pending task has no open request.
      <4>1. task.status = "pending" /\ at = "sent"
        BY <1>1, <1>2, <2>1, <3>1
      <4> QED BY <1>0, <1>2, <4>1 DEF UnitIsBooked, Booked
    <3>2. CASE ~refused
      BY <1>2, <1>3, <1>4, <1>6, <2>1, <3>2 DEF Booked
    <3> QED BY <3>1, <3>2
  <2> QED BY <1>6, <1>7, <2>1 DEF UnitIsBooked, Booked
<1>10. AttemptsLeft'
  <2>1. ASSUME task'.status = "pending" PROVE task'.attempts < RetryLimit \/ Prv!Checkpointed'
    <3>1. CASE refused
      BY <1>0, <1>1, <1>8, <2>1, <3>1 DEF AttemptsLeft
    <3>2. CASE ~refused
      BY <1>6, <2>1, <3>2
    <3> QED BY <3>1, <3>2
  <2>2. task'.attempts <= RetryLimit + 1 /\ task'.attempts <= RetryLimit
    BY <1>0, <1>6 DEF AttemptsLeft
  <2> QED BY <2>1, <2>2 DEF AttemptsLeft
<1>11. CallTypes'
  BY <1>0, <1>1, <1>6, <1>7 DEF CallTypes
<1>12. BillFollows'
  BY <1>1 DEF BillFollows
<1> QED BY <1>0, <1>1, <1>6, <1>7, <1>9, <1>10, <1>11, <1>12 DEF CallInv

\* A request that is open ends: with an error, or with an answer that is
\* not taken, not usable or without usage.
LEMMA RequestEnds ==
  ASSUME LifecycleAssumption, CallInv,
         \/ Prv!NotConnected \/ Prv!PoolTimeout \/ Prv!Broken \/ Prv!ErrorStatus \/ Prv!Unreadable
         \/ Prv!Mismatch \/ Prv!UsageMissing \/ Prv!Useless
  PROVE  CallInv'
<1>0. {"nothing", "unseen", "unsent"} \subseteq Prv!Did /\ (Prv!Last # 0 => bills[Prv!Last].did \in Prv!Did)
  <2>1. Prv!Last # 0 => bills[Prv!Last] \in Bill
    BY DEF CallInv, CallTypes, Prv!Last
  <2> QED BY <2>1 DEF Bill, Prv!Did
<1>1. CASE Prv!NotConnected
  BY <1>0, <1>1, RetryStep DEF Prv!NotConnected
<1>2. CASE Prv!PoolTimeout
  <2>0. "nothing" \in Prv!Did
    BY <1>0
  <2>1. /\ at = "sent"
        /\ \/ Prv!RetryOrStop("unknown", "OUTCOME_UNKNOWN", "nothing")
           \/ Prv!RetryOrStop("not_sent", "PROVIDER_CONNECT", "nothing")
    BY <1>2 DEF Prv!PoolTimeout
  <2>2. CASE Prv!RetryOrStop("unknown", "OUTCOME_UNKNOWN", "nothing")
    BY <2>0, <2>1, <2>2, RetryStep
  <2>3. CASE Prv!RetryOrStop("not_sent", "PROVIDER_CONNECT", "nothing")
    BY <2>0, <2>1, <2>3, RetryStep
  <2> QED BY <2>1, <2>2, <2>3
<1>3. CASE Prv!Broken
  <2>1. PICK did \in {"nothing", "unseen"} : at = "sent" /\ Prv!RetryOrStop("unknown", "OUTCOME_UNKNOWN", did)
    BY <1>3 DEF Prv!Broken
  <2> QED BY <1>0, <2>1, RetryStep
<1>4. CASE Prv!ErrorStatus
  <2>1. PICK status \in Prv!Statuses : at = "sent" /\ Prv!HttpError(status)
    BY <1>4 DEF Prv!ErrorStatus
  <2>2. PICK did \in (IF Prv!NeverRuns(status) THEN {"nothing"} ELSE {"nothing", "unseen"}) :
          \/ status \notin Prv!Rejected /\ Prv!RetryOrStop("unknown", "OUTCOME_UNKNOWN", did)
          \/ status \in Prv!Rejected /\ Prv!RetryOrStop("not_sent", "LOCAL_MODEL_UNAVAILABLE", did)
          \/ status \in Prv!Rejected /\ \E code \in {"PROVIDER_RATE_LIMIT", "PROVIDER_CONFIG"} : Prv!RetryOrStop("not_executed", code, did)
    BY <2>1 DEF Prv!HttpError
  <2>3. did \in {"nothing", "unseen"} /\ (status \in Prv!Rejected => did = "nothing")
    BY <2>2, RejectedNeverRuns
  <2> QED BY <1>0, <2>1, <2>2, <2>3, RetryStep
<1>5. CASE Prv!Unreadable
  BY <1>0, <1>5, RetryStep DEF Prv!Unreadable
<1>6. CASE Prv!Mismatch
  <2>1. Prv!Last # 0
    BY <1>6 DEF Prv!Mismatch, CallInv
  <2> QED BY <1>0, <1>6, <2>1, RetryStep DEF Prv!Mismatch, Prv!Same
<1>7. CASE Prv!UsageMissing
  <2>1. Prv!Last # 0
    BY <1>7 DEF Prv!UsageMissing, CallInv
  <2> QED BY <1>0, <1>7, <2>1, RetryStep DEF Prv!UsageMissing, Prv!Same
<1>8. CASE Prv!Useless
  <2>1. Prv!Last # 0 /\ at = "settled"
    BY <1>8 DEF Prv!Useless, CallInv
  <2>2. \E code : Prv!RetryOrStop("executed_invalid", code, bills[Prv!Last].did)
    BY <1>8 DEF Prv!Useless, Prv!Same
  <2> QED BY <1>0, <2>1, <2>2, RetryStep
<1> QED BY <1>1, <1>2, <1>3, <1>4, <1>5, <1>6, <1>7, <1>8

\* A new request: the earlier ones are booked.
LEMMA AuthorizeStep == LifecycleAssumption /\ CallInv /\ Prv!Authorize => CallInv'
<1> SUFFICES ASSUME LifecycleAssumption, CallInv, Prv!Authorize PROVE CallInv'
  OBVIOUS
<1> DEFINE b == [permit |-> "reserved", did |-> "unsent", checkpoint |-> FALSE]
<1>0. /\ CallTypes /\ UnitIsBooked /\ AttemptsLeft /\ bills \in Seq(Bill) /\ task \in UnitTask /\ Prv!Last = Len(bills) /\ Prv!Last' = Len(bills')
  BY DEF CallInv, CallTypes, Prv!Last
<1>1. /\ task.status = "pending" /\ at = "idle" /\ ~Prv!Checkpointed /\ bills' = Append(bills, b) /\ at' = "sent"
      /\ task' = [task EXCEPT !.status = "leased", !.attempts = @ + 1] /\ UNCHANGED <<protocol, controlled, reply>>
  BY DEF Prv!Authorize
<1>2. b \in Bill /\ BillIsTrue(b) /\ b.permit = "reserved" /\ b.did = "unsent"
  BY DEF Bill, BillIsTrue, Prv!Did
<1> HIDE DEF b
<1>3. /\ bills' \in Seq(Bill) /\ Len(bills') = Len(bills) + 1 /\ bills'[Len(bills')] = b
      /\ \A n \in 1 .. Len(bills) : bills'[n] = bills[n]
  BY <1>0, <1>1, <1>2
<1>4. ASSUME NEW n \in 1 .. Prv!Last' PROVE BillIsTrue(bills[n])' /\ (n < Prv!Last' => Booked(bills[n])')
  <2>1. CASE n = Len(bills')
    BY <1>0, <1>1, <1>2, <1>3, <2>1 DEF BillIsTrue
  <2>2. CASE n # Len(bills')
    <3>1. n \in 1 .. Len(bills) /\ bills'[n] = bills[n]
      BY <1>0, <1>3, <2>2
    <3>2. BillIsTrue(bills[n]) /\ (n < Prv!Last => Booked(bills[n]))
      BY <1>0, <3>1 DEF CallInv
    <3>3. n = Prv!Last => Booked(bills[n])
      BY <1>0, <1>1, <3>1 DEF UnitIsBooked
    <3>4. Booked(bills[n])
      BY <1>0, <3>1, <3>2, <3>3
    <3> QED BY <1>1, <3>1, <3>2, <3>4 DEF BillIsTrue, Booked, Prv!Accepted, Prv!Compares
  <2> QED BY <2>1, <2>2
<1>5. task' \in UnitTask /\ task'.status = "leased" /\ task'.attempts = task.attempts + 1
  <2> DEFINE attempts == task.attempts + 1
  <2>1. attempts \in Nat /\ task' = [task EXCEPT !.status = "leased", !.attempts = attempts]
    BY <1>0, <1>1 DEF UnitTask
  <2> HIDE DEF attempts
  <2>2. task' \in UnitTask /\ task'.status = "leased" /\ task'.attempts = attempts
    BY <1>0, <2>1 DEF UnitTask
  <2> QED BY <2>2 DEF attempts
<1>6. AttemptsLeft'
  BY <1>0, <1>1, <1>5, CallConstants DEF AttemptsLeft, UnitTask
<1>7. CallTypes' /\ BillFollows' /\ UnitIsBooked' /\ Prv!Last' # 0
  <2>0. Answer' = Answer
    BY <1>1 DEF Answer, Prv!Bodies, Prv!Usages, Prv!Models
  <2>1. CallTypes'
    BY <1>0, <1>1, <1>3, <1>5, <2>0 DEF CallTypes
  <2>2. BillFollows'
    BY <1>0, <1>1, <1>2, <1>3 DEF BillFollows
  <2> QED BY <1>0, <1>3, <1>5, <2>1, <2>2 DEF UnitIsBooked
<1> QED BY <1>1, <1>4, <1>5, <1>6, <1>7 DEF CallInv

\* An answer that was read, settled and kept.
LEMMA AnswerSteps ==
  LifecycleAssumption /\ CallInv /\ (Prv!Answers \/ Prv!Settle \/ Prv!Checkpoint) => CallInv'
<1> SUFFICES ASSUME LifecycleAssumption, CallInv, Prv!Answers \/ Prv!Settle \/ Prv!Checkpoint PROVE CallInv'
  OBVIOUS
<1>0. /\ CallTypes /\ BillFollows /\ UnitIsBooked /\ AttemptsLeft /\ at # "idle" /\ Prv!Last # 0 /\ task.status # "succeeded"
      /\ bills \in Seq(Bill) /\ bills[Prv!Last] \in Bill /\ BillIsTrue(bills[Prv!Last]) /\ UNCHANGED <<protocol, controlled, task>>
  <2>1. at # "idle" /\ UNCHANGED <<protocol, controlled, task>>
    BY DEF Prv!Answers, Prv!Settle, Prv!Checkpoint
  <2>2. Prv!Last # 0 /\ bills \in Seq(Bill) /\ CallTypes
    BY <2>1 DEF CallInv, CallTypes
  <2>3. Prv!Last \in 1 .. Prv!Last /\ Prv!Last \in 1 .. Len(bills)
    BY <2>2 DEF Prv!Last
  <2> QED BY <2>1, <2>2, <2>3 DEF CallInv, CallTypes
<1>1. ASSUME NEW b \in Bill, BillIsTrue(b), bills' = [bills EXCEPT ![Prv!Last] = b],
             b.checkpoint = bills[Prv!Last].checkpoint \/ b.checkpoint,
             Booked(bills[Prv!Last]) => Booked(b),
             at' \in {"received", "settled"}, reply' \in Answer, b.did = Prv!Truth(reply'),
             at' = "received" => b.permit \in {"reserved", "unknown"}, at' = "settled" => b.permit = "settled"
      PROVE  CallInv'
  <2>1. /\ bills' \in Seq(Bill) /\ Prv!Last' = Prv!Last /\ bills'[Prv!Last'] = b
        /\ \A n \in 1 .. Prv!Last' : BillIsTrue(bills[n])' /\ (n < Prv!Last' => Booked(bills[n])')
    BY <1>0, <1>1, LastBillChanges
  <2>2. Prv!Checkpointed => Prv!Checkpointed'
    <3>1. CASE b.checkpoint
      BY <1>0, <2>1, <3>1 DEF Prv!Checkpointed, Prv!Last
    <3>2. CASE b.checkpoint = bills[Prv!Last].checkpoint
      BY <1>0, <1>1, <3>2, CheckpointsStay
    <3> QED BY <1>1, <3>1, <3>2
  <2>3. AttemptsLeft'
    BY <1>0, <2>2 DEF AttemptsLeft
  <2>4. UnitIsBooked'
    BY <1>0, <1>1, <2>1 DEF UnitIsBooked, Booked
  <2>5. Prv!Truth(reply') = Prv!Truth(reply)'
    BY <1>0 DEF Prv!Truth, Prv!Priced
  <2>6. Answer' = Answer
    BY <1>0 DEF Answer, Prv!Bodies, Prv!Usages, Prv!Models
  <2>7. BillFollows'
    BY <1>1, <2>1, <2>5, <2>6 DEF BillFollows
  <2>8. CallTypes'
    BY <1>0, <1>1, <2>1, <2>6 DEF CallTypes
  <2> QED BY <1>0, <2>1, <2>3, <2>4, <2>7, <2>8 DEF CallInv
<1>2. CASE Prv!Answers
  <2>1. /\ at = "sent" /\ at' = "received" /\ bills' = [bills EXCEPT ![Prv!Last].did = Prv!Truth(reply')]
        /\ reply' \in Answer
    BY <1>2 DEF Prv!Answers, Answer
  <2> DEFINE did == Prv!Truth(reply')
             b == [bills[Prv!Last] EXCEPT !.did = did]
  <2>2. did \in Prv!Did
    BY DEF Prv!Truth, Prv!Did
  <2> HIDE DEF did
  <2>3. b \in Bill /\ b.did = did /\ b.permit = bills[Prv!Last].permit /\ b.checkpoint = bills[Prv!Last].checkpoint
    BY <1>0, <2>2 DEF Bill
  <2>4. bills' = [bills EXCEPT ![Prv!Last] = b]
    BY <1>0, <2>1 DEF did
  <2> HIDE DEF b
  <2>5. b.permit \in {"reserved", "unknown"}
    BY <1>0, <2>1, <2>3 DEF BillFollows
  <2>6. BillIsTrue(b)
    BY <1>0, <2>3, <2>5 DEF BillIsTrue
  <2>7. b.did = Prv!Truth(reply')
    BY <2>3 DEF did
  <2> QED BY <1>1, <2>1, <2>3, <2>4, <2>5, <2>6, <2>7 DEF Booked
<1>3. CASE Prv!Settle
  <2> DEFINE b == [bills[Prv!Last] EXCEPT !.permit = "settled"]
  <2>1. /\ at = "received" /\ Prv!FailureCode(reply) # "PROVIDER_MODEL_MISMATCH" /\ Prv!Settles /\ at' = "settled" /\ UNCHANGED reply
        /\ bills' = [bills EXCEPT ![Prv!Last] = b]
    BY <1>0, <1>3 DEF Prv!Settle
  <2>2. reply \in Answer /\ bills[Prv!Last].did = Prv!Truth(reply)
    BY <1>0, <2>1 DEF BillFollows
  <2>3. b \in Bill /\ b.did = Prv!Truth(reply) /\ b.permit = "settled" /\ b.checkpoint = bills[Prv!Last].checkpoint
    BY <1>0, <2>2 DEF Bill
  <2>4. Prv!Truth(reply) \in Prv!Accepted
    <3>1. Prv!Compares /\ reply.model = "other" => Prv!FailureCode(reply) = "PROVIDER_MODEL_MISMATCH"
      BY DEF Prv!FailureCode
    <3>2. ~Prv!Compares \/ reply.model = "asked"
      BY <2>1, <2>2, <3>1 DEF Answer, Prv!Models
    <3> QED BY <3>2 DEF Prv!Truth, Prv!Accepted
  <2>5. controlled => Prv!Truth(reply) \in {"clean", "other_clean"}
    BY <2>1 DEF Prv!Truth, Prv!Settles
  <2> HIDE DEF b
  <2>6. BillIsTrue(b)
    BY <2>3, <2>4, <2>5 DEF BillIsTrue
  <2> QED BY <1>1, <2>1, <2>2, <2>3, <2>6 DEF Booked
<1>4. CASE Prv!Checkpoint
  <2> DEFINE b == [bills[Prv!Last] EXCEPT !.checkpoint = TRUE]
  <2>1. at = "settled" /\ UNCHANGED <<at, reply>> /\ bills' = [bills EXCEPT ![Prv!Last] = b]
    BY <1>0, <1>4 DEF Prv!Checkpoint
  <2>2. reply \in Answer /\ bills[Prv!Last].did = Prv!Truth(reply) /\ bills[Prv!Last].permit = "settled"
    BY <1>0, <2>1 DEF BillFollows
  <2>3. b \in Bill /\ b.did = Prv!Truth(reply) /\ b.permit = "settled" /\ b.checkpoint /\ b.did = bills[Prv!Last].did
    BY <1>0, <2>2 DEF Bill
  <2> HIDE DEF b
  <2>4. BillIsTrue(b)
    BY <1>0, <2>2, <2>3 DEF BillIsTrue
  <2> QED BY <1>1, <2>1, <2>2, <2>3, <2>4 DEF Booked
<1> QED BY <1>2, <1>3, <1>4

\* The unit ends, or its worker or its lease does.
LEMMA UnitSteps ==
  LifecycleAssumption /\ CallInv /\ (Prv!Commit \/ Prv!Replay \/ Prv!LeaseLost \/ Prv!WorkerDies) => CallInv'
<1> SUFFICES ASSUME LifecycleAssumption, CallInv, Prv!Commit \/ Prv!Replay \/ Prv!LeaseLost \/ Prv!WorkerDies PROVE CallInv'
  OBVIOUS
<1>0. /\ CallTypes /\ BillFollows /\ UnitIsBooked /\ AttemptsLeft /\ bills \in Seq(Bill) /\ task \in UnitTask
      /\ Prv!Last # 0 => bills[Prv!Last] \in Bill /\ BillIsTrue(bills[Prv!Last])
  BY DEF CallInv, CallTypes, Prv!Last
<1>1. CASE Prv!Commit
  <2>1. /\ at = "settled" /\ at' = "idle" /\ reply' = Prv!NoReply /\ UNCHANGED <<protocol, controlled, bills>>
        /\ task' = IF task.status = "leased" THEN [task EXCEPT !.status = "succeeded"] ELSE task
    BY <1>1 DEF Prv!Commit
  <2>2. task' \in UnitTask /\ task'.attempts = task.attempts /\ task.status # "succeeded" /\ task'.status \in {task.status, "succeeded"}
    BY <1>0, <2>1 DEF UnitTask, CallInv
  <2>3. UNCHANGED <<Prv!Last, Prv!Checkpointed>>
    BY <2>1 DEF Prv!Last, Prv!Checkpointed
  <2>4. Prv!Last # 0 /\ Booked(bills[Prv!Last])
    BY <1>0, <2>1 DEF CallInv, BillFollows, Booked
  <2>5. CallTypes' /\ BillFollows' /\ UnitIsBooked'
    BY <1>0, <2>1, <2>2, <2>3, <2>4 DEF CallTypes, BillFollows, UnitIsBooked, Booked
  <2>6. AttemptsLeft'
    BY <1>0, <2>2, <2>3, CallConstants DEF AttemptsLeft, UnitTask
  <2>7. \A n \in 1 .. Prv!Last' : BillIsTrue(bills[n])' /\ (n < Prv!Last' => Booked(bills[n])')
    BY <2>1, BillsStay
  <2> QED BY <2>1, <2>3, <2>4, <2>5, <2>6, <2>7 DEF CallInv
<1>2. CASE Prv!Replay
  <2>1. /\ task.status = "pending" /\ at = "idle" /\ UNCHANGED <<protocol, controlled, at, reply, bills>>
        /\ task' = [task EXCEPT !.status = "succeeded", !.attempts = @ + 1]
    BY <1>2 DEF Prv!Replay
  <2>2. task' \in UnitTask /\ task'.attempts = task.attempts + 1 /\ task'.status = "succeeded"
    <3> DEFINE attempts == task.attempts + 1
    <3>1. attempts \in Nat /\ task' = [task EXCEPT !.status = "succeeded", !.attempts = attempts]
      BY <1>0, <2>1 DEF UnitTask
    <3> HIDE DEF attempts
    <3>2. task' \in UnitTask /\ task'.status = "succeeded" /\ task'.attempts = attempts
      BY <1>0, <3>1 DEF UnitTask
    <3> QED BY <3>2 DEF attempts
  <2>3. UNCHANGED <<Prv!Last, Prv!Checkpointed>>
    BY <2>1 DEF Prv!Last, Prv!Checkpointed
  <2>4. CallTypes' /\ BillFollows' /\ UnitIsBooked'
    <3>1. Answer' = Answer
      BY <2>1 DEF Answer, Prv!Bodies, Prv!Usages, Prv!Models
    <3>2. CallTypes' /\ BillFollows'
      BY <1>0, <2>1, <2>2, <3>1 DEF CallTypes, BillFollows
    <3> QED BY <1>0, <2>1, <2>2, <2>3, <3>2 DEF UnitIsBooked, Booked
  <2>5. AttemptsLeft'
    BY <1>0, <2>1, <2>2, <2>3, CallConstants DEF AttemptsLeft, UnitTask
  <2>6. \A n \in 1 .. Prv!Last' : BillIsTrue(bills[n])' /\ (n < Prv!Last' => Booked(bills[n])')
    BY <2>1, BillsStay
  <2> QED BY <2>1, <2>2, <2>3, <2>4, <2>5, <2>6 DEF CallInv
<1>3. CASE Prv!LeaseLost
  <2>0. task.status = "leased" /\ UNCHANGED <<protocol, controlled, at, reply>> /\ Prv!Last # 0
    BY <1>3 DEF Prv!LeaseLost, CallInv
  <2>1. CASE bills[Prv!Last].permit \in {"reserved", "unknown"}
    <3> DEFINE b == [bills[Prv!Last] EXCEPT !.permit = "unknown"]
    <3>1. bills' = [bills EXCEPT ![Prv!Last] = b] /\ task' = [task EXCEPT !.status = "outcome_unknown"]
      BY <1>0, <1>3, <2>0, <2>1 DEF Prv!LeaseLost
    <3>2. b \in Bill /\ b.permit = "unknown" /\ b.did = bills[Prv!Last].did /\ b.checkpoint = bills[Prv!Last].checkpoint
      BY <1>0, <2>0 DEF Bill
    <3> HIDE DEF b
    <3>3. BillIsTrue(b)
      BY <1>0, <2>0, <2>1, <3>2 DEF BillIsTrue
    <3>4. /\ bills' \in Seq(Bill) /\ Prv!Last' = Prv!Last /\ bills'[Prv!Last'] = b
          /\ \A n \in 1 .. Prv!Last' : BillIsTrue(bills[n])' /\ (n < Prv!Last' => Booked(bills[n])')
      BY <2>0, <3>1, <3>2, <3>3, LastBillChanges
    <3>5. task' \in UnitTask /\ task'.status = "outcome_unknown" /\ task'.attempts = task.attempts
      BY <1>0, <3>1 DEF UnitTask
    <3>6. CallTypes' /\ UnitIsBooked' /\ AttemptsLeft'
      <4>1. Answer' = Answer
        BY <2>0 DEF Answer, Prv!Bodies, Prv!Usages, Prv!Models
      <4>2. CallTypes'
        BY <1>0, <2>0, <3>4, <3>5, <4>1 DEF CallTypes
      <4> QED BY <1>0, <2>0, <3>5, <4>2 DEF UnitIsBooked, AttemptsLeft
    <3>7. BillFollows'
      <4>1. Answer' = Answer /\ UNCHANGED Prv!Truth(reply)
        BY <2>0 DEF Answer, Prv!Bodies, Prv!Usages, Prv!Models, Prv!Truth, Prv!Priced
      <4> QED BY <1>0, <2>0, <2>1, <3>2, <3>4, <4>1 DEF BillFollows
    <3> QED BY <2>0, <3>4, <3>5, <3>6, <3>7 DEF CallInv
  <2>2. CASE bills[Prv!Last].permit \notin {"reserved", "unknown"}
    <3> DEFINE status == IF Prv!Checkpointed \/ task.attempts < RetryLimit THEN "pending" ELSE "failed"
    <3>1. UNCHANGED bills /\ task' = [task EXCEPT !.status = status]
      BY <1>3, <2>2 DEF Prv!LeaseLost
    <3>2. status \in {"pending", "failed"} /\ (status = "pending" => Prv!Checkpointed \/ task.attempts < RetryLimit)
      OBVIOUS
    <3> HIDE DEF status
    <3>3. task' \in UnitTask /\ task'.status = status /\ task'.attempts = task.attempts
      BY <1>0, <3>1, <3>2 DEF UnitTask
    <3>4. UNCHANGED <<Prv!Last, Prv!Checkpointed, Answer, Prv!Truth(reply)>>
      BY <2>0, <3>1 DEF Prv!Last, Prv!Checkpointed, Answer, Prv!Bodies, Prv!Usages, Prv!Models, Prv!Truth, Prv!Priced
    <3>5. Booked(bills[Prv!Last])
      BY <1>0, <2>0, <2>2 DEF Bill, Booked
    <3>6. CallTypes' /\ BillFollows' /\ UnitIsBooked' /\ AttemptsLeft'
      <4>1. CallTypes' /\ BillFollows'
        BY <1>0, <2>0, <3>1, <3>3, <3>4 DEF CallTypes, BillFollows
      <4>2. UnitIsBooked' /\ AttemptsLeft'
        BY <1>0, <2>0, <3>1, <3>2, <3>3, <3>4, <3>5 DEF UnitIsBooked, AttemptsLeft, Booked
      <4> QED BY <4>1, <4>2
    <3>7. \A n \in 1 .. Prv!Last' : BillIsTrue(bills[n])' /\ (n < Prv!Last' => Booked(bills[n])')
      BY <2>0, <3>1, BillsStay
    <3> QED BY <2>0, <3>2, <3>3, <3>4, <3>6, <3>7 DEF CallInv
  <2> QED BY <2>1, <2>2
<1>4. CASE Prv!WorkerDies
  <2>0. /\ at # "idle" /\ at' = "idle" /\ reply' = Prv!NoReply /\ UNCHANGED <<protocol, controlled, task>> /\ Prv!Last # 0
        /\ task.status # "succeeded"
    BY <1>4 DEF Prv!WorkerDies, CallInv
  <2>1. CASE bills[Prv!Last].did = "unsent"
    <3> DEFINE b == [bills[Prv!Last] EXCEPT !.did = "unseen"]
    <3>1. bills' = [bills EXCEPT ![Prv!Last] = b]
      BY <1>0, <1>4, <2>0, <2>1 DEF Prv!WorkerDies
    <3>2. b \in Bill /\ b.did = "unseen" /\ b.permit = bills[Prv!Last].permit /\ b.checkpoint = bills[Prv!Last].checkpoint
      BY <1>0, <2>0 DEF Bill, Prv!Did
    <3> HIDE DEF b
    <3>3. BillIsTrue(b)
      BY <1>0, <2>0, <2>1, <3>2 DEF BillIsTrue, Prv!Accepted
    <3>4. /\ bills' \in Seq(Bill) /\ Prv!Last' = Prv!Last /\ bills'[Prv!Last'] = b
          /\ \A n \in 1 .. Prv!Last' : BillIsTrue(bills[n])' /\ (n < Prv!Last' => Booked(bills[n])')
      BY <2>0, <3>1, <3>2, <3>3, LastBillChanges
    <3>5. Prv!Checkpointed' <=> Prv!Checkpointed
      BY <2>0, <3>1, <3>2, CheckpointsStay
    <3>6. CallTypes' /\ BillFollows' /\ UnitIsBooked' /\ AttemptsLeft'
      BY <1>0, <2>0, <3>2, <3>4, <3>5 DEF CallTypes, BillFollows, UnitIsBooked, AttemptsLeft, Booked
    <3> QED BY <2>0, <3>4, <3>6 DEF CallInv
  <2>2. CASE bills[Prv!Last].did # "unsent"
    <3>1. UNCHANGED bills
      BY <1>4, <2>2 DEF Prv!WorkerDies
    <3>2. UNCHANGED <<Prv!Last, Prv!Checkpointed>>
      BY <3>1 DEF Prv!Last, Prv!Checkpointed
    <3>3. CallTypes' /\ BillFollows' /\ UnitIsBooked' /\ AttemptsLeft'
      BY <1>0, <2>0, <3>1, <3>2 DEF CallTypes, BillFollows, UnitIsBooked, AttemptsLeft, Booked
    <3>4. \A n \in 1 .. Prv!Last' : BillIsTrue(bills[n])' /\ (n < Prv!Last' => Booked(bills[n])')
      BY <2>0, <3>1, BillsStay
    <3> QED BY <2>0, <3>2, <3>3, <3>4 DEF CallInv
  <2> QED BY <2>1, <2>2
<1> QED BY <1>1, <1>2, <1>3, <1>4

LEMMA CallStep == LifecycleAssumption /\ CallInv /\ (Prv!Next \/ UNCHANGED callVars) => CallInv'
<1> SUFFICES ASSUME LifecycleAssumption, CallInv, Prv!Next \/ UNCHANGED callVars PROVE CallInv'
  OBVIOUS
<1>1. CASE UNCHANGED callVars
  <2>1. UNCHANGED <<protocol, controlled, task, at, reply, bills>>
    BY <1>1 DEF callVars
  <2>2. UNCHANGED <<Prv!Last, Prv!Checkpointed, Answer, Prv!Truth(reply)>>
    BY <2>1 DEF Prv!Last, Prv!Checkpointed, Answer, Prv!Bodies, Prv!Usages, Prv!Models, Prv!Truth, Prv!Priced
  <2>3. CallTypes' /\ BillFollows' /\ UnitIsBooked' /\ AttemptsLeft'
    BY <2>1, <2>2 DEF CallInv, CallTypes, BillFollows, UnitIsBooked, AttemptsLeft, Booked
  <2>4. \A n \in 1 .. Prv!Last' : BillIsTrue(bills[n])' /\ (n < Prv!Last' => Booked(bills[n])')
    BY <2>1, BillsStay
  <2> QED BY <2>1, <2>2, <2>3, <2>4 DEF CallInv
<1>2. CASE Prv!Next
  BY <1>2, RequestEnds, AuthorizeStep, AnswerSteps, UnitSteps DEF Prv!Next
<1> QED BY <1>1, <1>2

(* Permits tell the truth (execution.py, ledger.py, adapters): released    *)
(* means nobody ran the request; settled that an answer was read which may *)
(* be booked, of the asked model where the adapter compares, whoever the   *)
(* provider lets answer; for any protocols and any limit of attempts.      *)
THEOREM PermitsTellTheTruth == Spec => []PermitTellsTheTruth
<1>1. Init => CallInv
  BY CallInit, LifecycleAssumption DEF Init
<1>2. CallInv /\ [Next]_vars => CallInv'
  <2> SUFFICES ASSUME CallInv, [Next]_vars PROVE CallInv'
    OBVIOUS
  <2>1. Prv!Next \/ UNCHANGED callVars
    BY DEF Next, vars
  <2> QED BY <2>1, CallStep, LifecycleAssumption
<1>3. CallInv => PermitTellsTheTruth
  BY CallInvIsEnough, LifecycleAssumption DEF PermitTellsTheTruth
<1> QED BY <1>1, <1>2, <1>3, PTL DEF Spec

--------------------------------------------------------------------------------
(* Translations.                                                           *)

Draft == [src : 1 .. MaxSources, pack : 0 .. MaxJobs, done : BOOLEAN]
JobStatus == Trs!Terminal \cup {"pending", "running", "paused", "waiting_config", "outcome_unknown"}
JobPhase == {"plan", "prepare", "fanout", "translate"}
TaskStatus == {"pending", "leased", "succeeded", "failed", "cancelled", "outcome_unknown"}
JobPlace == {"idle", "claimed", "sent", "settled", "stored"}
JobPermit == {"none", "reserved", "unknown"}
Job == [kind : {"translate", "candidate"}, draft : Nat, src : 1 .. MaxSources, mode : Modes,
        how : {"edition", "confirm", "candidate", "continue"},
        status : JobStatus, phase : JobPhase, task : TaskStatus, fresh : BOOLEAN, at : JobPlace,
        permit : JobPermit, checkpoint : BOOLEAN, pack : Nat, candidate : Nat, planned : Nat, accepted : BOOLEAN]

TransTypes ==
  /\ current \in 1 .. MaxSources /\ drafts \in Seq(Draft) /\ draft \in 0 .. Len(drafts)
  /\ jobs \in Seq(Job) /\ Len(jobs) <= MaxJobs

\* A job that can no longer ask a provider for anything.
ClosedJob(job) ==
  /\ job.permit \notin {"unknown", "reserved"} /\ ~job.accepted
  /\ job.status \in Trs!Terminal /\ job.task # "leased"

\* Its pack is the job's own, and where its units look for it.
PackInPlace(j, job, ds) ==
  /\ {job.pack, job.candidate, job.planned} \subseteq {0, j}
  /\ job.pack = j => IF job.kind = "translate" THEN ds[job.draft].pack = j ELSE job.candidate = j
  /\ job.phase = "translate" /\ job.mode # "off" => job.planned = j /\ job.pack = j

IdleUnlessLeased(job) == job.task # "leased" => job.at = "idle"

\* No two jobs write the texts of one draft.
DraftsOwned ==
  \A i, j \in Trs!Ids : jobs[i].kind = "translate" /\ jobs[j].kind = "translate" /\ i # j => jobs[i].draft # jobs[j].draft

HistoryClosed ==
  \A i, j \in Trs!Ids : jobs[j].how = "continue" /\ i < j /\ jobs[i].src = jobs[j].src => ClosedJob(jobs[i])

TransInv ==
  /\ TransTypes /\ DraftsOwned /\ HistoryClosed
  /\ \A j \in Trs!Ids : jobs[j].draft \in 1 .. Len(drafts) /\ IdleUnlessLeased(jobs[j]) /\ PackInPlace(j, jobs[j], drafts)

LEMMA TransConstants ==
  LifecycleAssumption =>
    MaxJobs \in Nat /\ MaxSources \in Nat \ {0} /\ MaxDrafts \in Nat /\ Modes \subseteq {"off", "extractive", "analysed"}
  BY DEF LifecycleAssumption, Trs!TranslationsAssumption

LEMMA TransInit == LifecycleAssumption /\ Trs!Init => TransInv
<1> SUFFICES ASSUME LifecycleAssumption, Trs!Init PROVE TransInv
  OBVIOUS
<1>1. current = 1 /\ draft = 0 /\ drafts = <<>> /\ jobs = <<>>
  BY DEF Trs!Init
<1>2. Trs!Ids = {}
  BY <1>1 DEF Trs!Ids
<1> QED BY <1>1, <1>2, TransConstants DEF TransInv, TransTypes, DraftsOwned, HistoryClosed

LEMMA TransInvIsEnough ==
  LifecycleAssumption /\ TransInv => Trs!TypeOK /\ Trs!ContinuedHistoryIsClosed /\ Trs!UnitsUseTheirPack
<1> SUFFICES ASSUME LifecycleAssumption, TransInv PROVE Trs!TypeOK /\ Trs!ContinuedHistoryIsClosed /\ Trs!UnitsUseTheirPack
  OBVIOUS
<1>0. TransTypes /\ HistoryClosed /\ MaxJobs \in Nat /\ Trs!Ids = 1 .. Len(jobs)
  BY TransConstants DEF TransInv, Trs!Ids
<1>1. ASSUME NEW j \in Trs!Ids
      PROVE jobs[j] \in
       [kind : {"translate", "candidate"}, draft : DOMAIN drafts, src : 1..MaxSources, mode : Modes,
        how : {"edition", "confirm", "candidate", "continue"},
        status : Trs!Terminal \cup {"pending", "running", "paused", "waiting_config", "outcome_unknown"},
        phase : {"plan", "prepare", "fanout", "translate"},
        task : {"pending", "leased", "succeeded", "failed", "cancelled", "outcome_unknown"},
        fresh : BOOLEAN,
        at : {"idle", "claimed", "sent", "settled", "stored"},
        permit : {"none", "reserved", "unknown"}, checkpoint : BOOLEAN,
        pack : 0..MaxJobs, candidate : 0..MaxJobs, planned : 0..MaxJobs, accepted : BOOLEAN]
  <2>1. jobs[j] \in Job /\ jobs[j].draft \in DOMAIN drafts /\ PackInPlace(j, jobs[j], drafts) /\ j \in 0 .. MaxJobs
    BY <1>0 DEF TransInv, TransTypes
  <2>2. jobs[j].pack \in 0 .. MaxJobs /\ jobs[j].candidate \in 0 .. MaxJobs /\ jobs[j].planned \in 0 .. MaxJobs
    BY <1>0, <2>1 DEF PackInPlace
  <2> QED BY <2>1, <2>2 DEF Job, JobStatus, JobPhase, TaskStatus, JobPlace, JobPermit
<1>2. Trs!TypeOK
  <2>1. \A d \in DOMAIN drafts : drafts[d] \in [src : 1 .. MaxSources, pack : 0 .. MaxJobs, done : BOOLEAN]
    <3>1. \A d \in DOMAIN drafts : drafts[d] \in Draft
      BY <1>0 DEF TransTypes
    <3> QED BY <3>1 DEF Draft
  <2>2. current \in 1 .. MaxSources /\ draft \in 0 .. Len(drafts) /\ Len(jobs) <= MaxJobs
    BY <1>0 DEF TransTypes
  <2> QED BY <1>1, <2>1, <2>2 DEF Trs!TypeOK
<1>3. Trs!ContinuedHistoryIsClosed
  <2>1. ASSUME NEW j \in Trs!Ids, jobs[j].how = "continue", NEW i \in 1 .. j - 1, jobs[i].src = jobs[j].src PROVE ClosedJob(jobs[i])
    BY <1>0, <2>1 DEF HistoryClosed
  <2> QED BY <2>1 DEF Trs!ContinuedHistoryIsClosed, ClosedJob
<1>4. Trs!UnitsUseTheirPack
  BY DEF Trs!UnitsUseTheirPack, TransInv, PackInPlace
<1> QED BY <1>2, <1>3, <1>4

LEMMA JobFields ==
  ASSUME NEW job \in Job
  PROVE  /\ \A status \in JobStatus : [job EXCEPT !.status = status] \in Job
         /\ \A phase \in JobPhase : [job EXCEPT !.phase = phase] \in Job
         /\ \A status \in TaskStatus : [job EXCEPT !.task = status] \in Job
         /\ \A place \in JobPlace : [job EXCEPT !.at = place] \in Job
         /\ \A permit \in JobPermit : [job EXCEPT !.permit = permit] \in Job
         /\ \A is \in BOOLEAN : /\ [job EXCEPT !.fresh = is] \in Job /\ [job EXCEPT !.accepted = is] \in Job
                               /\ [job EXCEPT !.checkpoint = is] \in Job
         /\ \A pack \in Nat : /\ [job EXCEPT !.pack = pack] \in Job /\ [job EXCEPT !.candidate = pack] \in Job
                              /\ [job EXCEPT !.planned = pack] \in Job
  BY DEF Job

LEMMA JobValues ==
  /\ {"cancelled", "failed", "done", "pending", "running", "paused", "waiting_config", "outcome_unknown"} \subseteq JobStatus
  /\ {"prepare", "fanout", "translate"} \subseteq JobPhase
  /\ {"pending", "leased", "succeeded", "failed", "cancelled", "outcome_unknown"} \subseteq TaskStatus
  /\ {"idle", "claimed", "sent", "settled", "stored"} \subseteq JobPlace /\ {"none", "reserved", "unknown"} \subseteq JobPermit
  BY DEF JobStatus, JobPhase, TaskStatus, JobPlace, JobPermit, Trs!Terminal

\* A step on one job that is not closed; of the drafts only the one that
\* the job writes can get another pack.
LEMMA OneJobChanges ==
  ASSUME LifecycleAssumption, TransInv, NEW j \in Trs!Ids, NEW job \in Job, jobs' = [jobs EXCEPT ![j] = job],
         job.kind = jobs[j].kind, job.draft = jobs[j].draft, job.src = jobs[j].src, job.how = jobs[j].how,
         ~ClosedJob(jobs[j]), IdleUnlessLeased(job), PackInPlace(j, job, drafts'),
         UNCHANGED <<current, draft>>, drafts' \in Seq(Draft), Len(drafts') = Len(drafts),
         \A d \in 1 .. Len(drafts) : drafts'[d].pack # drafts[d].pack => job.kind = "translate" /\ d = job.draft
  PROVE  TransInv'
<1>0. TransTypes /\ Trs!Ids = 1 .. Len(jobs) /\ Trs!Ids' = 1 .. Len(jobs')
  BY DEF TransInv, Trs!Ids
<1>1. /\ jobs' \in Seq(Job) /\ Len(jobs') = Len(jobs) /\ Trs!Ids' = Trs!Ids
      /\ \A i \in Trs!Ids : jobs'[i] = IF i = j THEN job ELSE jobs[i]
  BY <1>0 DEF TransTypes
<1>2. TransTypes'
  BY <1>0, <1>1 DEF TransTypes
<1>3. \A i \in Trs!Ids : jobs'[i].kind = jobs[i].kind /\ jobs'[i].draft = jobs[i].draft /\ jobs'[i].src = jobs[i].src /\ jobs'[i].how = jobs[i].how
  BY <1>1
<1>4. DraftsOwned'
  BY <1>1, <1>3 DEF TransInv, DraftsOwned
<1>5. HistoryClosed'
  <2>1. ASSUME NEW i \in Trs!Ids, NEW k \in Trs!Ids, jobs'[k].how = "continue", i < k, jobs'[i].src = jobs'[k].src PROVE ClosedJob(jobs'[i])
    <3>1. ClosedJob(jobs[i])
      BY <1>3, <2>1 DEF TransInv, HistoryClosed
    <3> QED BY <1>1, <3>1
  <2>2. \A i, k \in Trs!Ids' : jobs'[k].how = "continue" /\ i < k /\ jobs'[i].src = jobs'[k].src => ClosedJob(jobs'[i])
    BY <1>1, <2>1
  <2> QED BY <2>2 DEF HistoryClosed, ClosedJob
<1>6. ASSUME NEW i \in Trs!Ids
      PROVE  jobs'[i].draft \in 1 .. Len(drafts') /\ IdleUnlessLeased(jobs'[i]) /\ PackInPlace(i, jobs'[i], drafts')
  <2>1. jobs[i].draft \in 1 .. Len(drafts) /\ IdleUnlessLeased(jobs[i]) /\ PackInPlace(i, jobs[i], drafts)
    BY DEF TransInv
  <2>2. CASE i = j
    BY <1>1, <2>1, <2>2
  <2>3. CASE i # j
    <3>1. jobs'[i] = jobs[i]
      BY <1>1, <2>3
    <3>2. jobs[i].kind = "translate" => drafts'[jobs[i].draft].pack = drafts[jobs[i].draft].pack
      BY <2>1, <2>3 DEF TransInv, DraftsOwned
    <3> QED BY <2>1, <3>1, <3>2 DEF PackInPlace
  <2> QED BY <2>2, <2>3
<1>7. \A i \in Trs!Ids' : jobs'[i].draft \in 1 .. Len(drafts') /\ IdleUnlessLeased(jobs'[i]) /\ PackInPlace(i, jobs'[i], drafts')
  BY <1>1, <1>6
<1> QED BY <1>2, <1>4, <1>5, <1>7 DEF TransInv, IdleUnlessLeased, PackInPlace

\* What most steps leave of a job.
Kept(j, job) ==
  /\ job \in Job /\ IdleUnlessLeased(job)
  /\ job.kind = jobs[j].kind /\ job.draft = jobs[j].draft /\ job.src = jobs[j].src /\ job.how = jobs[j].how /\ job.mode = jobs[j].mode
  /\ job.pack = jobs[j].pack /\ job.candidate = jobs[j].candidate
  /\ \/ job.planned = jobs[j].planned /\ job.phase \in {jobs[j].phase, "prepare"}
     \/ job.planned = jobs[j].pack /\ (job.mode = "off" \/ job.pack # 0)

LEMMA JobChanges ==
  ASSUME LifecycleAssumption, TransInv, NEW j \in Trs!Ids, NEW job, Kept(j, job), ~ClosedJob(jobs[j]), Trs!Change(j, job)
  PROVE  TransInv'
<1> DEFINE next == [job EXCEPT !.fresh = job.fresh /\ job.task = "leased"]
<1>0. job \in Job /\ TransTypes /\ PackInPlace(j, jobs[j], drafts) /\ jobs[j] \in Job
  BY DEF Kept, TransInv, TransTypes, Trs!Ids
<1>1. jobs' = [jobs EXCEPT ![j] = next] /\ UNCHANGED <<current, draft, drafts>>
  BY <1>0 DEF Trs!Change, Trs!Lease
<1>2. (job.fresh /\ job.task = "leased") \in BOOLEAN
  OBVIOUS
<1>3. /\ next \in Job /\ next.kind = job.kind /\ next.draft = job.draft /\ next.src = job.src /\ next.how = job.how /\ next.mode = job.mode
      /\ next.pack = job.pack /\ next.candidate = job.candidate /\ next.planned = job.planned /\ next.phase = job.phase
      /\ next.task = job.task /\ next.at = job.at
  BY <1>0, <1>2 DEF Job
<1> HIDE DEF next
<1>4. IdleUnlessLeased(next)
  BY <1>3 DEF Kept, IdleUnlessLeased
<1>5. PackInPlace(j, next, drafts)
  BY <1>0, <1>3 DEF PackInPlace, Kept
<1>6. drafts' \in Seq(Draft) /\ Len(drafts') = Len(drafts) /\ \A d \in 1 .. Len(drafts) : drafts'[d].pack = drafts[d].pack
  BY <1>0, <1>1 DEF TransTypes
<1> QED BY <1>1, <1>3, <1>4, <1>5, <1>6, OneJobChanges DEF Kept

\* What users do with a job.
LEMMA ControlSteps ==
  ASSUME LifecycleAssumption, TransInv, NEW j \in Trs!Ids,
         Trs!Pause(j) \/ Trs!Cancel(j) \/ Trs!Resume(j) \/ Trs!Stop(j) \/ Trs!RetryAcceptRisk(j)
  PROVE  TransInv'
<1>0. jobs[j] \in Job /\ IdleUnlessLeased(jobs[j])
  BY DEF TransInv, TransTypes, Trs!Ids
<1>1. CASE Trs!Pause(j)
  <2>1. ~ClosedJob(jobs[j])
    BY <1>1 DEF Trs!Pause, ClosedJob
  <2>2. Kept(j, [jobs[j] EXCEPT !.status = "paused", !.fresh = FALSE])
    <3>1. [jobs[j] EXCEPT !.status = "paused", !.fresh = FALSE] \in Job
      BY <1>0, JobFields, JobValues
    <3> QED BY <1>0, <3>1 DEF Kept, Job, IdleUnlessLeased
  <2> QED BY <1>1, <2>1, <2>2, JobChanges DEF Trs!Pause
<1>2. CASE Trs!Cancel(j)
  <2>1. ~ClosedJob(jobs[j])
    BY <1>2 DEF Trs!Cancel, ClosedJob
  <2>2. Kept(j, [jobs[j] EXCEPT !.status = "cancelled", !.fresh = FALSE])
    <3>1. [jobs[j] EXCEPT !.status = "cancelled", !.fresh = FALSE] \in Job
      BY <1>0, JobFields, JobValues
    <3> QED BY <1>0, <3>1 DEF Kept, Job, IdleUnlessLeased
  <2> QED BY <1>2, <2>1, <2>2, JobChanges DEF Trs!Cancel
<1>3. CASE Trs!Resume(j)
  <2>1. ~ClosedJob(jobs[j])
    BY <1>3 DEF Trs!Resume, ClosedJob, Trs!Terminal
  <2>2. Kept(j, [jobs[j] EXCEPT !.status = "pending"])
    <3>1. [jobs[j] EXCEPT !.status = "pending"] \in Job
      BY <1>0, JobFields, JobValues
    <3> QED BY <1>0, <3>1 DEF Kept, Job, IdleUnlessLeased
  <2> QED BY <1>3, <2>1, <2>2, JobChanges DEF Trs!Resume
<1>4. CASE Trs!Stop(j)
  <2>1. ~ClosedJob(jobs[j])
    BY <1>4 DEF Trs!Stop, ClosedJob
  <2>2. Kept(j, [jobs[j] EXCEPT !.status = "cancelled", !.fresh = FALSE])
    <3>1. [jobs[j] EXCEPT !.status = "cancelled", !.fresh = FALSE] \in Job
      BY <1>0, JobFields, JobValues
    <3> QED BY <1>0, <3>1 DEF Kept, Job, IdleUnlessLeased
  <2> QED BY <1>4, <2>1, <2>2, JobChanges DEF Trs!Stop
<1>5. CASE Trs!RetryAcceptRisk(j)
  <2>1. ~ClosedJob(jobs[j]) /\ jobs[j].at = "idle"
    BY <1>0, <1>5 DEF Trs!RetryAcceptRisk, ClosedJob, IdleUnlessLeased
  <2>2. Kept(j, [jobs[j] EXCEPT !.status = "pending", !.task = "pending", !.permit = "none", !.accepted = TRUE])
    <3>1. [jobs[j] EXCEPT !.status = "pending", !.task = "pending", !.permit = "none", !.accepted = TRUE] \in Job
      BY <1>0, <2>1, JobFields, JobValues
    <3> QED BY <1>0, <2>1, <3>1 DEF Kept, Job, IdleUnlessLeased
  <2> QED BY <1>5, <2>1, <2>2, JobChanges DEF Trs!RetryAcceptRisk
<1> QED BY <1>1, <1>2, <1>3, <1>4, <1>5

\* What a worker does before it asks a provider, and when it is gone.
LEMMA LeaseSteps ==
  ASSUME LifecycleAssumption, TransInv, NEW j \in Trs!Ids,
         Trs!Claim(j) \/ Trs!SourceStale(j) \/ Trs!Plan(j) \/ Trs!SchedulePreparation(j) \/ Trs!WaitWithoutDispatch(j) \/ Trs!LeaseLost(j)
  PROVE  TransInv'
<1>0. jobs[j] \in Job /\ IdleUnlessLeased(jobs[j])
  BY DEF TransInv, TransTypes, Trs!Ids
<1>1. CASE Trs!Claim(j)
  <2> DEFINE permit == IF jobs[j].permit = "unknown" THEN jobs[j].permit ELSE "none"
             job == [jobs[j] EXCEPT !.status = "running", !.task = "leased", !.fresh = TRUE, !.at = "claimed", !.permit = permit]
  <2>1. ~ClosedJob(jobs[j]) /\ Trs!Change(j, job)
    BY <1>0, <1>1 DEF Trs!Claim, ClosedJob, Trs!Terminal, Job
  <2>2. permit \in {"none", "unknown"}
    OBVIOUS
  <2> HIDE DEF permit
  <2>3. Kept(j, job)
    <3>1. job \in Job
      BY <1>0, <2>2, JobFields, JobValues
    <3> QED BY <1>0, <2>2, <3>1 DEF Kept, Job, IdleUnlessLeased
  <2> QED BY <2>1, <2>3, JobChanges
<1>2. ASSUME Trs!Begins(j) PROVE ~ClosedJob(jobs[j])
  BY <1>2 DEF Trs!Begins, Trs!Holds, ClosedJob
<1>3. CASE Trs!SourceStale(j)
  <2>1. ~ClosedJob(jobs[j])
    BY <1>2, <1>3 DEF Trs!SourceStale
  <2>2. Kept(j, [jobs[j] EXCEPT !.status = "failed", !.task = "failed", !.at = "idle"])
    <3>1. [jobs[j] EXCEPT !.status = "failed", !.task = "failed", !.at = "idle"] \in Job
      BY <1>0, JobFields, JobValues
    <3> QED BY <1>0, <3>1 DEF Kept, Job, IdleUnlessLeased
  <2> QED BY <1>3, <2>1, <2>2, JobChanges DEF Trs!SourceStale
<1>4. CASE Trs!Plan(j)
  <2>1. ~ClosedJob(jobs[j]) /\ (jobs[j].mode = "off" \/ jobs[j].pack # 0 \/ Trs!NothingToDo(j))
    BY <1>2, <1>4 DEF Trs!Plan, Trs!NoPack
  <2>2. CASE Trs!NothingToDo(j)
    <3>1. Kept(j, [jobs[j] EXCEPT !.status = "done", !.task = "succeeded", !.at = "idle"])
      <4>1. [jobs[j] EXCEPT !.status = "done", !.task = "succeeded", !.at = "idle"] \in Job
        BY <1>0, JobFields, JobValues
      <4> QED BY <1>0, <4>1 DEF Kept, Job, IdleUnlessLeased
    <3> QED BY <1>4, <2>1, <2>2, <3>1, JobChanges DEF Trs!Plan, Trs!Finished
  <2>3. CASE ~Trs!NothingToDo(j)
    <3> DEFINE pack == jobs[j].pack
               job == [jobs[j] EXCEPT !.phase = "translate", !.task = "pending", !.at = "idle", !.permit = "none", !.pack = pack, !.planned = pack]
    <3>1. Trs!Change(j, job)
      BY <1>4, <2>3 DEF Trs!Plan, Trs!Planned
    <3>2. pack \in Nat /\ pack = jobs[j].pack
      BY <1>0 DEF Job
    <3> HIDE DEF pack
    <3>3. Kept(j, job)
      <4>1. job \in Job
        BY <1>0, <2>1, <2>3, <3>2, JobFields, JobValues
      <4> QED BY <1>0, <2>1, <2>3, <3>2, <4>1 DEF Kept, Job, IdleUnlessLeased
    <3> QED BY <2>1, <3>1, <3>3, JobChanges
  <2> QED BY <2>2, <2>3
<1>5. CASE Trs!SchedulePreparation(j)
  <2>1. ~ClosedJob(jobs[j])
    BY <1>2, <1>5 DEF Trs!SchedulePreparation
  <2>2. Kept(j, [jobs[j] EXCEPT !.phase = "prepare", !.task = "pending", !.at = "idle"])
    <3>1. [jobs[j] EXCEPT !.phase = "prepare", !.task = "pending", !.at = "idle"] \in Job
      BY <1>0, JobFields, JobValues
    <3> QED BY <1>0, <3>1 DEF Kept, Job, IdleUnlessLeased
  <2> QED BY <1>5, <2>1, <2>2, JobChanges DEF Trs!SchedulePreparation, Trs!Deferred
<1>6. CASE Trs!WaitWithoutDispatch(j)
  <2>1. ~ClosedJob(jobs[j])
    BY <1>2, <1>6 DEF Trs!WaitWithoutDispatch
  <2>2. PICK status \in {"pending", "waiting_config"} : Trs!Change(j, [jobs[j] EXCEPT !.task = "pending", !.at = "idle", !.status = status])
    BY <1>6 DEF Trs!WaitWithoutDispatch
  <2>3. Kept(j, [jobs[j] EXCEPT !.task = "pending", !.at = "idle", !.status = status])
    <3>1. [jobs[j] EXCEPT !.task = "pending", !.at = "idle", !.status = status] \in Job
      BY <1>0, <2>2, JobFields, JobValues
    <3> QED BY <1>0, <2>2, <3>1 DEF Kept, Job, IdleUnlessLeased
  <2> QED BY <2>1, <2>2, <2>3, JobChanges
<1>7. CASE Trs!LeaseLost(j)
  <2>1. ~ClosedJob(jobs[j])
    BY <1>7 DEF Trs!LeaseLost, ClosedJob
  <2>2. PICK r \in Trs!Recovered(j) :
          Trs!Change(j, [jobs[j] EXCEPT !.fresh = FALSE, !.at = "idle", !.task = r[1], !.status = r[2],
                                        !.permit = IF jobs[j].permit \in {"reserved", "unknown"} THEN "unknown" ELSE jobs[j].permit])
    BY <1>0, <1>7 DEF Trs!LeaseLost, Job
  <2> DEFINE permit == IF jobs[j].permit \in {"reserved", "unknown"} THEN "unknown" ELSE jobs[j].permit
             t == r[1]
             status == r[2]
             job == [jobs[j] EXCEPT !.fresh = FALSE, !.at = "idle", !.task = t, !.status = status, !.permit = permit]
  <2>3. t \in {"outcome_unknown", "cancelled", "pending", "failed"} /\ status \in Trs!Terminal \cup {"outcome_unknown", "paused", "pending"}
    <3>1. CASE jobs[j].permit \in {"reserved", "unknown"}
      BY <2>2, <3>1 DEF Trs!Recovered
    <3>2. CASE jobs[j].permit \notin {"reserved", "unknown"} /\ jobs[j].status = "cancelled"
      BY <2>2, <3>2 DEF Trs!Recovered, Trs!Terminal
    <3>3. CASE jobs[j].permit \notin {"reserved", "unknown"} /\ jobs[j].status # "cancelled"
      BY <2>2, <3>3 DEF Trs!Recovered, Trs!Terminal
    <3> QED BY <3>1, <3>2, <3>3
  <2>4. permit \in {"none", "unknown"}
    BY <1>0 DEF Job, JobPermit
  <2>5. Trs!Change(j, job)
    BY <2>2
  <2> HIDE DEF permit, t, status
  <2>6. Kept(j, job)
    <3>1. job \in Job
      BY <1>0, <2>3, <2>4, JobFields, JobValues DEF JobStatus
    <3> QED BY <1>0, <2>3, <2>4, <3>1 DEF Kept, Job, IdleUnlessLeased
  <2> QED BY <2>1, <2>5, <2>6, JobChanges
<1> QED BY <1>1, <1>3, <1>4, <1>5, <1>6, <1>7

\* The call of a provider and what becomes of it.
LEMMA OutcomeStep ==
  ASSUME LifecycleAssumption, TransInv, NEW j \in Trs!Ids, NEW permit \in JobPermit, NEW job \in Job,
         Trs!Outcome(j, permit, job),
         job.kind = jobs[j].kind, job.draft = jobs[j].draft, job.src = jobs[j].src, job.how = jobs[j].how, job.mode = jobs[j].mode,
         job.pack = jobs[j].pack, job.candidate = jobs[j].candidate, job.planned = jobs[j].planned, job.phase = jobs[j].phase
  PROVE  TransInv'
<1>0. jobs[j] \in Job /\ IdleUnlessLeased(jobs[j]) /\ jobs[j].at \in {"sent", "settled"}
  BY DEF TransInv, TransTypes, Trs!Ids, Trs!Outcome
<1>1. ~ClosedJob(jobs[j])
  BY <1>0 DEF ClosedJob, IdleUnlessLeased
<1>2. CASE Trs!Holds(j)
  <2>1. Trs!Change(j, [job EXCEPT !.permit = permit, !.at = "idle"])
    BY <1>2 DEF Trs!Outcome
  <2>2. Kept(j, [job EXCEPT !.permit = permit, !.at = "idle"])
    <3>1. [job EXCEPT !.permit = permit, !.at = "idle"] \in Job
      BY JobFields, JobValues
    <3> QED BY <1>0, <3>1 DEF Kept, Job, IdleUnlessLeased
  <2> QED BY <1>1, <2>1, <2>2, JobChanges
<1>3. CASE ~Trs!Holds(j)
  <2>1. Trs!Change(j, [jobs[j] EXCEPT !.permit = permit, !.at = "idle"])
    BY <1>3 DEF Trs!Outcome
  <2>2. Kept(j, [jobs[j] EXCEPT !.permit = permit, !.at = "idle"])
    <3>1. [jobs[j] EXCEPT !.permit = permit, !.at = "idle"] \in Job
      BY <1>0, JobFields, JobValues
    <3> QED BY <1>0, <3>1 DEF Kept, Job, IdleUnlessLeased
  <2> QED BY <1>1, <2>1, <2>2, JobChanges
<1> QED BY <1>2, <1>3

LEMMA CallSteps ==
  ASSUME LifecycleAssumption, TransInv, NEW j \in Trs!Ids,
         Trs!Authorize(j) \/ Trs!OutcomeUnknown(j) \/ Trs!NotSent(j) \/ Trs!ConfigRefused(j) \/ Trs!Settle(j) \/ Trs!Unusable(j) \/ Trs!Store(j)
  PROVE  TransInv'
<1>0. jobs[j] \in Job /\ IdleUnlessLeased(jobs[j])
  BY DEF TransInv, TransTypes, Trs!Ids
<1>1. ASSUME Trs!Begins(j) \/ jobs[j].at # "idle" PROVE ~ClosedJob(jobs[j]) /\ jobs[j].task = "leased"
  BY <1>0, <1>1 DEF Trs!Begins, Trs!Holds, ClosedJob, IdleUnlessLeased
<1>2. CASE Trs!Authorize(j)
  <2>1. ~ClosedJob(jobs[j]) /\ jobs[j].task = "leased"
    BY <1>1, <1>2 DEF Trs!Authorize
  <2>2. Kept(j, [jobs[j] EXCEPT !.permit = "reserved", !.at = "sent"])
    <3>1. [jobs[j] EXCEPT !.permit = "reserved", !.at = "sent"] \in Job
      BY <1>0, JobFields, JobValues
    <3> QED BY <1>0, <2>1, <3>1 DEF Kept, Job, IdleUnlessLeased
  <2> QED BY <1>2, <2>1, <2>2, JobChanges DEF Trs!Authorize
<1>3. CASE Trs!Settle(j)
  <2>1. ~ClosedJob(jobs[j]) /\ jobs[j].task = "leased"
    BY <1>1, <1>3 DEF Trs!Settle
  <2>2. Kept(j, [jobs[j] EXCEPT !.permit = "none", !.at = "settled"])
    <3>1. [jobs[j] EXCEPT !.permit = "none", !.at = "settled"] \in Job
      BY <1>0, JobFields, JobValues
    <3> QED BY <1>0, <2>1, <3>1 DEF Kept, Job, IdleUnlessLeased
  <2> QED BY <1>3, <2>1, <2>2, JobChanges DEF Trs!Settle
<1>4. CASE Trs!Store(j)
  <2>1. ~ClosedJob(jobs[j]) /\ jobs[j].task = "leased"
    BY <1>1, <1>4 DEF Trs!Store
  <2>2. Kept(j, [jobs[j] EXCEPT !.checkpoint = TRUE, !.at = "stored"])
    <3>1. [jobs[j] EXCEPT !.checkpoint = TRUE, !.at = "stored"] \in Job
      BY <1>0, JobFields, JobValues
    <3> QED BY <1>0, <2>1, <3>1 DEF Kept, Job, IdleUnlessLeased
  <2> QED BY <1>4, <2>1, <2>2, JobChanges DEF Trs!Store
<1>5. ASSUME NEW permit \in JobPermit, NEW status \in JobStatus, NEW left \in TaskStatus,
             Trs!Outcome(j, permit, [jobs[j] EXCEPT !.status = status, !.task = left])
      PROVE  TransInv'
  <2>1. [jobs[j] EXCEPT !.status = status, !.task = left] \in Job
    BY <1>0, JobFields
  <2> DEFINE job == [jobs[j] EXCEPT !.status = status, !.task = left]
  <2>2. /\ job.kind = jobs[j].kind /\ job.draft = jobs[j].draft /\ job.src = jobs[j].src /\ job.how = jobs[j].how /\ job.mode = jobs[j].mode
        /\ job.pack = jobs[j].pack /\ job.candidate = jobs[j].candidate /\ job.planned = jobs[j].planned /\ job.phase = jobs[j].phase
    BY <1>0 DEF Job
  <2>3. Trs!Outcome(j, permit, job)
    BY <1>5
  <2> HIDE DEF job
  <2>4. job \in Job
    BY <2>1 DEF job
  <2> QED BY <2>2, <2>3, <2>4, OutcomeStep
<1>6. ASSUME Trs!Outcome(j, "none", Trs!GivenUp(jobs[j])) PROVE TransInv'
  <2> DEFINE status == IF jobs[j].phase = "prepare" THEN "failed" ELSE IF jobs[j].accepted THEN "outcome_unknown" ELSE "done"
             job == [jobs[j] EXCEPT !.task = "failed", !.status = status]
  <2>1. status \in JobStatus
    BY JobValues
  <2>2. Trs!Outcome(j, "none", job)
    BY <1>6 DEF Trs!GivenUp
  <2> HIDE DEF status
  <2>3. job \in Job
    BY <1>0, <2>1, JobFields, JobValues
  <2>4. /\ job.kind = jobs[j].kind /\ job.draft = jobs[j].draft /\ job.src = jobs[j].src /\ job.how = jobs[j].how /\ job.mode = jobs[j].mode
        /\ job.pack = jobs[j].pack /\ job.candidate = jobs[j].candidate /\ job.planned = jobs[j].planned /\ job.phase = jobs[j].phase
    BY <1>0 DEF Job
  <2> HIDE DEF job
  <2> QED BY <2>2, <2>3, <2>4, JobValues, OutcomeStep
<1>7. CASE Trs!OutcomeUnknown(j)
  BY <1>5, <1>7, JobValues DEF Trs!OutcomeUnknown
<1>8. CASE Trs!NotSent(j)
  BY <1>5, <1>6, <1>8, JobValues DEF Trs!NotSent
<1>9. CASE Trs!ConfigRefused(j)
  BY <1>5, <1>9, JobValues DEF Trs!ConfigRefused
<1>10. CASE Trs!Unusable(j)
  BY <1>6, <1>10 DEF Trs!Unusable
<1> QED BY <1>2, <1>3, <1>4, <1>7, <1>8, <1>9, <1>10

\* A pack is saved where the job's units will look for it.
LEMMA PackSteps ==
  ASSUME LifecycleAssumption, TransInv, NEW j \in Trs!Ids, Trs!PlanExtracted(j) \/ Trs!CommitPreparation(j)
  PROVE  TransInv'
<1>0. /\ jobs[j] \in Job /\ IdleUnlessLeased(jobs[j]) /\ drafts \in Seq(Draft) /\ jobs[j].draft \in 1 .. Len(drafts) /\ j \in 1 .. MaxJobs
      /\ j # 0 /\ j \in Nat /\ PackInPlace(j, jobs[j], drafts)
  BY TransConstants DEF TransInv, TransTypes, Trs!Ids
<1>1. ~ClosedJob(jobs[j]) /\ Trs!SavePack(j) /\ UNCHANGED <<current, draft>>
  BY DEF Trs!PlanExtracted, Trs!CommitPreparation, Trs!Begins, Trs!Delivers, Trs!Holds, ClosedJob
<1>2. /\ drafts' \in Seq(Draft) /\ Len(drafts') = Len(drafts)
      /\ \A d \in 1 .. Len(drafts) : drafts'[d].pack # drafts[d].pack => jobs[j].kind = "translate" /\ d = jobs[j].draft
      /\ jobs[j].kind = "translate" => drafts'[jobs[j].draft].pack = j
  <2>1. CASE jobs[j].kind = "translate"
    <3> DEFINE d == jobs[j].draft
               new == [drafts[d] EXCEPT !.pack = j]
    <3>1. drafts' = [drafts EXCEPT ![d] = new]
      BY <1>0, <1>1, <2>1 DEF Trs!SavePack
    <3>2. new \in Draft /\ new.pack = j
      <4>1. drafts[d] \in Draft
        BY <1>0
      <4>2. j \in 0 .. MaxJobs
        BY <1>0, TransConstants
      <4> QED BY <4>1, <4>2 DEF Draft
    <3>3. d \in 1 .. Len(drafts)
      BY <1>0
    <3> HIDE DEF d, new
    <3>4. drafts' \in Seq(Draft) /\ Len(drafts') = Len(drafts) /\ \A e \in 1 .. Len(drafts) : drafts'[e] = IF e = d THEN new ELSE drafts[e]
      BY <1>0, <3>1, <3>2, <3>3
    <3> QED BY <2>1, <3>2, <3>3, <3>4 DEF d
  <2>2. CASE jobs[j].kind # "translate"
    BY <1>0, <1>1, <2>2 DEF Trs!SavePack
  <2> QED BY <2>1, <2>2
<1>3. ASSUME NEW job \in Job, jobs' = [jobs EXCEPT ![j] = Trs!Lease(Trs!Saved(j, job))], job.task # "leased", job.at = "idle",
             job.kind = jobs[j].kind, job.draft = jobs[j].draft, job.src = jobs[j].src, job.how = jobs[j].how, job.mode = jobs[j].mode,
             job.pack = j, job.planned \in {0, j}, job.candidate = jobs[j].candidate, job.phase = "translate" => job.planned = j
      PROVE  TransInv'
  <2> DEFINE kept == Trs!Saved(j, job)
             next == [kept EXCEPT !.fresh = kept.fresh /\ kept.task = "leased"]
  <2>1. /\ kept \in Job /\ kept.task = job.task /\ kept.at = job.at
        /\ kept.kind = job.kind /\ kept.draft = job.draft /\ kept.src = job.src /\ kept.how = job.how /\ kept.mode = job.mode
        /\ kept.pack = job.pack /\ kept.planned = job.planned /\ kept.phase = job.phase
        /\ kept.candidate = IF job.kind = "candidate" THEN j ELSE jobs[j].candidate
    <3>1. CASE job.kind = "candidate"
      <4>1. kept = [job EXCEPT !.candidate = j]
        BY <3>1 DEF Trs!Saved
      <4> HIDE DEF kept
      <4>2. kept \in Job
        BY <1>0, <1>3, <4>1, JobFields
      <4> QED BY <1>3, <3>1, <4>1, <4>2 DEF Job
    <3>2. CASE job.kind # "candidate"
      <4>1. kept = job
        BY <3>2 DEF Trs!Saved
      <4> HIDE DEF kept
      <4> QED BY <1>3, <3>2, <4>1
    <3> QED BY <3>1, <3>2
  <2> HIDE DEF kept
  <2>2. jobs' = [jobs EXCEPT ![j] = next] /\ (kept.fresh /\ kept.task = "leased") \in BOOLEAN
    BY <1>3 DEF Trs!Lease, kept
  <2>3. next \in Job
    BY <2>1, <2>2, JobFields
  <2>4. /\ next.kind = kept.kind /\ next.draft = kept.draft /\ next.src = kept.src /\ next.how = kept.how /\ next.mode = kept.mode
        /\ next.pack = kept.pack /\ next.planned = kept.planned /\ next.phase = kept.phase /\ next.candidate = kept.candidate
        /\ next.task = kept.task /\ next.at = kept.at
    BY <2>1 DEF Job
  <2> HIDE DEF next
  <2>5. IdleUnlessLeased(next)
    BY <1>3, <2>1, <2>4 DEF IdleUnlessLeased
  <2>6. job.kind \in {"translate", "candidate"} /\ jobs[j].candidate \in {0, j}
    BY <1>0, <1>3 DEF Job, PackInPlace
  <2>7. PackInPlace(j, next, drafts')
    BY <1>2, <1>3, <2>1, <2>4, <2>6 DEF PackInPlace
  <2>8. next.kind = jobs[j].kind /\ next.draft = jobs[j].draft /\ next.src = jobs[j].src /\ next.how = jobs[j].how
    BY <1>3, <2>1, <2>4
  <2>9. \A d \in 1 .. Len(drafts) : drafts'[d].pack # drafts[d].pack => next.kind = "translate" /\ d = next.draft
    BY <1>2, <2>8
  <2>10. drafts' \in Seq(Draft) /\ Len(drafts') = Len(drafts)
    BY <1>2
  <2> QED BY <1>1, <2>2, <2>3, <2>5, <2>7, <2>8, <2>9, <2>10, OneJobChanges
<1>4. CASE Trs!PlanExtracted(j)
  <2> DEFINE job == [jobs[j] EXCEPT !.phase = "translate", !.task = "pending", !.at = "idle", !.permit = "none", !.pack = j, !.planned = j]
  <2>1. jobs' = [jobs EXCEPT ![j] = Trs!Lease(Trs!Saved(j, job))]
    BY <1>0, <1>4 DEF Trs!PlanExtracted, Trs!Planned, TransInv, TransTypes
  <2>2. job \in Job
    BY <1>0, JobFields, JobValues
  <2>3. /\ job.kind = jobs[j].kind /\ job.draft = jobs[j].draft /\ job.src = jobs[j].src /\ job.how = jobs[j].how /\ job.mode = jobs[j].mode
        /\ job.pack = j /\ job.planned = j /\ job.candidate = jobs[j].candidate /\ job.task = "pending" /\ job.at = "idle"
    BY <1>0 DEF Job
  <2> HIDE DEF job
  <2> QED BY <1>3, <2>1, <2>2, <2>3
<1>5. CASE Trs!CommitPreparation(j)
  <2> DEFINE job == [jobs[j] EXCEPT !.pack = j, !.phase = "fanout", !.task = "pending", !.at = "idle", !.checkpoint = FALSE, !.permit = "none"]
  <2>1. jobs' = [jobs EXCEPT ![j] = Trs!Lease(Trs!Saved(j, job))]
    BY <1>0, <1>5 DEF Trs!CommitPreparation, TransInv, TransTypes
  <2>2. job \in Job
    BY <1>0, JobFields, JobValues
  <2>3. /\ job.kind = jobs[j].kind /\ job.draft = jobs[j].draft /\ job.src = jobs[j].src /\ job.how = jobs[j].how /\ job.mode = jobs[j].mode
        /\ job.pack = j /\ job.planned = jobs[j].planned /\ job.candidate = jobs[j].candidate /\ job.task = "pending" /\ job.at = "idle"
        /\ job.phase = "fanout" /\ jobs[j].planned \in {0, j}
    BY <1>0 DEF Job, PackInPlace
  <2> HIDE DEF job
  <2> QED BY <1>3, <2>1, <2>2, <2>3
<1> QED BY <1>4, <1>5

\* The units of a job are committed: its draft is translated, its pack stays.
LEMMA CommitStep ==
  ASSUME LifecycleAssumption, TransInv, NEW j \in Trs!Ids, Trs!CommitUnits(j)
  PROVE  TransInv'
<1>0. /\ jobs[j] \in Job /\ IdleUnlessLeased(jobs[j]) /\ drafts \in Seq(Draft) /\ jobs[j].draft \in 1 .. Len(drafts)
      /\ PackInPlace(j, jobs[j], drafts)
  BY DEF TransInv, TransTypes, Trs!Ids
<1>1. ~ClosedJob(jobs[j]) /\ UNCHANGED <<current, draft>>
  BY DEF Trs!CommitUnits, Trs!Delivers, Trs!Holds, ClosedJob
<1>2. drafts' \in Seq(Draft) /\ Len(drafts') = Len(drafts) /\ \A d \in 1 .. Len(drafts) : drafts'[d].pack = drafts[d].pack
  <2>1. CASE jobs[j].kind = "translate"
    <3> DEFINE d == jobs[j].draft
               new == [drafts[d] EXCEPT !.done = TRUE]
    <3>1. drafts' = [drafts EXCEPT ![d] = new]
      BY <1>0, <2>1 DEF Trs!CommitUnits
    <3>2. new \in Draft /\ new.pack = drafts[d].pack
      <4>1. drafts[d] \in Draft
        BY <1>0
      <4> QED BY <4>1 DEF Draft
    <3>3. d \in 1 .. Len(drafts)
      BY <1>0
    <3> HIDE DEF d, new
    <3>4. drafts' \in Seq(Draft) /\ Len(drafts') = Len(drafts) /\ \A e \in 1 .. Len(drafts) : drafts'[e] = IF e = d THEN new ELSE drafts[e]
      BY <1>0, <3>1, <3>2, <3>3
    <3> QED BY <3>2, <3>4
  <2>2. CASE jobs[j].kind # "translate"
    BY <1>0, <2>2 DEF Trs!CommitUnits
  <2> QED BY <2>1, <2>2
<1> DEFINE done == [jobs[j] EXCEPT !.status = "done", !.task = "succeeded", !.at = "idle"]
           status == IF jobs[j].accepted THEN "outcome_unknown" ELSE "done"
           job == [[done EXCEPT !.fresh = done.fresh /\ done.task = "leased"] EXCEPT !.status = status]
<1>3. done \in Job
  BY <1>0, JobFields, JobValues
<1>4. /\ done.kind = jobs[j].kind /\ done.draft = jobs[j].draft /\ done.src = jobs[j].src /\ done.how = jobs[j].how /\ done.mode = jobs[j].mode
      /\ done.pack = jobs[j].pack /\ done.planned = jobs[j].planned /\ done.phase = jobs[j].phase /\ done.candidate = jobs[j].candidate
      /\ done.at = "idle"
  BY <1>0 DEF Job
<1>5. jobs' = [jobs EXCEPT ![j] = job]
  BY <1>0 DEF Trs!CommitUnits, Trs!Lease, Trs!Finished, TransInv, TransTypes
<1> HIDE DEF done
<1>6. status \in JobStatus /\ (done.fresh /\ done.task = "leased") \in BOOLEAN
  BY JobValues
<1> HIDE DEF status
<1>7. job \in Job
  BY <1>3, <1>6, JobFields
<1>8. /\ job.kind = done.kind /\ job.draft = done.draft /\ job.src = done.src /\ job.how = done.how /\ job.mode = done.mode
      /\ job.pack = done.pack /\ job.planned = done.planned /\ job.phase = done.phase /\ job.candidate = done.candidate
      /\ job.at = done.at
  BY <1>3 DEF Job
<1> HIDE DEF job
<1>9. IdleUnlessLeased(job)
  BY <1>4, <1>8 DEF IdleUnlessLeased
<1>10. PackInPlace(j, job, drafts')
  BY <1>0, <1>2, <1>4, <1>8 DEF PackInPlace
<1> QED BY <1>1, <1>2, <1>4, <1>5, <1>7, <1>8, <1>9, <1>10, OneJobChanges

\* A job is added, for a draft that no other job writes when it translates;
\* jobs that wait are cancelled by some of the requests that add one.
LEMMA JobAdded ==
  ASSUME LifecycleAssumption, TransInv, Len(jobs) < MaxJobs,
         NEW base \in Seq(Job), Len(base) = Len(jobs),
         \A i \in Trs!Ids : base[i] = jobs[i] \/ base[i] = [jobs[i] EXCEPT !.status = "cancelled"],
         NEW kind \in {"translate", "candidate"}, NEW mode \in Modes, NEW how \in {"edition", "confirm", "candidate", "continue"},
         jobs' = Append(base, Trs!NewJob(kind, draft', mode, how)),
         current' \in 1 .. MaxSources, drafts' \in Seq(Draft), draft' \in 1 .. Len(drafts'), Len(drafts) <= Len(drafts'),
         \A d \in 1 .. Len(drafts) : drafts'[d] = drafts[d],
         kind = "translate" => draft' = Len(drafts) + 1,
         how = "continue" => \A i \in Trs!Ids : jobs[i].src = drafts'[draft'].src => ClosedJob(base[i])
  PROVE  TransInv'
<1> DEFINE new == Trs!NewJob(kind, draft', mode, how)
<1>0. TransTypes /\ Trs!Ids = 1 .. Len(jobs) /\ Trs!Ids' = 1 .. Len(jobs') /\ MaxJobs \in Nat
  BY TransConstants DEF TransInv, Trs!Ids
<1>1. /\ new \in Job /\ new.kind = kind /\ new.draft = draft' /\ new.src = drafts'[draft'].src /\ new.how = how
      /\ IdleUnlessLeased(new) /\ PackInPlace(Len(jobs) + 1, new, drafts')
  <2>1. drafts'[draft'] \in Draft
    OBVIOUS
  <2>2. drafts'[draft'].src \in 1 .. MaxSources /\ draft' \in Nat
    BY <2>1 DEF Draft
  <2>3. new \in Job
    BY <2>2, JobValues DEF Trs!NewJob, Trs!NoPack, Job, JobStatus, JobPhase, TaskStatus, JobPlace, JobPermit
  <2>4. /\ new.kind = kind /\ new.draft = draft' /\ new.src = drafts'[draft'].src /\ new.how = how /\ new.at = "idle"
        /\ new.pack = 0 /\ new.candidate = 0 /\ new.planned = 0 /\ new.phase = "plan"
    BY DEF Trs!NewJob, Trs!NoPack
  <2> HIDE DEF new
  <2> QED BY <1>0, <2>3, <2>4 DEF IdleUnlessLeased, PackInPlace, TransTypes
<1> HIDE DEF new
<1>2. /\ jobs' \in Seq(Job) /\ Len(jobs') = Len(jobs) + 1 /\ jobs'[Len(jobs) + 1] = new /\ \A i \in Trs!Ids : jobs'[i] = base[i]
  BY <1>0, <1>1 DEF TransTypes, new
<1>3. ASSUME NEW i \in Trs!Ids
      PROVE  /\ jobs'[i].kind = jobs[i].kind /\ jobs'[i].draft = jobs[i].draft /\ jobs'[i].src = jobs[i].src /\ jobs'[i].how = jobs[i].how
             /\ jobs'[i].mode = jobs[i].mode /\ jobs'[i].pack = jobs[i].pack /\ jobs'[i].planned = jobs[i].planned
             /\ jobs'[i].candidate = jobs[i].candidate /\ jobs'[i].phase = jobs[i].phase /\ jobs'[i].task = jobs[i].task
             /\ jobs'[i].at = jobs[i].at /\ (ClosedJob(jobs[i]) => ClosedJob(jobs'[i]))
  <2>1. jobs[i] \in Job /\ jobs'[i] = base[i]
    BY <1>0, <1>2 DEF TransTypes
  <2>2. CASE base[i] = jobs[i]
    BY <2>1, <2>2
  <2>3. CASE base[i] = [jobs[i] EXCEPT !.status = "cancelled"]
    <3> DEFINE job == [jobs[i] EXCEPT !.status = "cancelled"]
    <3>1. /\ job.kind = jobs[i].kind /\ job.draft = jobs[i].draft /\ job.src = jobs[i].src /\ job.how = jobs[i].how
          /\ job.mode = jobs[i].mode /\ job.pack = jobs[i].pack /\ job.planned = jobs[i].planned
          /\ job.candidate = jobs[i].candidate /\ job.phase = jobs[i].phase /\ job.task = jobs[i].task
          /\ job.at = jobs[i].at /\ job.permit = jobs[i].permit /\ job.accepted = jobs[i].accepted /\ job.status = "cancelled"
      BY <2>1 DEF Job
    <3>2. jobs'[i] = job
      BY <2>1, <2>3
    <3> HIDE DEF job
    <3>3. ClosedJob(jobs[i]) => ClosedJob(job)
      BY <3>1 DEF ClosedJob, Trs!Terminal
    <3> QED BY <3>1, <3>2, <3>3
  <2> QED BY <2>2, <2>3
<1>9. \A i \in Trs!Ids : jobs'[i].kind = jobs[i].kind /\ jobs'[i].draft = jobs[i].draft /\ jobs'[i].src = jobs[i].src /\ jobs'[i].how = jobs[i].how
  BY <1>3
<1>10. \A i \in Trs!Ids : ClosedJob(jobs[i]) => ClosedJob(jobs'[i])
  BY <1>3
<1>4. Len(jobs) \in Nat /\ \A i \in Trs!Ids' : i \in Trs!Ids \/ i = Len(jobs) + 1
  BY <1>0, <1>2 DEF TransTypes
<1>5. TransTypes'
  BY <1>0, <1>2, <1>4 DEF TransTypes
<1>6. ASSUME NEW i \in Trs!Ids'
      PROVE  jobs'[i].draft \in 1 .. Len(drafts') /\ IdleUnlessLeased(jobs'[i]) /\ PackInPlace(i, jobs'[i], drafts')
  <2>1. CASE i = Len(jobs) + 1
    BY <1>1, <1>2, <2>1
  <2>2. CASE i \in Trs!Ids
    <3>1. jobs[i].draft \in 1 .. Len(drafts) /\ IdleUnlessLeased(jobs[i]) /\ PackInPlace(i, jobs[i], drafts)
      BY <2>2 DEF TransInv
    <3>2. drafts'[jobs[i].draft].pack = drafts[jobs[i].draft].pack
      BY <3>1
    <3>3. Len(drafts) \in Nat /\ Len(drafts') \in Nat
      BY <1>0 DEF TransTypes
    <3>4. jobs[i].draft \in 1 .. Len(drafts')
      BY <3>1, <3>3
    <3>5. /\ jobs'[i].kind = jobs[i].kind /\ jobs'[i].draft = jobs[i].draft /\ jobs'[i].mode = jobs[i].mode /\ jobs'[i].pack = jobs[i].pack
          /\ jobs'[i].planned = jobs[i].planned /\ jobs'[i].candidate = jobs[i].candidate /\ jobs'[i].phase = jobs[i].phase
          /\ jobs'[i].task = jobs[i].task /\ jobs'[i].at = jobs[i].at
      BY <1>3, <2>2
    <3>6. IdleUnlessLeased(jobs'[i])
      BY <3>1, <3>5 DEF IdleUnlessLeased
    <3>7. PackInPlace(i, jobs'[i], drafts')
      BY <3>1, <3>2, <3>5 DEF PackInPlace
    <3> QED BY <3>4, <3>5, <3>6, <3>7
  <2> QED BY <1>4, <2>1, <2>2
<1>7. \A i \in Trs!Ids' : \A k \in Trs!Ids' : jobs'[i].kind = "translate" /\ jobs'[k].kind = "translate" /\ i # k => jobs'[i].draft # jobs'[k].draft
  <2>1. ASSUME NEW i \in Trs!Ids, NEW k \in Trs!Ids, jobs'[i].kind = "translate", jobs'[k].kind = "translate", i # k
        PROVE  jobs'[i].draft # jobs'[k].draft
    <3>1. jobs[i].kind = "translate" /\ jobs[k].kind = "translate" /\ DraftsOwned
      BY <1>9, <2>1 DEF TransInv
    <3>2. jobs[i].draft # jobs[k].draft
      BY <2>1, <3>1 DEF DraftsOwned
    <3> QED BY <1>9, <3>2
  <2>2. ASSUME NEW i \in Trs!Ids, new.kind = "translate" PROVE jobs'[i].draft # new.draft
    <3>1. jobs[i].draft \in 1 .. Len(drafts) /\ jobs'[i].draft = jobs[i].draft
      BY <1>3 DEF TransInv
    <3> QED BY <1>0, <1>1, <2>2, <3>1 DEF TransTypes
  <2> SUFFICES ASSUME NEW i \in Trs!Ids', NEW k \in Trs!Ids', jobs'[i].kind = "translate", jobs'[k].kind = "translate", i # k
               PROVE  jobs'[i].draft # jobs'[k].draft
    OBVIOUS
  <2>3. CASE i \in Trs!Ids /\ k \in Trs!Ids
    BY <2>1, <2>3
  <2>4. CASE i = Len(jobs) + 1
    BY <1>2, <1>4, <2>2, <2>4
  <2>5. CASE k = Len(jobs) + 1
    BY <1>2, <1>4, <2>2, <2>5
  <2> QED BY <1>4, <2>3, <2>4, <2>5
<1>8. \A i, k \in Trs!Ids' : jobs'[k].how = "continue" /\ i < k /\ jobs'[i].src = jobs'[k].src => ClosedJob(jobs'[i])
  <2>1. ASSUME NEW i \in Trs!Ids, NEW k \in Trs!Ids, jobs'[k].how = "continue", i < k, jobs'[i].src = jobs'[k].src PROVE ClosedJob(jobs'[i])
    BY <1>9, <1>10, <2>1 DEF TransInv, HistoryClosed
  <2>2. ASSUME NEW i \in Trs!Ids, new.how = "continue", jobs'[i].src = new.src PROVE ClosedJob(jobs'[i])
    BY <1>1, <1>2, <1>9, <2>2
  <2>3. ASSUME NEW i \in Trs!Ids', NEW k \in Trs!Ids', i < k PROVE i \in Trs!Ids
    BY <1>0, <1>2, <1>4, <2>3
  <2> QED BY <1>2, <1>4, <2>1, <2>2, <2>3
<1> QED BY <1>5, <1>6, <1>7, <1>8 DEF TransInv, DraftsOwned, HistoryClosed, ClosedJob, IdleUnlessLeased, PackInPlace

\* A draft is added: nothing else of the drafts changes.
LEMMA DraftAdded ==
  ASSUME LifecycleAssumption, TransInv, NEW src \in 1 .. MaxSources, NEW done \in BOOLEAN, Trs!CreateDraft(src, done)
  PROVE  /\ drafts' \in Seq(Draft) /\ Len(drafts') = Len(drafts) + 1 /\ draft' = Len(drafts) + 1 /\ draft' \in 1 .. Len(drafts')
         /\ Len(drafts) <= Len(drafts') /\ drafts'[draft'].src = src /\ \A d \in 1 .. Len(drafts) : drafts'[d] = drafts[d]
<1> DEFINE new == [src |-> src, pack |-> 0, done |-> done]
<1>1. drafts \in Seq(Draft) /\ drafts' = Append(drafts, new) /\ draft' = Len(drafts) + 1
  BY DEF TransInv, TransTypes, Trs!CreateDraft, Trs!NoPack
<1>2. new \in Draft /\ new.src = src
  BY TransConstants DEF Draft
<1> HIDE DEF new
<1> QED BY <1>1, <1>2

\* What users start.
LEMMA RequestSteps ==
  ASSUME LifecycleAssumption, TransInv, NEW mode \in Modes,
         Trs!TranslateEdition(mode) \/ Trs!Confirm(mode) \/ Trs!CreateCandidate(mode) \/ Trs!ContinueTranslation(mode)
  PROVE  TransInv'
<1>0. /\ TransTypes /\ jobs \in Seq(Job) /\ drafts \in Seq(Draft) /\ current \in 1 .. MaxSources /\ draft \in 0 .. Len(drafts)
      /\ Trs!Ids = 1 .. Len(jobs) /\ MaxSources \in Nat \ {0}
  BY TransConstants DEF TransInv, TransTypes, Trs!Ids
<1>1. CASE Trs!TranslateEdition(mode)
  <2>1. /\ Trs!CreateDraft(current, FALSE) /\ UNCHANGED current /\ Len(jobs) < MaxJobs
        /\ jobs' = Append(jobs, Trs!NewJob("translate", draft', mode, "edition"))
    BY <1>1 DEF Trs!TranslateEdition, Trs!Create
  <2>2. /\ drafts' \in Seq(Draft) /\ draft' = Len(drafts) + 1 /\ draft' \in 1 .. Len(drafts') /\ Len(drafts) <= Len(drafts')
        /\ \A d \in 1 .. Len(drafts) : drafts'[d] = drafts[d]
    BY <1>0, <2>1, DraftAdded
  <2> QED BY <1>0, <2>1, <2>2, JobAdded
<1>2. CASE Trs!Confirm(mode)
  <2>1. /\ Trs!CreateDraft(current + 1, FALSE) /\ current < MaxSources /\ current' = current + 1 /\ Len(jobs) < MaxJobs
        /\ jobs' = Append(jobs, Trs!NewJob("translate", draft', mode, "confirm"))
    BY <1>2 DEF Trs!Confirm, Trs!Create
  <2>2. current + 1 \in 1 .. MaxSources
    BY <1>0, <2>1
  <2>3. /\ drafts' \in Seq(Draft) /\ draft' = Len(drafts) + 1 /\ draft' \in 1 .. Len(drafts') /\ Len(drafts) <= Len(drafts')
        /\ \A d \in 1 .. Len(drafts) : drafts'[d] = drafts[d]
    BY <2>1, <2>2, DraftAdded
  <2> QED BY <1>0, <2>1, <2>2, <2>3, JobAdded
<1>3. CASE Trs!CreateCandidate(mode)
  <2>1. /\ draft # 0 /\ UNCHANGED <<current, draft, drafts>> /\ Len(jobs) < MaxJobs
        /\ jobs' = Append(jobs, Trs!NewJob("candidate", draft', mode, "candidate"))
    BY <1>3 DEF Trs!CreateCandidate, Trs!Create
  <2>2. draft' \in 1 .. Len(drafts') /\ Len(drafts) <= Len(drafts') /\ drafts' \in Seq(Draft)
    BY <1>0, <2>1
  <2> QED BY <1>0, <2>1, <2>2, JobAdded
<1>4. CASE Trs!ContinueTranslation(mode)
  <2> DEFINE base == [i \in Trs!Ids |-> Trs!Closed(i)]
  <2>1. /\ draft # 0 /\ drafts[draft].src = current /\ \A i \in Trs!Ids : Trs!Previous(i) => Trs!Quiet(i)
        /\ Trs!CreateDraft(current, drafts[draft].done) /\ Len(jobs) < MaxJobs /\ UNCHANGED current
        /\ jobs' = Append(base, Trs!NewJob("translate", draft', mode, "continue"))
    BY <1>4 DEF Trs!ContinueTranslation
  <2>2. drafts[draft].done \in BOOLEAN
    <3>1. drafts[draft] \in Draft
      BY <1>0, <2>1
    <3> QED BY <3>1 DEF Draft
  <2>3. /\ drafts' \in Seq(Draft) /\ draft' = Len(drafts) + 1 /\ draft' \in 1 .. Len(drafts') /\ Len(drafts) <= Len(drafts')
        /\ drafts'[draft'].src = current /\ \A d \in 1 .. Len(drafts) : drafts'[d] = drafts[d]
    BY <1>0, <2>1, <2>2, DraftAdded
  <2>4. ASSUME NEW i \in Trs!Ids
        PROVE  /\ Trs!Closed(i) \in Job
               /\ Trs!Closed(i) = jobs[i] \/ Trs!Closed(i) = [jobs[i] EXCEPT !.status = "cancelled"]
               /\ jobs[i].src = current => ClosedJob(Trs!Closed(i))
    <3>1. jobs[i] \in Job
      BY <1>0
    <3>2. CASE Trs!Previous(i) /\ jobs[i].status = "waiting_config"
      <4> DEFINE job == [jobs[i] EXCEPT !.status = "cancelled"]
      <4>1. Trs!Closed(i) = job
        BY <3>2 DEF Trs!Closed
      <4>2. job \in Job
        BY <3>1, JobFields, JobValues
      <4>3. job.permit = jobs[i].permit /\ job.accepted = jobs[i].accepted /\ job.task = jobs[i].task /\ job.status = "cancelled"
        BY <3>1 DEF Job
      <4> HIDE DEF job
      <4>4. ClosedJob(job)
        BY <2>1, <3>2, <4>3 DEF ClosedJob, Trs!Quiet, Trs!Terminal
      <4> QED BY <4>1, <4>2, <4>4 DEF job
    <3>3. CASE ~(Trs!Previous(i) /\ jobs[i].status = "waiting_config")
      <4>1. [jobs[i] EXCEPT !.status = jobs[i].status] = jobs[i]
        BY <3>1 DEF Job
      <4>2. Trs!Closed(i) = jobs[i]
        BY <3>3, <4>1 DEF Trs!Closed
      <4>3. jobs[i].status \in JobStatus
        BY <3>1 DEF Job
      <4>4. jobs[i].src = current => ClosedJob(jobs[i])
        BY <2>1, <3>3, <4>3 DEF ClosedJob, Trs!Quiet, Trs!Previous, JobStatus
      <4> QED BY <3>1, <4>2, <4>4
    <3> QED BY <3>2, <3>3
  <2>5. base \in Seq(Job) /\ Len(base) = Len(jobs) /\ \A i \in Trs!Ids : base[i] = Trs!Closed(i)
    <3> DEFINE n == Len(jobs)
    <3>1. base \in [1 .. n -> Job] /\ n \in Nat /\ \A i \in Trs!Ids : base[i] = Trs!Closed(i)
      BY <1>0, <2>4
    <3> HIDE DEF base, n
    <3>2. base \in Seq(Job) /\ Len(base) = n
      BY <3>1
    <3> QED BY <3>1, <3>2 DEF n
  <2>6. \A i \in Trs!Ids : base[i] = jobs[i] \/ base[i] = [jobs[i] EXCEPT !.status = "cancelled"]
    BY <2>4, <2>5
  <2>7. \A i \in Trs!Ids : jobs[i].src = drafts'[draft'].src => ClosedJob(base[i])
    BY <2>3, <2>4, <2>5
  <2> HIDE DEF base
  <2> QED BY <1>0, <2>1, <2>3, <2>5, <2>6, <2>7, JobAdded
<1> QED BY <1>1, <1>2, <1>3, <1>4

\* A draft of a sealed revision, without a job.
LEMMA RevisionStep ==
  ASSUME LifecycleAssumption, TransInv, NEW d \in DOMAIN drafts, Trs!FromRevision(d)
  PROVE  TransInv'
<1>0. TransTypes /\ drafts[d] \in Draft /\ Trs!Ids = 1 .. Len(jobs) /\ Trs!Ids' = 1 .. Len(jobs')
  BY DEF TransInv, TransTypes, Trs!Ids
<1>1. Trs!CreateDraft(drafts[d].src, drafts[d].done) /\ UNCHANGED <<current, jobs>> /\ drafts[d].src \in 1 .. MaxSources /\ drafts[d].done \in BOOLEAN
  BY <1>0 DEF Trs!FromRevision, Draft
<1>2. /\ drafts' \in Seq(Draft) /\ draft' \in 1 .. Len(drafts') /\ Len(drafts) <= Len(drafts')
      /\ \A e \in 1 .. Len(drafts) : drafts'[e] = drafts[e]
  BY <1>1, DraftAdded
<1>3. TransTypes'
  BY <1>0, <1>1, <1>2 DEF TransTypes
<1>4. DraftsOwned' /\ HistoryClosed'
  BY <1>0, <1>1 DEF TransInv, DraftsOwned, HistoryClosed, ClosedJob
<1>5. ASSUME NEW j \in Trs!Ids
      PROVE  jobs[j].draft \in 1 .. Len(drafts') /\ IdleUnlessLeased(jobs[j]) /\ PackInPlace(j, jobs[j], drafts')
  <2>1. jobs[j].draft \in 1 .. Len(drafts) /\ IdleUnlessLeased(jobs[j]) /\ PackInPlace(j, jobs[j], drafts)
    BY DEF TransInv
  <2>2. drafts'[jobs[j].draft] = drafts[jobs[j].draft] /\ jobs[j].draft \in 1 .. Len(drafts')
    BY <1>0, <1>2, <2>1 DEF TransTypes
  <2> QED BY <2>1, <2>2 DEF PackInPlace
<1> QED BY <1>0, <1>1, <1>3, <1>4, <1>5 DEF TransInv, IdleUnlessLeased, PackInPlace

LEMMA TransStep == LifecycleAssumption /\ TransInv /\ (Trs!Next \/ UNCHANGED transVars) => TransInv'
<1> SUFFICES ASSUME LifecycleAssumption, TransInv, Trs!Next \/ UNCHANGED transVars PROVE TransInv'
  OBVIOUS
<1>1. CASE UNCHANGED transVars
  <2>1. UNCHANGED <<current, draft, drafts, jobs, Trs!Ids>>
    BY <1>1 DEF transVars, Trs!Ids
  <2> QED BY <2>1 DEF TransInv, TransTypes, DraftsOwned, HistoryClosed, ClosedJob, IdleUnlessLeased, PackInPlace
<1>2. CASE Trs!Next
  BY <1>2, RequestSteps, RevisionStep, ControlSteps, LeaseSteps, CallSteps, PackSteps, CommitStep DEF Trs!Next
<1> QED BY <1>1, <1>2

(* A continued translation leaves no open request behind and its units use *)
(* their own pack (api/continuation.py, preparation/execution.py), for any *)
(* numbers of jobs, sources, drafts and workers and any modes.             *)
THEOREM HistoryStaysClosed == Spec => []ContinuationIsSound
<1>1. Init => TransInv
  BY TransInit, LifecycleAssumption DEF Init
<1>2. TransInv /\ [Next]_vars => TransInv'
  <2> SUFFICES ASSUME TransInv, [Next]_vars PROVE TransInv'
    OBVIOUS
  <2>1. Trs!Next \/ UNCHANGED transVars
    BY DEF Next, vars
  <2> QED BY <2>1, TransStep, LifecycleAssumption
<1>3. TransInv => ContinuationIsSound
  BY TransInvIsEnough, LifecycleAssumption DEF ContinuationIsSound
<1> QED BY <1>1, <1>2, <1>3, PTL DEF Spec
===================================================================================
