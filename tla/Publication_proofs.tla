-------------------------- MODULE Publication_proofs ---------------------------
(***************************************************************************)
(* Proofs about Publication for every number of artifacts, generations and *)
(* leases, and for every choice of disturbances.                           *)
(***************************************************************************)
EXTENDS Publication, TLAPS

USE ConstantsAssumption

\* The fields of a publication row.
Row == [artifact : Artifacts \cup {NoArtifact}, generation : Generations, operation : Operations]

LEMMA Kinds ==
  /\ Artifacts \subseteq Work /\ Generations \subseteq Work
  /\ \A g \in Generations : g \in Nat /\ g \notin Artifacts
  /\ 1 \in Generations
  BY DEF Work, Generations

LEMMA AppendRow ==
  ASSUME NEW s \in Seq(Row), NEW r \in Row
  PROVE  /\ Append(s, r) \in Seq(Row)
         /\ Len(s) \in Nat
         /\ DOMAIN s = 1 .. Len(s)
         /\ DOMAIN Append(s, r) = 1 .. Len(s) + 1
         /\ \A i \in DOMAIN s : Append(s, r)[i] = s[i]
         /\ Append(s, r)[Len(s) + 1] = r
  OBVIOUS

-----------------------------------------------------------------------------
(* Type correctness                                                         *)

LEMMA InitTypeOK == Init => TypeOK
<1> SUFFICES ASSUME Init PROVE TypeOK
  OBVIOUS
<1>1. /\ generation \in Generations /\ current \in Artifacts \cup {NoArtifact}
      /\ log \in Seq([artifact : Artifacts \cup {NoArtifact}, generation : Generations, operation : Operations])
  BY Kinds DEF Init
<1>2. /\ expected \in [Artifacts -> 0 .. MaxGeneration] /\ preview \in [Artifacts -> BOOLEAN]
      /\ jobStatus \in [Work -> JobStates] /\ taskStatus \in [Work -> TaskStates]
      /\ fence \in [Work -> 0 .. MaxAttempts] /\ leaseLive \in [Work -> BOOLEAN]
      /\ fresh \in [Work -> BOOLEAN] /\ phase \in [Work -> [Fences -> Phases]]
  BY DEF Init, JobStates, TaskStates, NoTask, Phases
<1>3. /\ registered \subseteq Artifacts /\ built \subseteq Artifacts
      /\ entry \in [artifact : Artifacts \cup {NoArtifact}, generation : 0 .. MaxGeneration]
      /\ deleted \in BOOLEAN /\ cleaned \in BOOLEAN
  <2>1. NoEntry \in [artifact : Artifacts \cup {NoArtifact}, generation : 0 .. MaxGeneration]
    BY DEF NoEntry
  <2> QED
    BY <2>1 DEF Init
<1> QED
  BY <1>1, <1>2, <1>3 DEF TypeOK

LEMMA GotoType ==
  ASSUME TypeOK, NEW w \in Work, NEW f, NEW p \in Phases, Goto(w, f, p)
  PROVE  phase' \in [Work -> [Fences -> Phases]]
  BY DEF TypeOK, Goto

LEMMA FinishType ==
  ASSUME TypeOK, NEW w, NEW s \in Terminal \cup {"pending"}, Finish(w, s)
  PROVE  jobStatus' \in [Work -> JobStates] /\ taskStatus' \in [Work -> TaskStates]
  BY DEF TypeOK, Finish, SetJob, SetTask, Terminal, JobStates, TaskStates

\* A publication appends its row and moves pointer and generation together.
LEMMA CommitType ==
  ASSUME TypeOK, NEW a \in Artifacts \cup {NoArtifact}, NEW op \in Operations,
         NEW job \in [Work -> JobStates], NEW task \in [Work -> TaskStates],
         CommitPublication(a, op, job, task)
  PROVE  /\ generation' \in Generations /\ current' \in Artifacts \cup {NoArtifact}
         /\ log' \in Seq(Row)
         /\ jobStatus' \in [Work -> JobStates] /\ taskStatus' \in [Work -> TaskStates]
<1>1. generation' = generation + 1 /\ generation' \in Generations
  BY DEF TypeOK, CommitPublication, NextGeneration, Generations
<1>2. current' = a
  BY DEF CommitPublication
<1>3. log' \in Seq(Row)
  <2> DEFINE r == [artifact |-> a, generation |-> generation + 1, operation |-> op]
  <2>1. r \in Row
    BY <1>1 DEF Row
  <2>2. log' = Append(log, r)
    BY DEF CommitPublication, NextGeneration
  <2> QED
    BY <2>1, <2>2, AppendRow DEF TypeOK, Row
<1>4. jobStatus' \in [Work -> JobStates] /\ taskStatus' \in [Work -> TaskStates]
  <2>1. "pending" \in JobStates /\ "pending" \in TaskStates
    BY DEF JobStates, TaskStates
  <2> QED
    BY <2>1 DEF CommitPublication
<1> QED
  BY <1>1, <1>2, <1>3, <1>4

LEMMA QueueTypeOK ==
  ASSUME TypeOK, NEW w \in Work, Claim(w) \/ LeaseExpires(w) \/ RecoverExpired(w)
  PROVE  TypeOK'
<1>1. CASE Claim(w)
  <2>1. AttemptLimit[w] \in 1 .. MaxAttempts
    OBVIOUS
  <2>2. fence' \in [Work -> 0 .. MaxAttempts]
    BY <1>1, <2>1 DEF Claim, TypeOK
  <2>3. jobStatus' \in [Work -> JobStates] /\ taskStatus' \in [Work -> TaskStates]
    BY <1>1 DEF Claim, TypeOK, SetTask, SetJob, JobStates, TaskStates
  <2>4. phase' \in [Work -> [Fences -> Phases]]
    <3>1. "claimed" \in Phases
      BY DEF Phases
    <3> QED
      BY <1>1, <3>1, GotoType DEF Claim
  <2>5. leaseLive' \in [Work -> BOOLEAN] /\ fresh' \in [Work -> BOOLEAN]
    BY <1>1 DEF Claim, TypeOK
  <2> QED
    BY <1>1, <2>2, <2>3, <2>4, <2>5 DEF Claim, TypeOK, edition, payload, files, doc
<1>2. CASE LeaseExpires(w)
  BY <1>2 DEF LeaseExpires, TypeOK, edition, payload, files, doc
<1>3. CASE RecoverExpired(w)
  <2>1. jobStatus' \in [Work -> JobStates] /\ taskStatus' \in [Work -> TaskStates]
    BY <1>3 DEF RecoverExpired, Recovered, TypeOK, Finish, SetTask, SetJob, JobStates, TaskStates
  <2> QED
    BY <1>3, <2>1 DEF RecoverExpired, TypeOK, edition, payload, files, doc
<1> QED
  BY <1>1, <1>2, <1>3

LEMMA PublishTypeOK ==
  ASSUME TypeOK, NEW a \in Artifacts, NEW f, Build(a, f) \/ PublishBuilt(a, f)
  PROVE  TypeOK'
<1>0. a \in Work /\ {"built", "raised", "done"} \subseteq Phases
  BY Kinds DEF Phases
<1>1. CASE Build(a, f)
  <2>1. phase' \in [Work -> [Fences -> Phases]]
    BY <1>0, <1>1, GotoType DEF Build
  <2>2. built' \subseteq Artifacts
    BY <1>1 DEF Build, TypeOK
  <2> QED
    BY <1>1, <2>1, <2>2 DEF Build, TypeOK, edition, payload, tasks, doc
<1>2. CASE PublishBuilt(a, f)
  <2>1. phase' \in [Work -> [Fences -> Phases]]
    BY <1>0, <1>2, GotoType DEF PublishBuilt
  <2>2. registered' \subseteq Artifacts
    BY <1>2 DEF PublishBuilt, TypeOK
  <2>3. /\ generation' \in Generations /\ current' \in Artifacts \cup {NoArtifact}
        /\ log' \in Seq(Row)
        /\ jobStatus' \in [Work -> JobStates] /\ taskStatus' \in [Work -> TaskStates]
    <3> DEFINE job  == [jobStatus EXCEPT ![a] = "succeeded"]
               task == [taskStatus EXCEPT ![a] = "succeeded"]
    <3>1. job \in [Work -> JobStates] /\ task \in [Work -> TaskStates]
      BY DEF TypeOK, JobStates, TaskStates
    <3>2. "publish" \in Operations
      BY DEF Operations
    <3>3. CASE CommitPublication(a, "publish", job, task)
      BY <3>1, <3>2, <3>3, CommitType
    <3>4. CASE jobStatus' = job /\ taskStatus' = task /\ UNCHANGED <<generation, current, log>>
      BY <3>1, <3>4 DEF TypeOK, Row
    <3>5. CASE UNCHANGED <<generation, current, log, jobStatus, taskStatus>>
      BY <3>5 DEF TypeOK, Row
    <3> QED
      BY <1>2, <3>3, <3>4, <3>5 DEF PublishBuilt
  <2> QED
    BY <1>2, <2>1, <2>2, <2>3 DEF PublishBuilt, TypeOK, Row, payload, doc
<1> QED
  BY <1>1, <1>2

LEMMA UpdateIndexTypeOK ==
  ASSUME TypeOK, NEW g \in Generations, NEW f, UpdateIndex(g, f)
  PROVE  TypeOK'
<1>1. g \in Work /\ {"raised", "done"} \subseteq Phases
  BY Kinds DEF Phases
<1>2. phase' \in [Work -> [Fences -> Phases]]
  BY <1>1, GotoType DEF UpdateIndex
<1>3. jobStatus' \in [Work -> JobStates] /\ taskStatus' \in [Work -> TaskStates]
  BY DEF UpdateIndex, TypeOK, Finish, SetJob, SetTask, JobStates, TaskStates
<1>4. entry' \in [artifact : Artifacts \cup {NoArtifact}, generation : 0 .. MaxGeneration]
  <2>1. [artifact |-> current, generation |-> generation] \in
          [artifact : Artifacts \cup {NoArtifact}, generation : 0 .. MaxGeneration]
    BY DEF TypeOK, Generations
  <2> QED
    BY <2>1 DEF UpdateIndex, TypeOK
<1> QED
  BY <1>2, <1>3, <1>4 DEF UpdateIndex, TypeOK, edition, payload, files, doc

LEMMA ThreadEndTypeOK ==
  ASSUME TypeOK, NEW w \in Work, NEW f, HandleException(w, f) \/ Raise(w, f) \/ Dies(w, f)
  PROVE  TypeOK'
<1>1. {"raised", "done"} \subseteq Phases
  BY DEF Phases
<1>2. phase' \in [Work -> [Fences -> Phases]]
  BY <1>1, GotoType DEF HandleException, Raise, Dies
<1>3. jobStatus' \in [Work -> JobStates] /\ taskStatus' \in [Work -> TaskStates]
  BY FinishType DEF HandleException, Raise, Dies, TypeOK, tasks, Terminal
<1> QED
  BY <1>2, <1>3 DEF HandleException, Raise, Dies, TypeOK, edition, payload, tasks, files, doc

LEMMA EditionTypeOK ==
  ASSUME TypeOK, Unpublish \/ NewDraft \/ \E a \in Artifacts : Rollback(a)
  PROVE  TypeOK'
<1>1. CASE NewDraft
  <2>1. generation' \in Generations
    BY <1>1 DEF NewDraft, TypeOK, Generations
  <2> QED
    BY <1>1, <2>1 DEF NewDraft, TypeOK, payload, tasks, files, doc
<1>2. CASE Unpublish \/ \E a \in Artifacts : Rollback(a)
  <2>1. PICK a \in Artifacts \cup {NoArtifact}, op \in Operations :
          CommitPublication(a, op, jobStatus, taskStatus)
    BY <1>2 DEF Unpublish, Rollback, Operations
  <2>2. /\ generation' \in Generations /\ current' \in Artifacts \cup {NoArtifact}
        /\ log' \in Seq(Row)
        /\ jobStatus' \in [Work -> JobStates] /\ taskStatus' \in [Work -> TaskStates]
    BY <2>1, CommitType DEF TypeOK
  <2> QED
    BY <1>2, <2>2 DEF Unpublish, Rollback, TypeOK, Row, payload, files, doc
<1> QED
  BY <1>1, <1>2

LEMMA JobTypeOK ==
  ASSUME TypeOK,
         \/ \E a \in Artifacts, p \in BOOLEAN : RequestPublish(a, p)
         \/ \E w \in Work : Pause(w) \/ Cancel(w) \/ Resume(w)
  PROVE  TypeOK'
<1>1. ASSUME NEW a \in Artifacts, NEW p \in BOOLEAN, RequestPublish(a, p) PROVE TypeOK'
  <2>1. jobStatus' \in [Work -> JobStates] /\ taskStatus' \in [Work -> TaskStates]
    BY <1>1, FinishType DEF RequestPublish
  <2>2. expected' \in [Artifacts -> 0 .. MaxGeneration] /\ preview' \in [Artifacts -> BOOLEAN]
    BY <1>1 DEF RequestPublish, TypeOK, Generations
  <2> QED
    BY <1>1, <2>1, <2>2 DEF RequestPublish, TypeOK, edition, files, doc
<1>2. ASSUME NEW w \in Work, Pause(w) \/ Cancel(w) \/ Resume(w) PROVE TypeOK'
  <2>1. jobStatus' \in [Work -> JobStates] /\ fresh' \in [Work -> BOOLEAN]
    BY <1>2 DEF Pause, Cancel, Resume, Control, SetJob, TypeOK, JobStates
  <2> QED
    BY <1>2, <2>1 DEF Pause, Cancel, Resume, Control, TypeOK, edition, payload, files, doc
<1> QED
  BY <1>1, <1>2

LEMMA RemovalTypeOK ==
  ASSUME TypeOK, DeleteDocument \/ Cleanup \/ \E a \in Artifacts : Retention(a)
  PROVE  TypeOK'
<1>1. CASE DeleteDocument
  <2>1. jobStatus' \in [Work -> JobStates] /\ fresh' \in [Work -> BOOLEAN]
    BY <1>1 DEF DeleteDocument, TypeOK, JobStates
  <2> QED
    BY <1>1, <2>1 DEF DeleteDocument, TypeOK, edition, payload, files
<1>2. CASE Cleanup
  <2>1. taskStatus' \in [Work -> TaskStates]
    BY <1>2 DEF Cleanup, TypeOK, TaskStates
  <2>2. <<>> \in Seq([artifact : Artifacts \cup {NoArtifact}, generation : Generations, operation : Operations])
    OBVIOUS
  <2>3. NoEntry \in [artifact : Artifacts \cup {NoArtifact}, generation : 0 .. MaxGeneration]
    BY DEF NoEntry
  <2> QED
    BY <1>2, <2>1, <2>2, <2>3 DEF Cleanup, TypeOK, payload
<1>3. ASSUME NEW a \in Artifacts, Retention(a) PROVE TypeOK'
  BY <1>3 DEF Retention, TypeOK, edition, payload, tasks, doc
<1> QED
  BY <1>1, <1>2, <1>3

LEMMA NextTypeOK == TypeOK /\ [Next]_vars => TypeOK'
<1> SUFFICES ASSUME TypeOK, [Next]_vars PROVE TypeOK'
  OBVIOUS
<1>1. CASE \E w \in Work : Claim(w) \/ LeaseExpires(w) \/ RecoverExpired(w)
  BY <1>1, QueueTypeOK
<1>2. CASE \E w \in Work, f \in Fences : ThreadStep(w, f) \/ Raise(w, f) \/ Dies(w, f)
  BY <1>2, PublishTypeOK, UpdateIndexTypeOK, ThreadEndTypeOK DEF ThreadStep
<1>3. CASE Api
  BY <1>3, JobTypeOK, EditionTypeOK, RemovalTypeOK DEF Api
<1>4. CASE Cleanup \/ \E a \in Artifacts : Retention(a)
  BY <1>4, RemovalTypeOK
<1>5. CASE UNCHANGED vars
  BY <1>5 DEF TypeOK, vars, edition, payload, tasks, files, doc
<1> QED
  BY <1>1, <1>2, <1>3, <1>4, <1>5 DEF Next

-----------------------------------------------------------------------------
(* The inductive invariant                                                  *)

\* A thread between its two transactions has its directory, unless the
\* document is gone; and what is gone was deleted first.
ThreadsHaveTheirFiles ==
  /\ \A a \in Artifacts, f \in Fences : phase[a][f] = "built" => a \in built \/ cleaned
  /\ cleaned => deleted

\* Rows of the log come in the order of their generations, and each publish
\* found the generation its task was requested for.
LogIsOrdered ==
  /\ \A i \in DOMAIN log : log[i].generation <= generation
  /\ \A i, k \in DOMAIN log : i < k => log[i].generation < log[k].generation
  /\ \A k \in DOMAIN log : log[k].operation = "publish" =>
       /\ log[k].artifact \in Artifacts
       /\ taskStatus[log[k].artifact] # NoTask
       /\ log[k].generation = expected[log[k].artifact] + 1

EntryIsNotAhead == entry.generation <= generation

PublicationInv ==
  /\ TypeOK
  /\ ThreadsHaveTheirFiles /\ RegisteredIsOnDisk /\ NothingOutlivesCleanup
  /\ LogIsOrdered
  /\ EntryIsNotAhead /\ RowsOfGenerationAreCurrent

\* The files of the document

FilesInv == ThreadsHaveTheirFiles /\ RegisteredIsOnDisk

\* A thread that moves, to anywhere but "built", leaves the invariant alone.
LEMMA GotoFiles ==
  ASSUME TypeOK, FilesInv, NEW w \in Work, NEW g \in Fences, NEW p, p # "built",
         Goto(w, g, p), UNCHANGED <<built, deleted, cleaned>>
  PROVE  ThreadsHaveTheirFiles'
<1>1. ASSUME NEW a \in Artifacts, NEW f \in Fences, phase'[a][f] = "built"
      PROVE  a \in built \/ cleaned
  <2>1. phase[a][f] = "built"
    BY <1>1, Kinds DEF Goto, TypeOK
  <2> QED
    BY <2>1 DEF FilesInv, ThreadsHaveTheirFiles
<1> QED
  BY <1>1 DEF FilesInv, ThreadsHaveTheirFiles

LEMMA FilesFrame ==
  ASSUME FilesInv, UNCHANGED <<phase, current, files, doc>>
  PROVE  FilesInv'
  BY DEF FilesInv, ThreadsHaveTheirFiles, RegisteredIsOnDisk, files, doc

LEMMA BuildFiles ==
  ASSUME TypeOK, FilesInv, NEW a \in Artifacts, NEW f \in Fences, Build(a, f)
  PROVE  FilesInv'
<1>1. CASE MayBuild(a, f)
  <2>1. /\ built' = built \cup {a} /\ Goto(a, f, "built")
        /\ UNCHANGED <<current, registered, deleted, cleaned>>
    BY <1>1 DEF Build, edition, doc
  <2>2. ASSUME NEW b \in Artifacts, NEW g \in Fences, phase'[b][g] = "built"
        PROVE  b \in built' \/ cleaned
    <3>1. CASE b = a
      BY <2>1, <3>1
    <3>2. CASE b # a
      <4>1. phase[b][g] = "built"
        BY <2>1, <2>2, <3>2, Kinds DEF Goto, TypeOK
      <4> QED
        BY <2>1, <4>1 DEF FilesInv, ThreadsHaveTheirFiles
    <3> QED
      BY <3>1, <3>2
  <2> QED
    BY <2>1, <2>2 DEF FilesInv, ThreadsHaveTheirFiles, RegisteredIsOnDisk
<1>2. CASE ~MayBuild(a, f)
  BY <1>2, GotoFiles, Kinds DEF Build, FilesInv, RegisteredIsOnDisk, edition, doc
<1> QED
  BY <1>1, <1>2

LEMMA PublishFiles ==
  ASSUME TypeOK, FilesInv, NEW a \in Artifacts, NEW f \in Fences, PublishBuilt(a, f)
  PROVE  FilesInv'
<1>1. ThreadsHaveTheirFiles'
  BY GotoFiles, Kinds DEF PublishBuilt, doc
<1>2. CASE UNCHANGED <<current, registered>>
  BY <1>1, <1>2 DEF PublishBuilt, FilesInv, RegisteredIsOnDisk
<1>3. CASE ~UNCHANGED <<current, registered>>
  <2>1. Current(a, f) /\ registered' = registered \cup {a} /\ (current' = current \/ current' = a)
    BY <1>3 DEF PublishBuilt, CommitPublication
  <2>2. a \in built
    BY <2>1 DEF PublishBuilt, Current, FilesInv, ThreadsHaveTheirFiles
  <2> QED
    BY <1>1, <2>1, <2>2 DEF PublishBuilt, FilesInv, RegisteredIsOnDisk
<1> QED
  BY <1>2, <1>3

LEMMA FilesStep == TypeOK /\ FilesInv /\ [Next]_vars => FilesInv'
<1> SUFFICES ASSUME TypeOK, FilesInv, [Next]_vars PROVE FilesInv'
  OBVIOUS
<1>1. ASSUME NEW w \in Work, Claim(w) \/ LeaseExpires(w) \/ RecoverExpired(w) PROVE FilesInv'
  <2>1. CASE Claim(w)
    <3>1. fence[w] + 1 \in Fences
      <4>1. AttemptLimit[w] \in 1 .. MaxAttempts
        OBVIOUS
      <4> QED
        BY <2>1, <4>1 DEF Claim, TypeOK, Fences
    <3> QED
      BY <2>1, <3>1, GotoFiles DEF Claim, FilesInv, RegisteredIsOnDisk, edition, files, doc
  <2>2. CASE LeaseExpires(w) \/ RecoverExpired(w)
    BY <2>2, FilesFrame DEF LeaseExpires, RecoverExpired, edition
  <2> QED
    BY <1>1, <2>1, <2>2
<1>2. ASSUME NEW w \in Work, NEW f \in Fences, ThreadStep(w, f) \/ Raise(w, f) \/ Dies(w, f)
      PROVE  FilesInv'
  <2>1. CASE w \in Artifacts /\ (Build(w, f) \/ PublishBuilt(w, f))
    BY <2>1, BuildFiles, PublishFiles
  <2>2. CASE UpdateIndex(w, f) \/ HandleException(w, f) \/ Raise(w, f) \/ Dies(w, f)
    <3>1. PICK p \in {"raised", "done"} : Goto(w, f, p)
      BY <2>2 DEF UpdateIndex, HandleException, Raise, Dies
    <3>2. UNCHANGED <<current, files, doc>>
      BY <2>2 DEF UpdateIndex, HandleException, Raise, Dies, edition
    <3> QED
      BY <3>1, <3>2, GotoFiles DEF FilesInv, RegisteredIsOnDisk, files, doc
  <2> QED
    BY <1>2, <2>1, <2>2 DEF ThreadStep
<1>3. CASE Api
  <2>1. ASSUME NEW a \in Artifacts, Rollback(a) PROVE FilesInv'
    BY <2>1 DEF Rollback, Verified, CommitPublication, FilesInv, ThreadsHaveTheirFiles, RegisteredIsOnDisk, files, doc
  <2>2. CASE Unpublish
    BY <2>2 DEF Unpublish, CommitPublication, FilesInv, ThreadsHaveTheirFiles, RegisteredIsOnDisk, files, doc
  <2>3. CASE DeleteDocument
    BY <2>3 DEF DeleteDocument, FilesInv, ThreadsHaveTheirFiles, RegisteredIsOnDisk, edition, files
  <2>4. CASE NewDraft
    BY <2>4, FilesFrame DEF NewDraft
  <2>5. ASSUME NEW a \in Artifacts, NEW p \in BOOLEAN, RequestPublish(a, p) PROVE FilesInv'
    BY <2>5, FilesFrame DEF RequestPublish, edition
  <2>6. ASSUME NEW w \in Work, Pause(w) \/ Cancel(w) \/ Resume(w) PROVE FilesInv'
    BY <2>6, FilesFrame DEF Pause, Cancel, Resume, Control, edition
  <2> QED
    BY <1>3, <2>1, <2>2, <2>3, <2>4, <2>5, <2>6 DEF Api
<1>4. CASE Cleanup
  BY <1>4 DEF Cleanup, FilesInv, ThreadsHaveTheirFiles, RegisteredIsOnDisk
<1>5. ASSUME NEW a \in Artifacts, Retention(a) PROVE FilesInv'
  <2>1. \A b \in Artifacts, f \in Fences : phase[b][f] # "built"
    BY <1>5, Kinds DEF Retention
  <2> QED
    BY <1>5, <2>1 DEF Retention, Kept, FilesInv, ThreadsHaveTheirFiles, RegisteredIsOnDisk, edition, doc
<1>6. CASE UNCHANGED vars
  BY <1>6, FilesFrame DEF vars, edition
<1> QED
  BY <1>1, <1>2, <1>3, <1>4, <1>5, <1>6 DEF Next

\* What a cleanup removed stays away

LEMMA CleanStep ==
  TypeOK /\ ThreadsHaveTheirFiles /\ NothingOutlivesCleanup /\ [Next]_vars => NothingOutlivesCleanup'
<1> SUFFICES ASSUME TypeOK, ThreadsHaveTheirFiles, NothingOutlivesCleanup, [Next]_vars
             PROVE  NothingOutlivesCleanup'
  OBVIOUS
<1>0. cleaned => deleted
  BY DEF ThreadsHaveTheirFiles
<1>1. ASSUME NEW w \in Work, Claim(w) \/ LeaseExpires(w) \/ RecoverExpired(w)
      PROVE  NothingOutlivesCleanup'
  BY <1>1 DEF Claim, LeaseExpires, RecoverExpired, NothingOutlivesCleanup, edition, files, doc
<1>2. ASSUME NEW w \in Work, NEW f \in Fences, ThreadStep(w, f) \/ Raise(w, f) \/ Dies(w, f)
      PROVE  NothingOutlivesCleanup'
  <2>1. CASE Build(w, f)
    BY <1>0, <2>1 DEF Build, MayBuild, Current, NothingOutlivesCleanup, edition, doc
  <2>2. CASE PublishBuilt(w, f)
    BY <1>0, <2>2 DEF PublishBuilt, Current, NothingOutlivesCleanup, doc
  <2>3. CASE UpdateIndex(w, f)
    BY <1>0, <2>3 DEF UpdateIndex, Current, NothingOutlivesCleanup, edition, files, doc
  <2>4. CASE HandleException(w, f) \/ Raise(w, f) \/ Dies(w, f)
    BY <2>4 DEF HandleException, Raise, Dies, NothingOutlivesCleanup, edition, files, doc
  <2> QED
    BY <1>2, <2>1, <2>2, <2>3, <2>4 DEF ThreadStep
<1>3. CASE Api
  <2>1. ASSUME NEW a \in Artifacts, NEW p \in BOOLEAN, RequestPublish(a, p) \/ Rollback(a)
        PROVE  NothingOutlivesCleanup'
    BY <1>0, <2>1 DEF RequestPublish, Rollback, NothingOutlivesCleanup, edition, files, doc
  <2>2. CASE Unpublish \/ NewDraft \/ DeleteDocument
    BY <1>0, <2>2 DEF Unpublish, NewDraft, DeleteDocument, NothingOutlivesCleanup, edition, files, doc
  <2>3. ASSUME NEW w \in Work, Pause(w) \/ Cancel(w) \/ Resume(w) PROVE NothingOutlivesCleanup'
    BY <2>3 DEF Pause, Cancel, Resume, Control, NothingOutlivesCleanup, edition, files, doc
  <2> QED
    BY <1>3, <2>1, <2>2, <2>3 DEF Api
<1>4. CASE Cleanup \/ \E a \in Artifacts : Retention(a)
  BY <1>0, <1>4 DEF Cleanup, Retention, NothingOutlivesCleanup, edition, doc
<1>5. CASE UNCHANGED vars
  BY <1>5 DEF NothingOutlivesCleanup, vars, edition, files, doc
<1> QED
  BY <1>1, <1>2, <1>3, <1>4, <1>5 DEF Next

\* The log

LEMMA LogRows == TypeOK => \A i \in DOMAIN log : log[i] \in Row /\ log[i].generation \in Nat
<1> SUFFICES ASSUME TypeOK, NEW i \in DOMAIN log
             PROVE  log[i] \in Row /\ log[i].generation \in Nat
  OBVIOUS
<1>1. log \in Seq(Row)
  BY DEF TypeOK, Row
<1>2. log[i] \in Row
  BY <1>1
<1> QED
  BY <1>2, Kinds DEF Row

\* The row a commit appends is younger than all others.
LEMMA CommitLog ==
  ASSUME TypeOK, LogIsOrdered,
         NEW a \in Artifacts \cup {NoArtifact}, NEW op \in Operations, NEW job,
         NEW task \in [Work -> TaskStates],
         CommitPublication(a, op, job, task),
         \A b \in Artifacts : taskStatus[b] # NoTask => task[b] # NoTask,
         op = "publish" => a \in Artifacts /\ task[a] # NoTask /\ generation = expected[a],
         expected' = expected
  PROVE  LogIsOrdered'
<1> DEFINE r == [artifact |-> a, generation |-> generation + 1, operation |-> op]
<1>1. generation' = generation + 1 /\ generation \in Nat /\ generation + 1 \in Generations
  BY DEF TypeOK, CommitPublication, NextGeneration, Generations
<1>2. log' = Append(log, r) /\ log \in Seq(Row) /\ r \in Row
  BY <1>1 DEF TypeOK, CommitPublication, NextGeneration, Row
<1>3. /\ Len(log) \in Nat
      /\ DOMAIN log = 1 .. Len(log) /\ DOMAIN log' = 1 .. Len(log) + 1
      /\ \A i \in DOMAIN log : log'[i] = log[i]
      /\ log'[Len(log) + 1] = r
  BY <1>2, AppendRow
<1>4. \A i \in DOMAIN log : log[i] \in Row /\ log[i].generation \in Nat
  BY LogRows
<1>5. \A b \in Artifacts : taskStatus[b] # NoTask => taskStatus'[b] # NoTask
  BY Kinds DEF CommitPublication, NextGeneration, NoTask
<1>6. \A i \in DOMAIN log' : log'[i].generation <= generation'
  BY <1>1, <1>3, <1>4 DEF LogIsOrdered
<1>7. ASSUME NEW i \in DOMAIN log', NEW k \in DOMAIN log', i < k
      PROVE  log'[i].generation < log'[k].generation
  <2>1. CASE k \in DOMAIN log
    BY <1>3, <1>7, <2>1 DEF LogIsOrdered
  <2>2. CASE k = Len(log) + 1
    <3>1. i \in DOMAIN log /\ log'[k].generation = generation + 1
      BY <1>3, <1>7, <2>2
    <3>2. log'[i].generation <= generation /\ log'[i].generation \in Nat
      BY <1>3, <1>4, <3>1 DEF LogIsOrdered
    <3> QED
      BY <1>1, <3>1, <3>2
  <2> QED
    BY <1>3, <2>1, <2>2
<1>8. ASSUME NEW k \in DOMAIN log', log'[k].operation = "publish"
      PROVE  /\ log'[k].artifact \in Artifacts
             /\ taskStatus'[log'[k].artifact] # NoTask
             /\ log'[k].generation = expected[log'[k].artifact] + 1
  <2>1. CASE k \in DOMAIN log
    BY <1>3, <1>5, <1>8, <2>1 DEF LogIsOrdered
  <2>2. CASE k = Len(log) + 1
    <3>1. a \in Artifacts /\ task[a] # NoTask /\ generation = expected[a]
      BY <1>3, <1>8, <2>2
    <3>2. taskStatus'[a] # NoTask
      BY <3>1, Kinds DEF CommitPublication, NextGeneration, NoTask
    <3> QED
      BY <1>3, <2>2, <3>1, <3>2
  <2> QED
    BY <1>3, <2>1, <2>2
<1> QED
  BY <1>6, <1>7, <1>8 DEF LogIsOrdered

LEMMA LogFrame ==
  ASSUME LogIsOrdered,
         UNCHANGED <<edition, expected>>,
         \A a \in Artifacts : taskStatus[a] # NoTask => taskStatus'[a] # NoTask
  PROVE  LogIsOrdered'
  BY DEF LogIsOrdered, edition

\* A task that was asked for is never forgotten.
LEMMA TaskStays ==
  ASSUME TypeOK, NEW w \in Work, NEW s, s # NoTask, SetTask(w, s)
  PROVE  \A a \in Artifacts : taskStatus[a] # NoTask => taskStatus'[a] # NoTask
  BY Kinds DEF TypeOK, SetTask

LEMMA LogStep == TypeOK /\ LogIsOrdered /\ [Next]_vars => LogIsOrdered'
<1> SUFFICES ASSUME TypeOK, LogIsOrdered, [Next]_vars PROVE LogIsOrdered'
  OBVIOUS
<1>1. ASSUME NEW w \in Work, Claim(w) \/ LeaseExpires(w) \/ RecoverExpired(w) PROVE LogIsOrdered'
  <2>1. UNCHANGED <<edition, expected>>
    BY <1>1 DEF Claim, LeaseExpires, RecoverExpired, payload
  <2>2. taskStatus' = taskStatus \/ \E s \in TaskStates \ {NoTask} : SetTask(w, s)
    BY <1>1 DEF Claim, LeaseExpires, RecoverExpired, Recovered, Finish, TaskStates, NoTask
  <2> QED
    BY <2>1, <2>2, TaskStays, LogFrame
<1>2. ASSUME NEW w \in Work, NEW f \in Fences, ThreadStep(w, f) \/ Raise(w, f) \/ Dies(w, f)
      PROVE  LogIsOrdered'
  <2>1. CASE w \in Artifacts /\ PublishBuilt(w, f)
    <3> DEFINE job  == [jobStatus EXCEPT ![w] = "succeeded"]
               task == [taskStatus EXCEPT ![w] = "succeeded"]
    <3>1. /\ task \in [Work -> TaskStates] /\ task[w] # NoTask
          /\ \A b \in Artifacts : taskStatus[b] # NoTask => task[b] # NoTask
      BY Kinds DEF TypeOK, TaskStates, NoTask
    <3>2. expected' = expected
      BY <2>1 DEF PublishBuilt, payload
    <3>3. CASE CommitPublication(w, "publish", job, task) /\ ExpectedHolds(w)
      BY <2>1, <3>1, <3>2, <3>3, CommitLog DEF ExpectedHolds, Operations
    <3>4. CASE taskStatus' = task /\ UNCHANGED <<generation, current, log>>
      BY <3>1, <3>2, <3>4, LogFrame DEF edition
    <3>5. CASE UNCHANGED <<generation, current, log, taskStatus>>
      BY <3>2, <3>5, LogFrame DEF edition
    <3> QED
      BY <2>1, <3>3, <3>4, <3>5 DEF PublishBuilt
  <2>2. CASE Build(w, f) \/ UpdateIndex(w, f) \/ HandleException(w, f) \/ Raise(w, f) \/ Dies(w, f)
    <3>1. UNCHANGED <<edition, expected>>
      BY <2>2 DEF Build, UpdateIndex, HandleException, Raise, Dies, payload
    <3>2. taskStatus' = taskStatus \/ \E s \in TaskStates \ {NoTask} : SetTask(w, s)
      BY <2>2 DEF Build, UpdateIndex, HandleException, Raise, Dies, Finish, TaskStates, NoTask, tasks
    <3> QED
      BY <3>1, <3>2, TaskStays, LogFrame
  <2> QED
    BY <1>2, <2>1, <2>2 DEF ThreadStep
<1>3. CASE Api
  <2>1. ASSUME NEW a \in Artifacts, Rollback(a) PROVE LogIsOrdered'
    <3>1. CommitPublication(a, "rollback", jobStatus, taskStatus) /\ expected' = expected
      BY <2>1 DEF Rollback, payload
    <3> QED
      BY <3>1, CommitLog DEF Operations, TypeOK
  <2>2. CASE Unpublish
    <3>1. CommitPublication(NoArtifact, "unpublish", jobStatus, taskStatus) /\ expected' = expected
      BY <2>2 DEF Unpublish, payload
    <3> QED
      BY <3>1, CommitLog DEF Operations, TypeOK
  <2>3. CASE NewDraft
    <3>1. \A i \in DOMAIN log : log[i].generation \in Nat
      BY LogRows
    <3>2. generation \in Nat /\ generation' = generation + 1 /\ UNCHANGED <<log, expected, taskStatus>>
      BY <2>3 DEF NewDraft, TypeOK, Generations, payload, tasks
    <3> QED
      BY <3>1, <3>2 DEF LogIsOrdered
  <2>4. ASSUME NEW a \in Artifacts, NEW p \in BOOLEAN, RequestPublish(a, p) PROVE LogIsOrdered'
    <3>1. UNCHANGED edition /\ taskStatus[a] = NoTask /\ SetTask(a, "pending")
      BY <2>4 DEF RequestPublish, Finish
    <3>2. \A b \in Artifacts \ {a} : expected'[b] = expected[b]
      BY <2>4 DEF RequestPublish, TypeOK
    <3>3. \A b \in Artifacts : taskStatus[b] # NoTask => taskStatus'[b] # NoTask
      BY <3>1, Kinds, TaskStays DEF NoTask
    <3> QED
      BY <3>1, <3>2, <3>3 DEF LogIsOrdered, edition
  <2>5. ASSUME NEW w \in Work, Pause(w) \/ Cancel(w) \/ Resume(w) PROVE LogIsOrdered'
    BY <2>5, LogFrame DEF Pause, Cancel, Resume, Control, payload
  <2>6. CASE DeleteDocument
    BY <2>6, LogFrame DEF DeleteDocument, payload
  <2> QED
    BY <1>3, <2>1, <2>2, <2>3, <2>4, <2>5, <2>6 DEF Api
<1>4. CASE Cleanup
  BY <1>4 DEF Cleanup, LogIsOrdered
<1>5. ASSUME NEW a \in Artifacts, Retention(a) PROVE LogIsOrdered'
  BY <1>5, LogFrame DEF Retention, payload, tasks
<1>6. CASE UNCHANGED vars
  BY <1>6, LogFrame DEF vars, payload, tasks
<1> QED
  BY <1>1, <1>2, <1>3, <1>4, <1>5, <1>6 DEF Next

\* The search entry

EntryInv == EntryIsNotAhead /\ RowsOfGenerationAreCurrent

LEMMA EntryFrame ==
  ASSUME EntryInv, UNCHANGED <<generation, current, entry, deleted>>
  PROVE  EntryInv'
  BY DEF EntryInv, EntryIsNotAhead, RowsOfGenerationAreCurrent

\* Whatever raises the generation leaves every row behind.
LEMMA NextGenerationEntry ==
  ASSUME TypeOK, EntryInv, generation' = generation + 1, UNCHANGED entry
  PROVE  EntryInv'
<1>1. generation \in Nat /\ entry.generation \in Nat
  BY DEF TypeOK, Generations
<1> QED
  BY <1>1 DEF EntryInv, EntryIsNotAhead, RowsOfGenerationAreCurrent

LEMMA EntryStep == TypeOK /\ EntryInv /\ [Next]_vars => EntryInv'
<1> SUFFICES ASSUME TypeOK, EntryInv, [Next]_vars PROVE EntryInv'
  OBVIOUS
<1>1. ASSUME NEW w \in Work, Claim(w) \/ LeaseExpires(w) \/ RecoverExpired(w) PROVE EntryInv'
  BY <1>1, EntryFrame DEF Claim, LeaseExpires, RecoverExpired, edition, doc
<1>2. ASSUME NEW w \in Work, NEW f \in Fences, ThreadStep(w, f) \/ Raise(w, f) \/ Dies(w, f)
      PROVE  EntryInv'
  <2>1. CASE PublishBuilt(w, f)
    <3>1. CASE generation' = generation + 1
      BY <2>1, <3>1, NextGenerationEntry DEF PublishBuilt
    <3>2. CASE UNCHANGED <<generation, current>>
      BY <2>1, <3>2, EntryFrame DEF PublishBuilt, doc
    <3> QED
      BY <2>1, <3>1, <3>2 DEF PublishBuilt, CommitPublication, NextGeneration
  <2>2. CASE UpdateIndex(w, f)
    <3>1. CASE entry' = [artifact |-> current, generation |-> generation]
      <4>1. UNCHANGED <<generation, current>> /\ generation \in Nat
        BY <2>2 DEF UpdateIndex, TypeOK, Generations, edition
      <4> QED
        BY <3>1, <4>1 DEF EntryInv, EntryIsNotAhead, RowsOfGenerationAreCurrent
    <3>2. CASE entry' = entry
      BY <2>2, <3>2, EntryFrame DEF UpdateIndex, edition, doc
    <3> QED
      BY <2>2, <3>1, <3>2 DEF UpdateIndex
  <2>3. CASE Build(w, f) \/ HandleException(w, f) \/ Raise(w, f) \/ Dies(w, f)
    BY <2>3, EntryFrame DEF Build, HandleException, Raise, Dies, edition, doc
  <2> QED
    BY <1>2, <2>1, <2>2, <2>3 DEF ThreadStep
<1>3. CASE Api
  <2>1. ASSUME NEW a \in Artifacts, Rollback(a) PROVE EntryInv'
    BY <2>1, NextGenerationEntry DEF Rollback, CommitPublication, NextGeneration
  <2>2. CASE Unpublish \/ NewDraft
    BY <2>2, NextGenerationEntry DEF Unpublish, NewDraft, CommitPublication, NextGeneration
  <2>3. ASSUME NEW a \in Artifacts, NEW p \in BOOLEAN, RequestPublish(a, p) PROVE EntryInv'
    BY <2>3, EntryFrame DEF RequestPublish, edition, doc
  <2>4. ASSUME NEW w \in Work, Pause(w) \/ Cancel(w) \/ Resume(w) PROVE EntryInv'
    BY <2>4, EntryFrame DEF Pause, Cancel, Resume, Control, edition, doc
  <2>5. CASE DeleteDocument
    BY <2>5 DEF DeleteDocument, EntryInv, EntryIsNotAhead, RowsOfGenerationAreCurrent, edition
  <2> QED
    BY <1>3, <2>1, <2>2, <2>3, <2>4, <2>5 DEF Api
<1>4. CASE Cleanup
  <2>1. entry'.generation = 0 /\ generation' = generation /\ generation \in Nat /\ deleted'
    BY <1>4 DEF Cleanup, NoEntry, TypeOK, Generations
  <2> QED
    BY <2>1 DEF EntryInv, EntryIsNotAhead, RowsOfGenerationAreCurrent
<1>5. ASSUME NEW a \in Artifacts, Retention(a) PROVE EntryInv'
  BY <1>5, EntryFrame DEF Retention, edition, doc
<1>6. CASE UNCHANGED vars
  BY <1>6, EntryFrame DEF vars, edition, doc
<1> QED
  BY <1>1, <1>2, <1>3, <1>4, <1>5, <1>6 DEF Next

-----------------------------------------------------------------------------
(* The theorems                                                             *)

LEMMA InitInv == Init => PublicationInv
<1> SUFFICES ASSUME Init PROVE PublicationInv
  OBVIOUS
<1>1. \A a \in Artifacts, f \in Fences : phase[a][f] = "none"
  BY Kinds DEF Init
<1>2. ThreadsHaveTheirFiles /\ RegisteredIsOnDisk /\ NothingOutlivesCleanup
  BY <1>1 DEF Init, ThreadsHaveTheirFiles, RegisteredIsOnDisk, NothingOutlivesCleanup
<1>3. LogIsOrdered
  BY DEF Init, LogIsOrdered
<1>4. EntryIsNotAhead /\ RowsOfGenerationAreCurrent
  BY DEF Init, NoEntry, EntryIsNotAhead, RowsOfGenerationAreCurrent
<1> QED
  BY <1>2, <1>3, <1>4, InitTypeOK DEF PublicationInv

LEMMA NextInv == PublicationInv /\ [Next]_vars => PublicationInv'
  BY NextTypeOK, FilesStep, CleanStep, LogStep, EntryStep
  DEF PublicationInv, FilesInv, EntryInv

\* Every reachable state of the publication satisfies the inductive invariant.
THEOREM PublicationInvariance == Spec => []PublicationInv
<1>1. Init => PublicationInv
  BY InitInv
<1>2. PublicationInv /\ [Next]_vars => PublicationInv'
  BY NextInv
<1> QED
  BY <1>1, <1>2, PTL DEF Spec

\* Every variable keeps the values its column can hold, for every number of
\* artifacts and leases.
THEOREM PublicationTypeCorrect == Spec => []TypeOK
<1>1. PublicationInv => TypeOK
  BY DEF PublicationInv
<1> QED
  BY <1>1, PublicationInvariance, PTL

\* verify_artifact never fails for want of files: what a row names, or a reader
\* or a rollback is sent to, is on disk, whatever crashed, raced or was retained.
THEOREM RegisteredArtifactsComplete == Spec => []RegisteredIsOnDisk
<1>1. PublicationInv => RegisteredIsOnDisk
  BY DEF PublicationInv
<1> QED
  BY <1>1, PublicationInvariance, PTL

\* The compare-and-set of commit_publication makes a rollback or a withdrawal
\* final for every publication that was requested before it.
THEOREM DecisionsStand == Spec => []UserDecisionsStand
<1>1. PublicationInv => UserDecisionsStand
  <2> SUFFICES ASSUME TypeOK, LogIsOrdered, NEW i \in DOMAIN log, NEW k \in DOMAIN log,
                      i < k, log[k].operation = "publish"
               PROVE  expected[log[k].artifact] >= log[i].generation
    BY DEF PublicationInv, UserDecisionsStand
  <2>1. /\ log[k].artifact \in Artifacts
        /\ log[k].generation = expected[log[k].artifact] + 1
        /\ log[i].generation < log[k].generation
    BY DEF LogIsOrdered
  <2>2. expected[log[k].artifact] \in Nat /\ log[i].generation \in Nat
    BY <2>1, LogRows DEF TypeOK
  <2> QED
    BY <2>1, <2>2
<1> QED
  BY <1>1, PublicationInvariance, PTL

\* No text that was replaced passes the filter of the search, in whatever order
\* the index tasks run.
THEOREM SearchShowsCurrent == Spec => []RowsOfGenerationAreCurrent
<1>1. PublicationInv => RowsOfGenerationAreCurrent
  BY DEF PublicationInv
<1> QED
  BY <1>1, PublicationInvariance, PTL

\* No thread brings anything of a deleted document back after its cleanup.
THEOREM CleanupIsFinal == Spec => []NothingOutlivesCleanup
<1>1. PublicationInv => NothingOutlivesCleanup
  BY DEF PublicationInv
<1> QED
  BY <1>1, PublicationInvariance, PTL

-----------------------------------------------------------------------------
(* The publication implements Edition                                       *)

\* A task of an artifact exists from the moment a generation was noted for it.
Requested == \A a \in Artifacts : taskStatus[a] = NoTask <=> expected[a] = 0

LEMMA RequestedFrame ==
  ASSUME Requested, expected' = expected,
         \A a \in Artifacts : taskStatus'[a] = NoTask <=> taskStatus[a] = NoTask
  PROVE  Requested'
  BY DEF Requested

LEMMA TaskMoves ==
  ASSUME TypeOK, NEW w \in Work, NEW s, s # NoTask, SetTask(w, s), taskStatus[w] # NoTask
  PROVE  \A a \in Artifacts : taskStatus'[a] = NoTask <=> taskStatus[a] = NoTask
  BY Kinds DEF TypeOK, SetTask

\* The index task a commit queues is no artifact's.
LEMMA CommitMoves ==
  ASSUME TypeOK, NEW c, NEW op, NEW job, NEW task \in [Work -> TaskStates],
         CommitPublication(c, op, job, task)
  PROVE  \A a \in Artifacts : taskStatus'[a] = task[a]
<1>1. generation + 1 \in Generations
  BY DEF CommitPublication, TypeOK, Generations
<1>2. generation + 1 \notin Artifacts
  BY <1>1, Kinds
<1> QED
  BY <1>2, Kinds DEF CommitPublication, NextGeneration

LEMMA RequestedStep == TypeOK /\ Requested /\ [Next]_vars => Requested'
<1> SUFFICES ASSUME TypeOK, Requested, [Next]_vars PROVE Requested'
  OBVIOUS
<1>1. ASSUME NEW w \in Work, Claim(w) \/ LeaseExpires(w) \/ RecoverExpired(w) PROVE Requested'
  <2>1. expected' = expected
    BY <1>1 DEF Claim, LeaseExpires, RecoverExpired, payload
  <2>2. \/ taskStatus' = taskStatus
        \/ taskStatus[w] # NoTask /\ \E s \in TaskStates \ {NoTask} : SetTask(w, s)
    BY <1>1 DEF Claim, LeaseExpires, RecoverExpired, Recovered, Finish, TaskStates, NoTask
  <2> QED
    BY <2>1, <2>2, TaskMoves, RequestedFrame
<1>2. ASSUME NEW w \in Work, NEW f \in Fences, ThreadStep(w, f) \/ Raise(w, f) \/ Dies(w, f)
      PROVE  Requested'
  <2>1. CASE w \in Artifacts /\ PublishBuilt(w, f)
    <3> DEFINE job  == [jobStatus EXCEPT ![w] = "succeeded"]
               task == [taskStatus EXCEPT ![w] = "succeeded"]
    <3>1. expected' = expected
      BY <2>1 DEF PublishBuilt, payload
    <3>2. CASE UNCHANGED taskStatus
      BY <3>1, <3>2, RequestedFrame
    <3>3. CASE Current(w, f) /\ (taskStatus' = task \/ CommitPublication(w, "publish", job, task))
      <4>1. task \in [Work -> TaskStates]
        BY DEF TypeOK, TaskStates
      <4>2. \A a \in Artifacts : taskStatus'[a] = task[a]
        BY <3>3, <4>1, CommitMoves
      <4>3. \A a \in Artifacts : task[a] = NoTask <=> taskStatus[a] = NoTask
        BY <3>3, Kinds DEF Current, TypeOK, NoTask
      <4> QED
        BY <3>1, <4>2, <4>3, RequestedFrame
    <3> QED
      BY <2>1, <3>2, <3>3 DEF PublishBuilt
  <2>2. CASE Build(w, f) \/ UpdateIndex(w, f) \/ HandleException(w, f) \/ Raise(w, f) \/ Dies(w, f)
    <3>1. expected' = expected
      BY <2>2 DEF Build, UpdateIndex, HandleException, Raise, Dies, payload
    <3>2. \/ taskStatus' = taskStatus
          \/ taskStatus[w] # NoTask /\ \E s \in TaskStates \ {NoTask} : SetTask(w, s)
      BY <2>2 DEF Build, UpdateIndex, HandleException, Raise, Dies, Current, Finish, TaskStates, NoTask, tasks
    <3> QED
      BY <3>1, <3>2, TaskMoves, RequestedFrame
  <2> QED
    BY <1>2, <2>1, <2>2 DEF ThreadStep
<1>3. CASE Api
  <2>1. ASSUME NEW a \in Artifacts, Rollback(a) PROVE Requested'
    <3>1. CommitPublication(a, "rollback", jobStatus, taskStatus) /\ expected' = expected
      BY <2>1 DEF Rollback, payload
    <3>2. taskStatus \in [Work -> TaskStates]
      BY DEF TypeOK
    <3>3. \A b \in Artifacts : taskStatus'[b] = taskStatus[b]
      BY <3>1, <3>2, CommitMoves
    <3> QED
      BY <3>1, <3>3, RequestedFrame
  <2>2. CASE Unpublish
    <3>1. CommitPublication(NoArtifact, "unpublish", jobStatus, taskStatus) /\ expected' = expected
      BY <2>2 DEF Unpublish, payload
    <3>2. taskStatus \in [Work -> TaskStates]
      BY DEF TypeOK
    <3>3. \A b \in Artifacts : taskStatus'[b] = taskStatus[b]
      BY <3>1, <3>2, CommitMoves
    <3> QED
      BY <3>1, <3>3, RequestedFrame
  <2>3. ASSUME NEW a \in Artifacts, NEW p \in BOOLEAN, RequestPublish(a, p) PROVE Requested'
    <3>1. /\ expected' = [expected EXCEPT ![a] = generation]
          /\ taskStatus' = [taskStatus EXCEPT ![a] = "pending"]
          /\ generation # 0
      BY <2>3 DEF RequestPublish, Finish, SetTask, TypeOK, Generations
    <3> QED
      BY <3>1, Kinds DEF TypeOK, Requested, NoTask
  <2>4. CASE NewDraft \/ DeleteDocument \/ \E w \in Work : Pause(w) \/ Cancel(w) \/ Resume(w)
    BY <2>4, RequestedFrame DEF NewDraft, DeleteDocument, Pause, Cancel, Resume, Control, payload, tasks
  <2> QED
    BY <1>3, <2>1, <2>2, <2>3, <2>4 DEF Api
<1>4. CASE Cleanup
  <2>1. \A a \in Artifacts : taskStatus'[a] = NoTask <=> taskStatus[a] = NoTask
    BY <1>4, Kinds DEF Cleanup, NoTask
  <2> QED
    BY <1>4, <2>1, RequestedFrame DEF Cleanup, payload
<1>5. ASSUME NEW a \in Artifacts, Retention(a) PROVE Requested'
  BY <1>5, RequestedFrame DEF Retention, payload, tasks
<1>6. CASE UNCHANGED vars
  BY <1>6, RequestedFrame DEF vars, payload, tasks
<1> QED
  BY <1>1, <1>2, <1>3, <1>4, <1>5, <1>6 DEF Next

LEMMA RequestsRecorded == Spec => []Requested
<1>1. Init => Requested
  BY Kinds DEF Init, Requested
<1>2. TypeOK /\ Requested /\ [Next]_vars => Requested'
  BY RequestedStep
<1> QED
  BY <1>1, <1>2, PublicationTypeCorrect, PTL DEF Spec

\* What a reader of the edition sees of it.
Offered == registered \cap built
Found == IF entry.generation = generation THEN entry.artifact ELSE NoArtifact
Sight == <<generation, current, Offered, expected, Found, deleted>>

ReadersInv == PublicationInv /\ Requested

\* Nothing a reader sees changes.
LEMMA UnseenStep ==
  ASSUME UNCHANGED <<generation, current, expected, entry, deleted>>, Offered' = Offered
  PROVE  UNCHANGED Sight
  BY DEF Sight, Found

\* A decision leaves every row of the search behind.
LEMMA DecisionHides ==
  ASSUME PublicationInv, generation' = generation + 1, UNCHANGED entry
  PROVE  Found' = NoArtifact
<1>1. generation \in Nat /\ entry.generation \in Nat /\ entry.generation <= generation
  BY DEF PublicationInv, TypeOK, Generations, EntryIsNotAhead
<1> QED
  BY <1>1 DEF Found

LEMMA QueueUnseen ==
  ASSUME NEW w \in Work, Claim(w) \/ LeaseExpires(w) \/ RecoverExpired(w)
  PROVE  UNCHANGED Sight
<1>1. UNCHANGED <<generation, current, expected, entry, deleted, registered, built>>
  BY DEF Claim, LeaseExpires, RecoverExpired, edition, payload, files, doc
<1> QED
  BY <1>1, UnseenStep DEF Offered

\* A directory no row names is seen by nobody; one that is named is there.
LEMMA BuildUnseen ==
  ASSUME ReadersInv, NEW a \in Artifacts, NEW f \in Fences, Build(a, f)
  PROVE  UNCHANGED Sight
<1>1. UNCHANGED <<generation, current, expected, entry, deleted, registered>>
  BY DEF Build, edition, payload, doc
<1>2. registered \subseteq built /\ (built' = built \/ built' = built \cup {a})
  BY DEF Build, ReadersInv, PublicationInv, RegisteredIsOnDisk
<1> QED
  BY <1>1, <1>2, UnseenStep DEF Offered

\* The second transaction of a publication is one decision, or a preview.
LEMMA PublishSeen ==
  ASSUME ReadersInv, NEW a \in Artifacts, NEW f \in Fences, PublishBuilt(a, f)
  PROVE  Readers!Preview(a) \/ Readers!Publish(a) \/ UNCHANGED Sight
<1>1. UNCHANGED <<expected, built, entry, deleted>>
  BY DEF PublishBuilt, payload, doc
<1>2. CASE Current(a, f) /\ (preview[a] \/ ExpectedHolds(a))
  <2>1. ~deleted /\ ~deleted' /\ expected[a] # 0 /\ a \in built
    <3>1. taskStatus[a] # NoTask /\ ~deleted
      BY <1>2 DEF Current, NoTask
    <3> QED
      BY <1>1, <3>1 DEF PublishBuilt, ReadersInv, Requested, PublicationInv, ThreadsHaveTheirFiles
  <2>2. Offered' = Offered \cup {a}
    BY <1>1, <1>2, <2>1 DEF PublishBuilt, Offered
  <2>3. CASE preview[a]
    <3>1. UNCHANGED <<generation, current, expected, deleted>> /\ Found' = Found
      BY <1>1, <1>2, <2>3 DEF PublishBuilt, Found
    <3> QED
      BY <2>1, <2>2, <3>1 DEF Readers!Preview, Offered, Found
  <2>4. CASE ~preview[a]
    <3>1. generation' = generation + 1 /\ current' = a /\ expected[a] = generation
      BY <1>2, <2>4 DEF PublishBuilt, CommitPublication, NextGeneration, ExpectedHolds
    <3>2. Found' = NoArtifact
      BY <1>1, <3>1, DecisionHides DEF ReadersInv
    <3> QED
      BY <1>1, <2>1, <2>2, <3>1, <3>2 DEF Readers!Publish, Readers!Decide, Offered, Found
  <2> QED
    BY <2>3, <2>4
<1>3. CASE ~(Current(a, f) /\ (preview[a] \/ ExpectedHolds(a)))
  <2>1. UNCHANGED <<generation, current, registered>>
    BY <1>3 DEF PublishBuilt
  <2> QED
    BY <1>1, <2>1, UnseenStep DEF Offered
<1> QED
  BY <1>2, <1>3

\* The index task of the edition's generation shows what is current.
LEMMA IndexSeen ==
  ASSUME NEW g, NEW f, UpdateIndex(g, f)
  PROVE  Readers!Index \/ UNCHANGED Sight
<1>1. UNCHANGED <<generation, current, expected, deleted, registered, built>>
  BY DEF UpdateIndex, edition, payload, files, doc
<1>2. CASE Current(g, f) /\ StillWanted(g)
  <2>1. ~deleted /\ current # NoArtifact /\ entry' = [artifact |-> current, generation |-> generation]
    BY <1>2 DEF UpdateIndex, Current, StillWanted
  <2>2. Found' = current
    BY <1>1, <2>1 DEF Found
  <2> QED
    BY <1>1, <2>1, <2>2 DEF Readers!Index, Found
<1>3. CASE ~(Current(g, f) /\ StillWanted(g))
  <2>1. UNCHANGED entry
    BY <1>3 DEF UpdateIndex
  <2> QED
    BY <1>1, <2>1, UnseenStep DEF Offered
<1> QED
  BY <1>2, <1>3

LEMMA ThreadSeen ==
  ASSUME ReadersInv, NEW w \in Work, NEW f \in Fences, ThreadStep(w, f) \/ Raise(w, f) \/ Dies(w, f)
  PROVE  Readers!Next \/ UNCHANGED Sight
<1>1. CASE w \in Artifacts /\ (Build(w, f) \/ PublishBuilt(w, f))
  BY <1>1, BuildUnseen, PublishSeen DEF Readers!Next
<1>2. CASE UpdateIndex(w, f)
  BY <1>2, IndexSeen DEF Readers!Next
<1>3. CASE HandleException(w, f) \/ Raise(w, f) \/ Dies(w, f)
  <2>1. UNCHANGED <<generation, current, expected, entry, deleted, registered, built>>
    BY <1>3 DEF HandleException, Raise, Dies, edition, payload, files, doc
  <2> QED
    BY <2>1, UnseenStep DEF Offered
<1> QED
  BY <1>1, <1>2, <1>3 DEF ThreadStep

\* A call of the API is one decision, a request, or nothing a reader sees.
LEMMA ApiSeen ==
  ASSUME ReadersInv, Api
  PROVE  Readers!Next \/ UNCHANGED Sight
<1>1. ASSUME NEW a \in Artifacts, Rollback(a) PROVE Readers!Return(a)
  <2>1. /\ ~deleted /\ a \in Offered /\ generation' = generation + 1 /\ current' = a
        /\ UNCHANGED <<expected, registered, built, entry, deleted>>
    BY <1>1 DEF Rollback, Verified, CommitPublication, NextGeneration, Offered, payload, files, doc
  <2>2. Found' = NoArtifact
    BY <2>1, DecisionHides DEF ReadersInv
  <2> QED
    BY <2>1, <2>2 DEF Readers!Return, Readers!Decide, Offered, Found
<1>2. CASE Unpublish
  <2>1. /\ ~deleted /\ generation' = generation + 1 /\ current' = NoArtifact
        /\ UNCHANGED <<expected, registered, built, entry, deleted>>
    BY <1>2 DEF Unpublish, CommitPublication, NextGeneration, payload, files, doc
  <2>2. Found' = NoArtifact
    BY <2>1, DecisionHides DEF ReadersInv
  <2>3. Readers!Withdraw
    BY <2>1, <2>2 DEF Readers!Withdraw, Readers!Decide, Found
  <2> QED
    BY <2>3 DEF Readers!Next
<1>3. CASE NewDraft
  <2>1. /\ ~deleted /\ generation' = generation + 1 /\ current' = current
        /\ UNCHANGED <<expected, registered, built, entry, deleted>>
    BY <1>3 DEF NewDraft, payload, files, doc
  <2>2. Found' = NoArtifact
    BY <2>1, DecisionHides DEF ReadersInv
  <2>3. Readers!NewDraft
    BY <2>1, <2>2 DEF Readers!NewDraft, Readers!Decide, Found
  <2> QED
    BY <2>3 DEF Readers!Next
<1>4. ASSUME NEW a \in Artifacts, NEW p \in BOOLEAN, RequestPublish(a, p) PROVE Readers!Request(a)
  <2>1. /\ ~deleted /\ expected[a] = 0 /\ expected' = [expected EXCEPT ![a] = generation]
        /\ UNCHANGED <<generation, current, registered, built, entry, deleted>>
    BY <1>4 DEF RequestPublish, ReadersInv, Requested, edition, files, doc
  <2> QED
    BY <2>1 DEF Readers!Request
<1>5. CASE DeleteDocument
  <2>1. Readers!Delete
    BY <1>5 DEF DeleteDocument, Readers!Delete, edition, payload, files
  <2> QED
    BY <2>1 DEF Readers!Next
<1>6. ASSUME NEW w \in Work, Pause(w) \/ Cancel(w) \/ Resume(w) PROVE UNCHANGED Sight
  <2>1. UNCHANGED <<generation, current, expected, entry, deleted, registered, built>>
    BY <1>6 DEF Pause, Cancel, Resume, Control, edition, payload, files, doc
  <2> QED
    BY <2>1, UnseenStep DEF Offered
<1> QED
  BY <1>1, <1>2, <1>3, <1>4, <1>5, <1>6 DEF Api, Readers!Next

\* A cleanup erases; retention removes what no row names.
LEMMA RemovalSeen ==
  ASSUME ReadersInv, Cleanup \/ \E a \in Artifacts : Retention(a)
  PROVE  Readers!Next \/ UNCHANGED Sight
<1>1. CASE Cleanup
  <2>1. generation \in Nat \ {0}
    BY DEF ReadersInv, PublicationInv, TypeOK, Generations
  <2>2. /\ deleted /\ Offered' = {} /\ Found' = NoArtifact /\ current' = NoArtifact
        /\ UNCHANGED <<generation, expected, deleted>>
    BY <1>1, <2>1 DEF Cleanup, Offered, Found, NoEntry, payload
  <2>3. Readers!Erase
    BY <2>2 DEF Readers!Erase, Offered, Found
  <2> QED
    BY <2>3 DEF Readers!Next
<1>2. ASSUME NEW a \in Artifacts, Retention(a) PROVE UNCHANGED Sight
  <2>1. /\ UNCHANGED <<generation, current, expected, entry, deleted, registered>>
        /\ a \notin registered /\ built' = built \ {a}
    BY <1>2 DEF Retention, Kept, edition, payload, doc
  <2> QED
    BY <2>1, UnseenStep DEF Offered
<1> QED
  BY <1>1, <1>2

LEMMA StepSeen == ReadersInv /\ [Next]_vars => [Readers!Next]_(Readers!vars)
<1> SUFFICES ASSUME ReadersInv, [Next]_vars PROVE Readers!Next \/ UNCHANGED Sight
  BY DEF Readers!vars, Sight, Offered, Found
<1>1. CASE UNCHANGED vars
  <2>1. UNCHANGED <<generation, current, expected, entry, deleted, registered, built>>
    BY <1>1 DEF vars, edition, payload, files, doc
  <2> QED
    BY <2>1, UnseenStep DEF Offered
<1>2. CASE Next
  BY <1>2, QueueUnseen, ThreadSeen, ApiSeen, RemovalSeen DEF Next
<1> QED
  BY <1>1, <1>2

LEMMA InitSeen == Init => Readers!Init
  BY DEF Init, NoEntry, Readers!Init

\* What the workers, the API, the index tasks, cleanup and retention do to an
\* edition is, for its readers and publishers, what Edition says: every change
\* of the current artifact is one step, to a complete artifact, of a requester
\* who has seen the edition as it is.
THEOREM PublicationImplementsEdition == Spec => ImplementsEdition
<1>1. ReadersInv /\ [Next]_vars => [Readers!Next]_(Readers!vars)
  BY StepSeen
<1>2. Init => Readers!Init
  BY InitSeen
<1> QED
  BY <1>1, <1>2, PublicationInvariance, RequestsRecorded, PTL
  DEF Spec, ReadersInv, ImplementsEdition, Readers!Spec
===============================================================================
