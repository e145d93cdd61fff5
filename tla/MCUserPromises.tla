---------------------------- MODULE MCUserPromises -----------------------------
(***************************************************************************)
(* What the documentation and the tests tell a user about pausing a job,   *)
(* resuming it and resolving an uncertain charge, on instances of the      *)
(* queue.                                                                  *)
(* held remembers the jobs the user paused and has not released since; no  *)
(* action of the queue reads it.                                           *)
(***************************************************************************)
EXTENDS MCUnitQueue

VARIABLE held

HeldVars == <<vars, held>>

Release(j) == held' = held \ {j}

HeldInit == Init /\ held = {}

HeldNext ==
  \/ \E j \in Jobs :
       \/ Pause(j) /\ held' = held \cup {j}
       \/ Cancel(j) /\ UNCHANGED held
       \/ Resume(j) /\ Release(j)
  \/ \E t \in Tasks, f \in Fences :
       \/ ResolveRetry(t, f) /\ Release(JobOf[t])
       \/ Thread(t, f) /\ UNCHANGED held
  \/ \E t \in Tasks : Queue(t) /\ UNCHANGED held

HeldSpec == HeldInit /\ [][HeldNext]_HeldVars

\* docs/architecture.md:53 "Pausing prevents new dispatch permits but cannot
\* revoke requests already sent": no permit is reserved for a unit of a job
\* the user paused, until the user resumes it.
PausePreventsPermits ==
  [][\A t \in Tasks, f \in Fences :
       permit[t][f] = "none" /\ permit'[t][f] = "reserved" => JobOf[t] \notin held]_HeldVars

\* docs/task-model.md:108 "Unknown paid-provider outcomes remain unresolved
\* until explicitly reconciled or authorized", and the test
\* test_sibling_unknown_outcome_remains_resolvable: once every other unit of
\* the job is committed, a unit of unknown outcome can still be resolved by
\* the user, which needs a job that is outcome_unknown.
UnknownStaysResolvable ==
  \A t \in Tasks :
    /\ taskStatus[t] = "outcome_unknown"
    /\ \A u \in Units(JobOf[t]) \ {t} : taskStatus[u] = "succeeded"
    => jobStatus[JobOf[t]] = "outcome_unknown"

\* docs/task-model.md:106 "Resuming or safely retrying an existing task keeps
\* its task identity and records another attempt": a job put back to pending
\* has a unit for which another attempt can be recorded.
PendingJobHasWork ==
  \A j \in Jobs : jobStatus[j] = "pending" =>
    \E t \in Units(j) : taskStatus[t] \in {"pending", "leased", "outcome_unknown"}
================================================================================
