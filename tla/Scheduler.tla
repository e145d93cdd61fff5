------------------------------- MODULE Scheduler -------------------------------
(***************************************************************************)
(* The admission of tasks: which pending task of which job a claim leases, *)
(* given the concurrency limits, the memory the running tasks may need and *)
(* what telemetry reports.  Jobs are tried in the order of their last      *)
(* claim.  Memory is counted in units of 256 MiB.                          *)
(*                                                                         *)
(* Abstracted: units of one job are alike, so a job stands for its tasks;  *)
(* one model per job; VRAM is treated by the code as RAM is, for the       *)
(* models that do not share memory, and only RAM is kept here.             *)
(***************************************************************************)
EXTENDS Integers, Sequences, FiniteSets, FiniteSetsExt, SequencesExt, Functions

CONSTANTS
  MasterJobs, ChildJobs,  \* jobs; a child is accounted to its owner
  Owner,                  \* the main job of every job
  Parsing,                \* jobs whose tasks go through the serial parser
  JobModel, NoModel,      \* local model of the tasks of a job
  ModelSize,              \* its reference for RAM
  Masters, Children,      \* master_concurrency, subjob_concurrency
  WorkerLimit,
  RamTotal, Percents,     \* memory and the values an operator may set for max_ram_percent
  OtherUse,               \* what other programs may use
  MaxTasks                \* bound: tasks a job may still create

AllJobs == MasterJobs \cup ChildJobs
AllModels == {JobModel[j] : j \in AllJobs} \ {NoModel}

SchedulerAssumption ==
  /\ IsFiniteSet(AllJobs)
  /\ Owner \in [AllJobs -> MasterJobs]
  /\ Parsing \subseteq AllJobs
  /\ ModelSize \in [AllModels -> Nat]
  /\ Masters \in Nat \ {0} /\ Children \in Nat \ {0} /\ WorkerLimit \in Nat \ {0}
  /\ RamTotal \in Nat \ {0} /\ Percents \subseteq 1 .. 100 /\ OtherUse \subseteq Nat
  /\ MaxTasks \in Nat

VARIABLES
  order,      \* jobs by their last claim, the longest waiting first
  ready,      \* pending tasks of each job that may be claimed now
  left,       \* tasks the job will still get
  running,    \* leased tasks of each job
  resident,   \* models the runner has in memory
  percent,    \* max_ram_percent
  otherUse,
  overtaken,  \* claims of k since j could first have been claimed (history)
  admitted    \* the demand of the last claim and its budget (history)

schedVars == <<order, ready, left, running, resident, percent, otherUse, overtaken, admitted>>

Count(f, S) == MapThenSumSet(LAMBDA j : f[j], S)
OwnedBy(root) == {j \in AllJobs : Owner[j] = root}
ActiveRoots == {Owner[j] : j \in {k \in AllJobs : running[k] > 0}}

(* Memory of the running tasks with one more of job j, each model once;    *)
(* resident models are in the measured use already.                        *)
Scratch(j) == IF j \in Parsing THEN 8 ELSE 1
With(j) == [running EXCEPT ![j] = @ + 1]
ModelsOf(tasks) == {JobModel[j] : j \in {k \in AllJobs : tasks[k] > 0}} \ {NoModel}
SizeOf(models) == MapThenSumSet(LAMBDA m : ModelSize[m], models)
ExtraOfStarted(tasks) ==   \* mutant: the model of a running task counts as loaded
  MapThenSumSet(LAMBDA j : tasks[j] * Scratch(j), AllJobs)
    + SizeOf(ModelsOf(tasks) \ (resident \cup ModelsOf(running)))
Extra(tasks) ==
  MapThenSumSet(LAMBDA j : tasks[j] * Scratch(j), AllJobs) + SizeOf(ModelsOf(tasks) \ resident)
Used == otherUse + SizeOf(resident)
Budget == RamTotal * percent

(* limits with auto_concurrency: both ceilings are lowered to what memory  *)
(* is left, but never below one.                                           *)
Least(a, b) == IF a <= b THEN a ELSE b
AtLeastOne(a) == IF a >= 1 THEN a ELSE 1
LeftOver == IF Budget >= 100 * Used THEN (Budget - 100 * Used) \div 100 ELSE 0
MasterLimit == AtLeastOne(Least(Masters, LeftOver \div 8))
ChildLimit == Least(AtLeastOne(Least(Children, LeftOver \div MasterLimit)), WorkerLimit)

Admissible(j) ==
  /\ Count(running, AllJobs) < WorkerLimit
  /\ Owner[j] \in ActiveRoots \/ Cardinality(ActiveRoots) < MasterLimit
  /\ Count(running, OwnedBy(Owner[j])) < ChildLimit
  /\ j \in Parsing => Count(running, Parsing) = 0
  /\ 100 * (Used + Extra(With(j))) <= Budget

Claimable(j) == ready[j] > 0 /\ Admissible(j)

StayInPlace(s, i) == s   \* mutant: the order of creation
MoveToEnd(s, i) == Append(RemoveAt(s, i), s[i])

(* The count of claims of k that went before j starts anew whenever j is   *)
(* claimed or cannot be claimed.                                           *)
Overtakes(j) ==
  [k \in AllJobs |-> [l \in AllJobs |->
     IF k = j \/ ~Claimable(k) THEN 0 ELSE overtaken[k][l] + (IF l = j THEN 1 ELSE 0)]]

Claim ==
  \E i \in DOMAIN order :
    LET j == order[i] IN
    /\ Claimable(j)
    /\ \A k \in 1 .. i - 1 : ~Claimable(order[k])
    /\ ready' = [ready EXCEPT ![j] = @ - 1]
    /\ running' = With(j)
    /\ order' = MoveToEnd(order, i)
    /\ overtaken' = Overtakes(j)
    /\ admitted' = [needs |-> 100 * (Used + Extra(With(j))), budget |-> Budget]
    /\ UNCHANGED <<left, resident, percent, otherUse>>

(* The task ends, or waits for a retry; the job may get further tasks.     *)
Release(j) ==
  /\ running[j] > 0
  /\ running' = [running EXCEPT ![j] = @ - 1]
  /\ UNCHANGED <<order, ready, left, resident, percent, otherUse, overtaken, admitted>>

NewTask(j) ==
  /\ left[j] > 0
  /\ left' = [left EXCEPT ![j] = @ - 1]
  /\ ready' = [ready EXCEPT ![j] = @ + 1]
  /\ UNCHANGED <<order, running, resident, percent, otherUse, overtaken, admitted>>

LoadModel(m) ==
  /\ m \in ModelsOf(running) /\ m \notin resident
  /\ resident' = resident \cup {m}
  /\ UNCHANGED <<order, ready, left, running, percent, otherUse, overtaken, admitted>>

UnloadModel(m) ==
  /\ m \in resident \ ModelsOf(running)
  /\ resident' = resident \ {m}
  /\ UNCHANGED <<order, ready, left, running, percent, otherUse, overtaken, admitted>>

ChangePolicy(p) ==
  /\ percent' = p
  /\ UNCHANGED <<order, ready, left, running, resident, otherUse, overtaken, admitted>>

OthersUse(u) ==
  /\ otherUse' = u
  /\ UNCHANGED <<order, ready, left, running, resident, percent, overtaken, admitted>>

Init ==
  /\ order = SetToSeq(AllJobs)
  /\ ready = [j \in AllJobs |-> 0]
  /\ left = [j \in AllJobs |-> MaxTasks]
  /\ running = [j \in AllJobs |-> 0]
  /\ resident = {} /\ percent \in Percents /\ otherUse = 0
  /\ overtaken = [k \in AllJobs |-> [l \in AllJobs |-> 0]]
  /\ admitted = [needs |-> 0, budget |-> 0]

Next ==
  \/ Claim
  \/ \E j \in AllJobs : Release(j) \/ NewTask(j)
  \/ \E m \in AllModels : LoadModel(m) \/ UnloadModel(m)
  \/ \E p \in Percents : ChangePolicy(p)
  \/ \E u \in OtherUse : OthersUse(u)

Spec == Init /\ [][Next]_schedVars

--------------------------------------------------------------------------------
(* Every variable has a value the rows or the telemetry can give. *)
TypeOK ==
  /\ order \in SetToSeqs(AllJobs)
  /\ ready \in [AllJobs -> Nat] /\ left \in [AllJobs -> Nat] /\ running \in [AllJobs -> Nat]
  /\ resident \subseteq AllModels /\ percent \in Percents /\ otherUse \in Nat

(* Loading the models of everything that runs never needs more memory than *)
(* the operator allowed when the last task was admitted: a model that      *)
(* several jobs use is counted once, and one that is not loaded yet counts *)
(* as if it were (resources/scheduler.py:50-90).                           *)
DemandWithinBudget ==
  admitted.budget > 0 => 100 * SizeOf(ModelsOf(running)) <= admitted.budget

(* A large document cannot monopolize the workers: while a job could be    *)
(* claimed, any other job is claimed at most once before it, whatever both *)
(* finish and retry (jobs/queue.py:52-65).                                 *)
NoMonopoly == \A j, k \in AllJobs : overtaken[j][k] <= 1
================================================================================
