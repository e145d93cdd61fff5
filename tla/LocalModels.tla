------------------------------ MODULE LocalModels ------------------------------
(***************************************************************************)
(* The local model service: preparation threads that download, load and    *)
(* configure a model in the Docker Model Runner, the gate between them and *)
(* inference, and the translation units that prepare their model, poll for *)
(* it and then infer.  The runner evicts idle models on its own, the       *)
(* parser uses the same GPU, and the service may be restarted.             *)
(*                                                                         *)
(* Each named place of a thread is a point where another thread can run.   *)
(* Abstracted: hashes and sizes of downloads, one backend per model, the   *)
(* text of requests.  configured[m] says that the runner has m with the    *)
(* flags of the catalog; evicting a model removes its configuration.       *)
(***************************************************************************)
EXTENDS Naturals, FiniteSets

CONSTANTS
  Models, Backend,     \* the backend of each model: "mlx", "vllm" or "llama.cpp"
  Preinstalled,        \* models the runner has at the start
  LocalUnits, UnitModel,
  Threads,             \* names of preparation threads
  MaxRestarts          \* bound: restarts of the service

LocalModelsAssumption ==
  /\ Models # {} /\ Threads \cap LocalUnits = {} /\ "nobody" \notin Threads \cup LocalUnits
  /\ Backend \in [Models -> {"mlx", "vllm", "llama.cpp"}]
  /\ UnitModel \in [LocalUnits -> Models]
  /\ Preinstalled \subseteq Models
  /\ MaxRestarts \in Nat

VARIABLES
  status,       \* Manager.states
  installed, configured,  \* what the runner has
  preparing, prepares,    \* place and model of each preparation thread
  unitAt,       \* place of the worker of each unit
  cacheLock,    \* the thread that holds the lock of the cache
  writing, readers, writersWaiting,   \* InferenceGate
  restarts

modelVars == <<status, installed, configured, preparing, prepares, unitAt, cacheLock,
               writing, readers, writersWaiting, restarts>>

Nobody == "nobody"
Idle == "idle"
Holders == Threads \cup LocalUnits
Shared(m) == Backend[m] = "llama.cpp"
ModelOf(h) == IF h \in Threads THEN prepares[h] ELSE UnitModel[h]

gateVars == <<writing, readers, writersWaiting>>
prepVars == <<preparing, prepares>>
runnerVars == <<installed, configured>>

--------------------------------------------------------------------------------
(* The gate *)
QueueAtGate(h) ==
  /\ writersWaiting' = writersWaiting \cup {h}
  /\ UNCHANGED <<writing, readers>>

NoWriter == writing = Nobody   \* mutant: readers are not waited for
NobodyInside == writing = Nobody /\ readers = {}

EnterExclusive(h) ==
  /\ h \in writersWaiting
  /\ NobodyInside
  /\ writing' = h
  /\ writersWaiting' = writersWaiting \ {h}
  /\ UNCHANGED readers

EnterShared(h) ==
  /\ writing = Nobody /\ writersWaiting = {}
  /\ readers' = readers \cup {h}
  /\ UNCHANGED <<writing, writersWaiting>>

LeaveGateKeepReader(h) ==   \* mutant: a reader is not taken off the list
  /\ writing' = IF writing = h THEN Nobody ELSE writing
  /\ UNCHANGED <<readers, writersWaiting>>

LeaveGate(h) ==
  /\ writing' = IF writing = h THEN Nobody ELSE writing
  /\ readers' = readers \ {h}
  /\ UNCHANGED writersWaiting

(* reserve_gpu: only the Metal GPU is exclusive; what is in use, as by the *)
(* parser, is never evicted, and the reservation then fails.               *)
MayBeRefused(m) == Backend[m] = "mlx"
Evicted(m) == IF Backend[m] = "mlx" THEN {n \in Models : Backend[n] = "mlx" /\ n # m} ELSE {}
WithGpu(m) == [n \in Models |-> configured[n] /\ n \notin Evicted(m)]

--------------------------------------------------------------------------------
(* Preparation *)
Known(m) == IF status[m] \in {"downloading", "loading", "failed"} THEN status[m]
            ELSE IF installed[m] THEN "ready" ELSE "not_downloaded"

Downloads(m) == status[m] = "downloading"   \* mutant: loading is forgotten
PreparesAlready(m) == status[m] \in {"downloading", "loading"}
StillReady(m) == status[m] = "ready" /\ installed[m] /\ configured[m]

StartThread(m) ==
  \E p \in Threads :
    /\ preparing[p] = Idle
    /\ preparing' = [preparing EXCEPT ![p] = "start"]
    /\ prepares' = [prepares EXCEPT ![p] = m]
    /\ status' = [status EXCEPT ![m] = "downloading"]

(* POST /models/{id}/prepare, sent by every unit before it infers *)
Prepare(u) ==
  LET m == UnitModel[u]
  IN  /\ unitAt[u] = "start"
      /\ \E valid \in {StillReady(m), FALSE} :   \* or the runner does not answer
           /\ IF PreparesAlready(m) \/ valid THEN UNCHANGED <<status, prepVars>> ELSE StartThread(m)
           /\ unitAt' = [unitAt EXCEPT ![u] = IF valid THEN "prepared" ELSE "polling"]
      /\ UNCHANGED <<runnerVars, cacheLock, gateVars, restarts>>

PrepStep(p, from, to) ==
  /\ preparing[p] = from
  /\ preparing' = [preparing EXCEPT ![p] = to]
  /\ UNCHANGED <<prepares, unitAt, restarts>>

TakeCacheLock(p) ==
  /\ PrepStep(p, "start", "cache")
  /\ cacheLock = Nobody /\ cacheLock' = p
  /\ UNCHANGED <<status, runnerVars, gateVars>>

(* download and load; the runner then has the model, not yet its flags *)
Download(p) ==
  /\ ~installed[prepares[p]]
  /\ PrepStep(p, "cache", "load")
  /\ status' = [status EXCEPT ![prepares[p]] = "loading"]
  /\ UNCHANGED <<runnerVars, cacheLock, gateVars>>

Load(p) ==
  /\ PrepStep(p, "load", "cache")
  /\ installed' = [installed EXCEPT ![prepares[p]] = TRUE]
  /\ UNCHANGED <<status, configured, cacheLock, gateVars>>

AskForGate(p) ==
  /\ installed[prepares[p]]
  /\ PrepStep(p, "cache", "gate")
  /\ QueueAtGate(p)
  /\ UNCHANGED <<status, runnerVars, cacheLock>>

PrepEnters(p) ==
  /\ PrepStep(p, "gate", "inside")
  /\ EnterExclusive(p)
  /\ UNCHANGED <<status, runnerVars, cacheLock>>

Configure(p) ==
  /\ PrepStep(p, "inside", "configured")
  /\ configured' = [WithGpu(prepares[p]) EXCEPT ![prepares[p]] = TRUE]
  /\ LeaveGate(p)
  /\ cacheLock' = Nobody
  /\ UNCHANGED <<status, installed>>

PrepReady(p) ==
  /\ PrepStep(p, "configured", Idle)
  /\ status' = [status EXCEPT ![prepares[p]] = "ready"]
  /\ UNCHANGED <<runnerVars, cacheLock, gateVars>>

(* An error of the backend, the network, a hash, the clock or reserve_gpu  *)
(* unwinds both locks.  At the gate itself nothing can fail.               *)
PrepFails(p) ==
  /\ preparing[p] \in {"start", "cache", "load", "inside", "configured"}
  /\ PrepStep(p, preparing[p], Idle)
  /\ status' = [status EXCEPT ![prepares[p]] = "failed"]
  /\ cacheLock' = IF cacheLock = p THEN Nobody ELSE cacheLock
  /\ LeaveGate(p)
  /\ UNCHANGED runnerVars

--------------------------------------------------------------------------------
(* Inference *)
UnitStep(u, from, to) ==
  /\ unitAt[u] = from
  /\ unitAt' = [unitAt EXCEPT ![u] = to]
  /\ UNCHANGED <<status, prepVars, cacheLock, restarts>>

Poll(u) ==
  /\ UnitStep(u, "polling", IF Known(UnitModel[u]) = "ready" THEN "prepared" ELSE "ended")
  /\ Known(UnitModel[u]) \in {"ready", "failed"}
  /\ UNCHANGED <<runnerVars, gateVars>>

PollTimesOut(u) == UnitStep(u, "polling", "ended") /\ UNCHANGED <<runnerVars, gateVars>>

(* POST /v1/completions *)
AskToInfer(u) ==
  IF Known(UnitModel[u]) # "ready"
    THEN UnitStep(u, "prepared", "ended") /\ UNCHANGED <<runnerVars, gateVars>>
    ELSE /\ UnitStep(u, "prepared", "gate")
         /\ IF Shared(UnitModel[u]) THEN UNCHANGED gateVars ELSE QueueAtGate(u)
         /\ UNCHANGED runnerVars

UnitEnters(u) ==
  /\ UnitStep(u, "gate", "inside")
  /\ IF Shared(UnitModel[u]) THEN EnterShared(u) ELSE EnterExclusive(u)
  /\ UNCHANGED runnerVars

(* Inside the gate the GPU is reserved and the configuration read again.  *)
Infer(u) ==
  LET m == UnitModel[u] IN
  \E refused \in {FALSE, MayBeRefused(m)} :
    /\ configured' = IF refused THEN configured ELSE WithGpu(m)
    /\ UNCHANGED installed
    /\ IF refused \/ ~configured[m]
         THEN UnitStep(u, "inside", "ended") /\ LeaveGate(u)
         ELSE UnitStep(u, "inside", "inferring") /\ UNCHANGED gateVars

Inferred(u) ==
  /\ UnitStep(u, "inferring", "ended")
  /\ LeaveGate(u)
  /\ UNCHANGED runnerVars

--------------------------------------------------------------------------------
(* The environment *)
InUse(m) == \E u \in LocalUnits : unitAt[u] = "inferring" /\ UnitModel[u] = m

(* keep_alive has passed since the last request *)
IdleEviction(m) ==
  /\ configured[m] /\ ~InUse(m)
  /\ configured' = [configured EXCEPT ![m] = FALSE]
  /\ UNCHANGED <<status, installed, prepVars, unitAt, cacheLock, gateVars, restarts>>

(* Threads and gate are gone; requests inside end with a lost connection.  *)
Restart ==
  /\ restarts < MaxRestarts
  /\ restarts' = restarts + 1
  /\ status' = [m \in Models |-> "none"]
  /\ preparing' = [p \in Threads |-> Idle]
  /\ cacheLock' = Nobody
  /\ writing' = Nobody /\ readers' = {} /\ writersWaiting' = {}
  /\ unitAt' = [u \in LocalUnits |-> IF unitAt[u] \in {"gate", "inside", "inferring"}
                                       THEN "ended" ELSE unitAt[u]]
  /\ UNCHANGED <<runnerVars, prepares>>

Init ==
  /\ status = [m \in Models |-> "none"]
  /\ installed = [m \in Models |-> m \in Preinstalled]
  /\ configured = [m \in Models |-> FALSE]
  /\ preparing = [p \in Threads |-> Idle]
  /\ prepares \in {[p \in Threads |-> CHOOSE m \in Models : TRUE]}
  /\ unitAt = [u \in LocalUnits |-> "start"]
  /\ cacheLock = Nobody
  /\ writing = Nobody /\ readers = {} /\ writersWaiting = {}
  /\ restarts = 0

PrepThread(p) == \/ TakeCacheLock(p) \/ Download(p) \/ Load(p) \/ AskForGate(p)
                 \/ PrepEnters(p) \/ Configure(p) \/ PrepReady(p) \/ PrepFails(p)
UnitThread(u) == \/ Prepare(u) \/ Poll(u) \/ PollTimesOut(u) \/ AskToInfer(u)
                 \/ UnitEnters(u) \/ Infer(u) \/ Inferred(u)

Next ==
  \/ \E p \in Threads : PrepThread(p)
  \/ \E u \in LocalUnits : UnitThread(u)
  \/ \E m \in Models : IdleEviction(m)
  \/ Restart

(* Threads run, requests have timeouts, the clock of a poller advances.    *)
Fairness ==
  /\ \A p \in Threads : WF_modelVars(PrepThread(p))
  /\ \A u \in LocalUnits : WF_modelVars(UnitThread(u))

Spec == Init /\ [][Next]_modelVars /\ Fairness

--------------------------------------------------------------------------------
(* Every variable has a value its field can hold. *)
TypeOK ==
  /\ status \in [Models -> {"none", "downloading", "loading", "ready", "failed"}]
  /\ installed \in [Models -> BOOLEAN] /\ configured \in [Models -> BOOLEAN]
  /\ preparing \in [Threads -> {Idle, "start", "cache", "load", "gate", "inside", "configured"}]
  /\ prepares \in [Threads -> Models]
  /\ unitAt \in [LocalUnits -> {"start", "polling", "prepared", "gate", "inside", "inferring", "ended"}]
  /\ cacheLock \in Threads \cup {Nobody}
  /\ writing \in Holders \cup {Nobody}
  /\ readers \subseteq LocalUnits /\ writersWaiting \subseteq Holders
  /\ restarts \in Nat

(* Every unit asks for its model while others prepare it or infer with it: *)
(* two threads never prepare the same model (local_models/service.py:213), *)
(* and while a unit infers, no step of the service takes the configuration *)
(* of its model away, evicts it from the GPU, or runs another request on a *)
(* GPU that it has exclusively (local_models/service.py:29-56, 252, 377).  *)
InferenceUndisturbed ==
  /\ \A p, q \in Threads :
       p # q /\ preparing[p] # Idle /\ preparing[q] # Idle => prepares[p] # prepares[q]
  /\ \A u \in LocalUnits : unitAt[u] = "inferring" =>
       /\ configured[UnitModel[u]]
       /\ \A p \in Threads : preparing[p] # "inside"
       /\ \A v \in LocalUnits \ {u} : unitAt[v] = "inferring" =>
            Shared(UnitModel[u]) /\ Shared(UnitModel[v])

(* Whatever fails, waits or restarts, every unit leaves the service with   *)
(* an answer or a refusal: the priority of preparations at the gate does   *)
(* not keep inference out for ever (local_models/service.py:49).           *)
AllLeft == \A u \in LocalUnits : unitAt[u] = "ended"
EveryUnitLeaves == <>AllLeft
================================================================================
