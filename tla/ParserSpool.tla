------------------------------ MODULE ParserSpool ------------------------------
(***************************************************************************)
(* The file protocol between the workers and the parser for one parse      *)
(* task.  A worker writes a request under the fence of its lease and polls *)
(* for the result; the parser, one process without a database, finds       *)
(* requests, runs one child at a time and answers; the cleanup of a        *)
(* deleted document marks the task, erases it and expects the parser to    *)
(* remove what it still writes.  Each process takes its file operations    *)
(* one by one, and the parser may be restarted at any of them.             *)
(***************************************************************************)
EXTENDS Naturals

CONSTANTS
  MaxFence,      \* bound: leases of the task
  MaxRestarts    \* bound: restarts of the parser

ParserSpoolAssumption == MaxFence \in Nat \ {0} /\ MaxRestarts \in Nat

VARIABLES
  job, fence,     \* the parse job; the fence of the task's last lease
  worker,         \* of each lease: where its thread is
  original, request,   \* fences with original.pdf, with request.json
  marker, cleanup,     \* cancelled.json of the inputs; progress of the cleanup
  outputs,        \* of each fence: the files in its output directory
  outcome,        \* of each fence: the status in its result.json
  parser, at,     \* what the parser does, and the fence it does it for
  child,          \* its child process
  runs, restarts  \* children started for each fence (history), restarts

spoolVars == <<job, fence, worker, original, request, marker, cleanup, outputs, outcome,
               parser, at, child, runs, restarts>>
leaseVars == <<job, fence, worker>>
inputVars == <<original, request, marker, cleanup>>
parserVars == <<outputs, outcome, parser, at, child, runs, restarts>>

Fences == 1 .. MaxFence
Nothing == [f \in Fences |-> {}]
Current(f) == job = "live" /\ fence = f

--------------------------------------------------------------------------------
(* parse_spool: the worker's descriptor, its request and the polling.      *)
WorkerStep(f, from, to) == worker[f] = from /\ worker' = [worker EXCEPT ![f] = to]

Claim ==
  /\ job = "live" /\ fence = 0
  /\ fence' = 1
  /\ worker' = [worker EXCEPT ![1] = "described"]
  /\ UNCHANGED <<job, inputVars, parserVars>>

(* The source file may be gone with the last document that used it. *)
CopyOriginal(f) ==
  /\ WorkerStep(f, "described", "copied")
  /\ original' = original \cup {f}
  /\ UNCHANGED <<job, fence, request, marker, cleanup, parserVars>>

WriteRequest(f) ==
  /\ f \in original
  /\ WorkerStep(f, "copied", "polling")
  /\ request' = request \cup {f}
  /\ UNCHANGED <<job, fence, original, marker, cleanup, parserVars>>

(* A missing file, a stale lease, a negative result or the deadline of the *)
(* worker ends the thread; the job fails if the thread may still write.    *)
WorkerGivesUp(f) ==
  /\ worker[f] \in {"described", "copied", "polling", "verified"}
  /\ worker' = [worker EXCEPT ![f] = "out"]
  /\ job' = IF Current(f) THEN "failed" ELSE job
  /\ UNCHANGED <<fence, inputVars, parserVars>>

Verified(f) == outcome[f] = "succeeded" /\ "payload" \in outputs[f]

Verify(f) ==
  /\ Current(f) /\ Verified(f)
  /\ WorkerStep(f, "polling", "verified")
  /\ UNCHANGED <<job, fence, inputVars, parserVars>>

Commit(f) ==
  /\ Current(f) /\ Verified(f)
  /\ WorkerStep(f, "verified", "out")
  /\ job' = "done"
  /\ UNCHANGED <<fence, inputVars, parserVars>>

(* The thread dies or hangs until its lease is recovered; another lease    *)
(* follows while the thread goes on.                                       *)
LeaseLost ==
  /\ job = "live" /\ 0 < fence /\ fence < MaxFence
  /\ fence' = fence + 1
  /\ worker' = [worker EXCEPT ![fence + 1] = "described"]
  /\ UNCHANGED <<job, inputVars, parserVars>>

CancelJob ==
  /\ job = "live" /\ job' = "cancelled"
  /\ UNCHANGED <<fence, worker, inputVars, parserVars>>

(* cleanup_document, after the document was deleted: erase_parser_task.    *)
MarkErased ==
  /\ cleanup = "none" /\ cleanup' = "marked" /\ marker' = TRUE
  /\ job' = IF job = "live" THEN "cancelled" ELSE job
  /\ UNCHANGED <<fence, worker, original, request, parserVars>>

EraseTask ==
  /\ cleanup = "marked" /\ cleanup' = "erased"
  /\ original' = {} /\ request' = {}
  /\ outputs' = Nothing /\ outcome' = [f \in Fences |-> "none"]
  /\ UNCHANGED <<leaseVars, marker, parser, at, child, runs, restarts>>

--------------------------------------------------------------------------------
(* run_once of the parser.                                                 *)
ParserStep(from, to) == parser = from /\ parser' = to
Remove ==
  /\ outputs' = Nothing
  /\ outcome' = [f \in Fences |-> "none"]

(* The sweep over the markers at the start of every pass. *)
NoSweep == FALSE   \* mutant
Sweep == marker /\ outputs # Nothing

SweepCancelled ==
  /\ Sweep /\ parser = "idle"
  /\ Remove
  /\ UNCHANGED <<leaseVars, inputVars, parser, at, child, runs, restarts>>

Pick(f) ==
  /\ f \in request /\ ~marker /\ outcome[f] = "none"
  /\ ParserStep("idle", "picked") /\ at' = f
  /\ UNCHANGED <<leaseVars, inputVars, outputs, outcome, child, runs, restarts>>

Unstarted == FALSE   \* mutant: a started attempt is run again
Started == "started" \in outputs[at]

StartAttempt ==
  /\ ~Started
  /\ ParserStep("picked", "started")
  /\ outputs' = [outputs EXCEPT ![at] = @ \cup {"started"}]
  /\ UNCHANGED <<leaseVars, inputVars, outcome, at, child, runs, restarts>>

(* A result can only be written while the directory is there; otherwise    *)
(* the request is left alone.                                              *)
Finish(status) ==
  IF outputs[at] = {} THEN UNCHANGED <<outputs, outcome>>
  ELSE /\ outcome' = [outcome EXCEPT ![at] = status]
       /\ outputs' = [outputs EXCEPT ![at] = @ \cup {"result"}]

Interrupted ==
  /\ Started
  /\ ParserStep("picked", "answered")
  /\ Finish("interrupted")
  /\ UNCHANGED <<leaseVars, inputVars, at, child, runs, restarts>>

(* The deadline has passed, or the recorded deployment is unavailable. *)
Refuse ==
  /\ ParserStep("started", "answered")
  /\ Finish("failed")
  /\ UNCHANGED <<leaseVars, inputVars, at, child, runs, restarts>>

(* The original was erased in the meantime: the request is skipped. *)
Skip ==
  /\ at \notin original
  /\ ParserStep("started", "idle")
  /\ UNCHANGED <<leaseVars, inputVars, outputs, outcome, at, child, runs, restarts>>

Launch ==
  /\ at \in original
  /\ ParserStep("started", "running")
  /\ child' = "running" /\ runs' = [runs EXCEPT ![at] = @ + 1]
  /\ UNCHANGED <<leaseVars, inputVars, outputs, outcome, at, restarts>>

(* The child writes its payload or an error, or is ended by its limits. *)
ChildEnds(file) ==
  /\ child = "running" /\ child' = IF outputs[at] = {} THEN "broken" ELSE file
  /\ outputs' = IF outputs[at] = {} \/ file = "broken" THEN outputs
                ELSE [outputs EXCEPT ![at] = @ \cup {file}]
  /\ UNCHANGED <<leaseVars, inputVars, outcome, parser, at, runs, restarts>>

ErasedByParser(from) ==
  /\ marker
  /\ ParserStep(from, "idle") /\ child' = "none"
  /\ Remove
  /\ UNCHANGED <<leaseVars, inputVars, at, runs, restarts>>

ChildDone ==
  /\ child # "running" /\ ~marker
  /\ ParserStep("running", "finishing")
  /\ UNCHANGED <<leaseVars, inputVars, outputs, outcome, at, child, runs, restarts>>

TimedOut ==
  /\ child = "running" /\ ~marker
  /\ ParserStep("running", "finishing") /\ child' = "broken"
  /\ UNCHANGED <<leaseVars, inputVars, outputs, outcome, at, runs, restarts>>

WriteResult ==
  /\ ParserStep("finishing", "answered") /\ child' = "none"
  /\ Finish(IF child = "payload" THEN "succeeded" ELSE "failed")
  /\ UNCHANGED <<leaseVars, inputVars, at, runs, restarts>>

PassEnds ==
  /\ ~marker /\ ParserStep("answered", "idle")
  /\ UNCHANGED <<leaseVars, inputVars, outputs, outcome, at, child, runs, restarts>>

(* The container is restarted, or the heartbeat fails and ends the parser. *)
Restart ==
  /\ restarts < MaxRestarts /\ restarts' = restarts + 1
  /\ parser' = "idle" /\ child' = "none"
  /\ UNCHANGED <<leaseVars, inputVars, outputs, outcome, at, runs>>

--------------------------------------------------------------------------------
Init ==
  /\ job = "live" /\ fence = 0 /\ worker = [f \in Fences |-> "none"]
  /\ original = {} /\ request = {} /\ marker = FALSE /\ cleanup = "none"
  /\ outputs = Nothing /\ outcome = [f \in Fences |-> "none"]
  /\ parser = "idle" /\ at = 1 /\ child = "none"
  /\ runs = [f \in Fences |-> 0] /\ restarts = 0

Parser ==
  \/ SweepCancelled \/ (\E f \in Fences : Pick(f)) \/ StartAttempt \/ Interrupted
  \/ Refuse \/ Skip \/ Launch \/ ChildDone \/ TimedOut \/ WriteResult \/ PassEnds
  \/ \E from \in {"running", "answered"} : ErasedByParser(from)

Next ==
  \/ Claim \/ LeaseLost \/ CancelJob \/ MarkErased \/ EraseTask \/ Restart \/ Parser
  \/ \E f \in Fences : CopyOriginal(f) \/ WriteRequest(f) \/ WorkerGivesUp(f) \/ Verify(f) \/ Commit(f)
  \/ \E file \in {"payload", "error", "broken"} : ChildEnds(file)

(* The loop of the parser goes on after every restart. *)
Fairness == WF_spoolVars(Parser)

Spec == Init /\ [][Next]_spoolVars /\ Fairness

--------------------------------------------------------------------------------
(* Every variable has a value the files and rows can hold. *)
TypeOK ==
  /\ job \in {"live", "cancelled", "failed", "done"} /\ fence \in 0 .. MaxFence
  /\ worker \in [Fences -> {"none", "described", "copied", "polling", "verified", "out"}]
  /\ original \subseteq Fences /\ request \subseteq Fences
  /\ outputs \in [Fences -> SUBSET {"started", "payload", "error", "result"}]
  /\ outcome \in [Fences -> {"none", "succeeded", "failed", "interrupted"}]
  /\ parser \in {"idle", "picked", "started", "running", "finishing", "answered"}
  /\ at \in Fences /\ child \in {"none", "running", "payload", "error", "broken"}

(* An attempt starts at most one child, whenever the parser is restarted,  *)
(* leases are lost or the task is erased under it (workers/parser/         *)
(* main.py:151).                                                           *)
ChildRunsOnce == \A f \in Fences : runs[f] <= 1

(* Nothing that the parser wrote outlives the cleanup: wherever the marker *)
(* met it, in the end the outputs of the task are gone and stay so         *)
(* (workers/parser/main.py:201).                                           *)
ErasedOutputStaysErased == marker ~> [](outputs = Nothing)
================================================================================
