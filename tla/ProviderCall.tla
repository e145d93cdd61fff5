------------------------------ MODULE ProviderCall ------------------------------
(***************************************************************************)
(* One translation unit and the HTTP requests made for it: what happened   *)
(* on the wire and at the provider, what each protocol's adapter makes of  *)
(* the answer, and what the permit of the request says in the end.         *)
(*                                                                         *)
(* The wire is the environment's: a request may be refused, lost on the    *)
(* way there or back, or answered by another model, with usage that is     *)
(* missing or has dimensions the price does not cover.  The lease may run  *)
(* out while the request is open, and the worker may die at any step; its  *)
(* queue, pauses and siblings are UnitQueue's.                             *)
(***************************************************************************)
EXTENDS Naturals, Sequences

CONSTANTS
  Protocols,   \* api_protocol of the profile
  RetryLimit   \* attempts of a task (3 in the code)

OpenAI == {"responses", "chat_completions"}
Native == {"gemini_interactions", "claude_messages"}

ProviderCallAssumption ==
  /\ Protocols \subseteq OpenAI \cup Native \cup {"local_translation"}
  /\ RetryLimit \in Nat \ {0}

VARIABLES
  protocol, controlled,   \* of the profile; controlled: cost_control_enabled
  task,     \* status, attempts, repaired
  at,       \* where the worker is: "idle", "sent", "received", "settled"
  reply,    \* the answer it has read
  bills     \* per attempt the permit, what the provider did, and a checkpoint

callVars == <<protocol, controlled, task, at, reply, bills>>

NoReply == [body |-> "none", usage |-> "none", model |-> "none"]
Last == Len(bills)

(* What a provider that ran the request did: "clean" is work of the asked  *)
(* model with usage the price covers, "other_..." work of another model    *)
(* or of one that is not named; "unseen" reached nobody.                   *)
Did == {"unsent", "nothing", "unseen", "clean", "unclear", "other_clean", "other_unclear"}

--------------------------------------------------------------------------------
(* Adapters. *)

(* Bodies, usage and models an answer of 200 can have, as far as the       *)
(* adapter tells them apart.  Requests carry no tools, so only the native  *)
(* protocols, which report them, can answer with them.                     *)
Bodies ==
  {"text", "invalid", "cut", "odd"}
    \cup (IF protocol \in OpenAI \cup {"claude_messages"} THEN {"refusal"} ELSE {})
    \cup (IF protocol = "claude_messages" THEN {"empty refusal"} ELSE {})

Usages == {"plain", "missing"} \cup (IF protocol = "local_translation" THEN {} ELSE {"unpriced"})

(* The provider chooses: any protocol can be answered by another model.    *)
Models == {"asked", "other"}

(* The native and local adapters compare the model that answered; the      *)
(* OpenAI adapters report it only.                                         *)
Compares == protocol \notin OpenAI

(* _usage and actual_cost: counts the price covers completely.             *)
Priced(r) == r.usage = "plain" /\ r.body # "empty refusal"

Truth(r) ==
  IF r.model = "asked" THEN IF Priced(r) THEN "clean" ELSE "unclear"
  ELSE IF Priced(r) THEN "other_clean" ELSE "other_unclear"

AnyModel(r) == "none"   \* mutant: the answering model is not compared
FailureCode(r) ==
  LET mismatch == Compares /\ r.model = "other" IN
  CASE mismatch -> "PROVIDER_MODEL_MISMATCH"
    [] ~mismatch /\ r.body = "odd" /\ protocol # "local_translation" -> "PROVIDER_UNSUPPORTED_RESPONSE"
    [] OTHER -> "none"

(* Statuses that an adapter takes as a refusal to run the request.         *)
Rejected == {400, 404, 422} \cup
  (CASE protocol = "local_translation" -> {409, 503}
     [] protocol \in Native -> {401, 403, 413, 429}
     [] OTHER -> {401, 403, 429})

(* With these a provider never runs a request; with 500 nobody can say.    *)
Statuses == {400, 401, 403, 404, 409, 413, 422, 429, 503, 500}
NeverRuns(status) ==
  \/ status \in {400, 401, 403, 404, 409, 413, 422, 429}
  \/ status = 503 /\ protocol = "local_translation"

--------------------------------------------------------------------------------
(* retry_or_stop. *)
Classified(outcome) ==
  IF outcome = "executed_invalid" /\ bills[Last].permit = "reserved" THEN "unknown" ELSE outcome

(* mark_unknown leaves a settled permit alone; release_unsent wants a      *)
(* reserved one and otherwise fails the transaction.                       *)
Permit(outcome) ==
  CASE outcome \in {"not_sent", "not_executed"} -> "released"
    [] outcome = "unknown" /\ bills[Last].permit # "settled" -> "unknown"
    [] OTHER -> bills[Last].permit

Retries == task.attempts < RetryLimit

FinalCodes == {"PROVIDER_CONFIG", "PROVIDER_UNSUPPORTED_RESPONSE", "PROVIDER_REFUSAL"}

Fate(outcome, code) ==
  CASE outcome = "unknown" -> [task EXCEPT !.status = "outcome_unknown"]
    [] outcome # "unknown" /\ code \in FinalCodes ->
         [task EXCEPT !.status = "failed"]
    [] outcome \in {"not_sent", "not_executed"} /\ code \notin FinalCodes /\ Retries ->
         [task EXCEPT !.status = "pending"]
    [] outcome = "executed_invalid" /\ code \notin FinalCodes /\ ~task.repaired /\ Retries ->
         [task EXCEPT !.status = "pending", !.repaired = TRUE]
    [] OTHER -> [task EXCEPT !.status = "failed"]

(* A release refused by the ledger is handled by the worker, which changes *)
(* nothing once the lease is lost.                                         *)
RetryOrStop(said, code, did) ==
  LET outcome == Classified(said)
      refused == outcome \in {"not_sent", "not_executed"} /\ bills[Last].permit # "reserved" IN
  /\ at' = "idle" /\ reply' = NoReply
  /\ bills' = [bills EXCEPT ![Last].did = did,
                            ![Last].permit = IF refused THEN @ ELSE Permit(outcome)]
  /\ task' = IF refused THEN task ELSE Fate(outcome, code)
  /\ UNCHANGED <<protocol, controlled>>

--------------------------------------------------------------------------------
(* A claim with authorize, unless a checkpoint needs no request. *)
Checkpointed == \E n \in 1..Last : bills[n].checkpoint

Authorize ==
  /\ task.status = "pending" /\ at = "idle" /\ ~Checkpointed
  /\ task' = [task EXCEPT !.status = "leased", !.attempts = @ + 1]
  /\ bills' = Append(bills, [permit |-> "reserved", did |-> "unsent", checkpoint |-> FALSE])
  /\ at' = "sent"
  /\ UNCHANGED <<protocol, controlled, reply>>

(* ConnectError, ConnectTimeout. *)
NotConnected ==
  /\ at = "sent"
  /\ RetryOrStop("not_sent", "PROVIDER_CONNECT", "nothing")

PoolTimeout ==
  /\ at = "sent"
  /\ IF protocol = "local_translation"
     THEN RetryOrStop("unknown", "OUTCOME_UNKNOWN", "nothing")
     ELSE RetryOrStop("not_sent", "PROVIDER_CONNECT", "nothing")

(* Any other HTTPError: read and write timeouts, a closed connection.      *)
Broken ==
  /\ at = "sent"
  /\ \E did \in {"nothing", "unseen"} : RetryOrStop("unknown", "OUTCOME_UNKNOWN", did)

AnyError(status) ==   \* mutant: a server error is taken as a refusal
  RetryOrStop("not_executed", "PROVIDER_RATE_LIMIT", IF NeverRuns(status) THEN "nothing" ELSE "unseen")
HttpError(status) ==
  \E did \in (IF NeverRuns(status) THEN {"nothing"} ELSE {"nothing", "unseen"}) :
    IF status \notin Rejected THEN RetryOrStop("unknown", "OUTCOME_UNKNOWN", did)
    ELSE IF protocol = "local_translation" THEN RetryOrStop("not_sent", "LOCAL_MODEL_UNAVAILABLE", did)
    ELSE RetryOrStop("not_executed", IF status = 429 THEN "PROVIDER_RATE_LIMIT" ELSE "PROVIDER_CONFIG", did)

ErrorStatus == at = "sent" /\ \E status \in Statuses : HttpError(status)

(* 200 with something that is no JSON object, or lacks what is read.       *)
Unreadable ==
  /\ at = "sent"
  /\ RetryOrStop("unknown", "OUTCOME_UNKNOWN", "unseen")

Answers ==
  /\ at = "sent"
  /\ \E body \in Bodies, usage \in Usages, model \in Models :
       reply' = [body |-> body, usage |-> usage, model |-> model]
  /\ bills' = [bills EXCEPT ![Last].did = Truth(reply')]
  /\ at' = "received"
  /\ UNCHANGED <<protocol, controlled, task>>

--------------------------------------------------------------------------------
(* The rest of execute_translation. *)
Same == bills[Last].did

Mismatch ==
  /\ at = "received" /\ FailureCode(reply) = "PROVIDER_MODEL_MISMATCH"
  /\ RetryOrStop("unknown", "PROVIDER_MODEL_MISMATCH", Same)

SettlesAll == TRUE   \* mutant: usage is accounted without a look at its dimensions
Settles == ~controlled \/ Priced(reply)

(* settle accepts an answer that came after the permit had become unknown. *)
Settle ==
  /\ at = "received" /\ FailureCode(reply) # "PROVIDER_MODEL_MISMATCH" /\ Settles
  /\ bills' = [bills EXCEPT ![Last].permit = "settled"]
  /\ at' = "settled"
  /\ UNCHANGED <<protocol, controlled, task, reply>>

UsageMissing ==
  /\ at = "received" /\ FailureCode(reply) # "PROVIDER_MODEL_MISMATCH" /\ ~Settles
  /\ RetryOrStop("unknown", "USAGE_MISSING", Same)

Useless ==
  /\ at = "settled" /\ reply.body # "text"
  /\ RetryOrStop("executed_invalid",
       CASE FailureCode(reply) # "none" -> FailureCode(reply)
         [] reply.body \in {"refusal", "empty refusal"} -> "PROVIDER_REFUSAL"
         [] OTHER -> "PROVIDER_TRUNCATED", Same)

Checkpoint ==
  /\ at = "settled" /\ reply.body = "text" /\ ~bills[Last].checkpoint
  /\ bills' = [bills EXCEPT ![Last].checkpoint = TRUE]
  /\ UNCHANGED <<protocol, controlled, task, at, reply>>

(* commit_unit writes under a valid lease only. *)
Commit ==
  /\ at = "settled" /\ bills[Last].checkpoint
  /\ at' = "idle" /\ reply' = NoReply
  /\ task' = IF task.status = "leased" THEN [task EXCEPT !.status = "succeeded"] ELSE task
  /\ UNCHANGED <<protocol, controlled, bills>>

Replay ==
  /\ task.status = "pending" /\ at = "idle" /\ Checkpointed
  /\ task' = [task EXCEPT !.status = "succeeded", !.attempts = @ + 1]
  /\ UNCHANGED <<protocol, controlled, at, reply, bills>>

--------------------------------------------------------------------------------
(* recover_expired, while the worker still runs or after it died. *)
LeaseLost ==
  /\ task.status = "leased"
  /\ IF bills[Last].permit \in {"reserved", "unknown"}
     THEN /\ bills' = [bills EXCEPT ![Last].permit = "unknown"]
          /\ task' = [task EXCEPT !.status = "outcome_unknown"]
     ELSE /\ task' = [task EXCEPT !.status =
               IF Checkpointed \/ task.attempts < RetryLimit THEN "pending" ELSE "failed"]
          /\ UNCHANGED bills
  /\ UNCHANGED <<protocol, controlled, at, reply>>

WorkerDies ==
  /\ at # "idle"
  /\ at' = "idle" /\ reply' = NoReply
  /\ bills' = IF bills[Last].did = "unsent"
              THEN [bills EXCEPT ![Last].did = "unseen"] ELSE bills
  /\ UNCHANGED <<protocol, controlled, task>>

Init ==
  /\ protocol \in Protocols
  /\ controlled \in IF protocol = "local_translation" THEN {FALSE} ELSE BOOLEAN
  /\ task = [status |-> "pending", attempts |-> 0, repaired |-> FALSE]
  /\ at = "idle" /\ reply = NoReply /\ bills = <<>>

Next ==
  \/ Authorize \/ NotConnected \/ PoolTimeout \/ Broken \/ ErrorStatus \/ Unreadable \/ Answers
  \/ Mismatch \/ Settle \/ UsageMissing \/ Useless \/ Checkpoint \/ Commit \/ Replay
  \/ LeaseLost \/ WorkerDies

Spec == Init /\ [][Next]_callVars

--------------------------------------------------------------------------------
(* Every variable has a value it can hold. *)
TypeOK ==
  /\ protocol \in Protocols /\ controlled \in BOOLEAN
  /\ task.status \in {"pending", "leased", "succeeded", "failed", "outcome_unknown"}
  /\ task.attempts \in 0..RetryLimit + 1 /\ task.repaired \in BOOLEAN
  /\ at \in {"idle", "sent", "received", "settled"}
  /\ reply = NoReply \/ reply \in [body : Bodies, usage : Usages, model : Models]
  /\ \A n \in 1..Last : bills[n] \in
       [permit : {"reserved", "released", "unknown", "settled"}, did : Did, checkpoint : BOOLEAN]

(* What a settled request was answered with: work of the asked model, or   *)
(* of any model where the adapter does not compare.                        *)
Accepted == {"clean", "unclear"} \cup (IF Compares THEN {} ELSE {"other_clean", "other_unclear"})

(* execution.py, ledger.py and the adapters together: a released permit    *)
(* belongs to a request nobody ran; a settled one to an answer, under cost *)
(* control one with usage the price covers, and of the asked model for the *)
(* native and local protocols (the OpenAI protocols book and keep the      *)
(* answer of any model at the price of the asked one); a request follows   *)
(* another only if the earlier one is settled or released; and a text is   *)
(* kept for use only when its request is settled.                          *)
PermitTellsTheTruth ==
  \A n \in 1..Last :
    LET b == bills[n] IN
    /\ b.permit = "released" => b.did = "nothing"
    /\ b.permit = "settled" => b.did \in Accepted /\ (controlled => b.did \in {"clean", "other_clean"})
    /\ (n < Last \/ task.status = "succeeded") => b.permit \in {"released", "settled"}
    /\ b.checkpoint => b.permit = "settled"
================================================================================
