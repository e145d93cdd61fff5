-------------------------------- MODULE Ledger ---------------------------------
(***************************************************************************)
(* Money: the permits of paid requests with their amounts, the budgets of  *)
(* the jobs and of the instance, and the switch that stops dispatch.  The  *)
(* order in which a permit moves is checked with its task in UnitQueue;    *)
(* here the amounts are kept and the tasks are left out: an attempt stands *)
(* for a unit that some claim has leased.                                  *)
(*                                                                         *)
(* Every operation holds the settings row from its first read to its       *)
(* commit (lock_singleton), so each is one action.                         *)
(***************************************************************************)
EXTENDS Integers, FiniteSets, FiniteSetsExt

CONSTANTS
  Jobs, Attempts,
  AttemptJob,      \* the job of each attempt
  Controlled,      \* jobs whose frozen profile has cost control
  Reserve,         \* what reserve_cost gives for the profile of each job
  Charges,         \* what the provider may charge for a request
  Budgets,         \* amounts a user or an operator may set
  InFlightLimit    \* min(WORKER_LIMIT, master * subjob concurrency)

LedgerAssumption ==
  /\ IsFiniteSet(Attempts) /\ "instance" \notin Jobs
  /\ AttemptJob \in [Attempts -> Jobs]
  /\ Controlled \subseteq Jobs
  /\ Reserve \in [Jobs -> Nat]
  /\ Charges \subseteq Nat
  /\ Budgets \subseteq Nat
  /\ InFlightLimit \in Nat \ {0}

VARIABLES
  sent,             \* Attempt.state
  money,            \* Permit.state, "none" without a row
  micro,            \* what budget_totals counts for the permit
  jobBudget, instanceBudget,
  dispatchDisabled,
  unanswered,       \* charges above their reservation since dispatch was switched on (history)
  allowed           \* highest budget ever in force, of a job or of the instance (history)

ledgerVars == <<sent, money, micro, jobBudget, instanceBudget, dispatchDisabled,
                unanswered, allowed>>

Instance == "instance"
Accounts == Jobs \cup {Instance}
SentStates == {"created", "dispatching", "settled", "not_executed", "outcome_unknown"}
MoneyStates == {"none", "reserved", "unknown", "settled", "released"}

Higher(a, b) == IF a >= b THEN a ELSE b
IsControlled(a) == AttemptJob[a] \in Controlled
InFlight == {a \in Attempts : money[a] = "reserved"}
(* Amounts of a job without cost control are never added up. *)
Amount(a, x) == IF IsControlled(a) THEN x ELSE 0
Uncertain == {a \in Attempts : money[a] = "unknown"}

CountedWithoutUnknown(account) ==   \* mutant: uncertain money is free again
  {a \in Attempts : /\ IsControlled(a)
                    /\ account \in {AttemptJob[a], Instance}
                    /\ money[a] \in {"reserved", "settled"}}

(* The permits whose amounts a budget counts: those of the job, or all. *)
Counted(account) ==
  {a \in Attempts : /\ IsControlled(a)
                    /\ account \in {AttemptJob[a], Instance}
                    /\ money[a] \in {"reserved", "unknown", "settled"}}
Total(account) == MapThenSumSet(LAMBDA a : micro[a], Counted(account))

Init ==
  /\ sent = [a \in Attempts |-> "created"]
  /\ money = [a \in Attempts |-> "none"]
  /\ micro = [a \in Attempts |-> 0]
  /\ jobBudget \in [Jobs -> Budgets]
  /\ instanceBudget = 0
  /\ dispatchDisabled = FALSE
  /\ unanswered = {}
  /\ allowed = [c \in Accounts |-> IF c = Instance THEN 0 ELSE jobBudget[c]]

FitsBudgets(j) ==
  /\ instanceBudget - Total(Instance) >= Reserve[j]
  /\ jobBudget[j] - Total(j) >= Reserve[j]

MayDispatch(a) ==
  /\ ~dispatchDisabled
  /\ Cardinality(InFlight) < InFlightLimit
  /\ IsControlled(a) => FitsBudgets(AttemptJob[a])

Authorize(a) ==
  /\ sent[a] = "created" /\ money[a] = "none"
  /\ MayDispatch(a)
  /\ sent' = [sent EXCEPT ![a] = "dispatching"]
  /\ money' = [money EXCEPT ![a] = "reserved"]
  /\ micro' = [micro EXCEPT ![a] = Amount(a, Reserve[AttemptJob[a]])]
  /\ UNCHANGED <<jobBudget, instanceBudget, dispatchDisabled, unanswered, allowed>>

(* authorize refused: the attempt ends, its unit waits for another claim. *)
Refuse(a) ==
  /\ sent[a] = "created" /\ money[a] = "none"
  /\ ~MayDispatch(a)
  /\ sent' = [sent EXCEPT ![a] = "not_executed"]
  /\ UNCHANGED <<money, micro, jobBudget, instanceBudget, dispatchDisabled,
                 unanswered, allowed>>

OverrunsInTime(a, cost) ==   \* mutant: a late charge is not compared
  IsControlled(a) /\ cost > micro[a] /\ money[a] = "reserved"
Overruns(a, cost) == IsControlled(a) /\ cost > micro[a]

(* The answer with its usage, in time or after the permit became unknown. *)
Settle(a, cost) ==
  /\ money[a] \in {"reserved", "unknown"}
  /\ sent' = [sent EXCEPT ![a] = "settled"]
  /\ money' = [money EXCEPT ![a] = "settled"]
  /\ micro' = [micro EXCEPT ![a] = Amount(a, cost)]
  /\ dispatchDisabled' = (dispatchDisabled \/ Overruns(a, cost))
  /\ unanswered' = IF IsControlled(a) /\ cost > Reserve[AttemptJob[a]]
                     THEN unanswered \cup {a} ELSE unanswered
  /\ UNCHANGED <<jobBudget, instanceBudget, allowed>>

(* No usable answer, an expired lease, or a price that cannot be computed. *)
MarkUnknown(a) ==
  /\ money[a] = "reserved"
  /\ sent' = [sent EXCEPT ![a] = "outcome_unknown"]
  /\ money' = [money EXCEPT ![a] = "unknown"]
  /\ UNCHANGED <<micro, jobBudget, instanceBudget, dispatchDisabled, unanswered, allowed>>

ReleaseUnsent(a) ==
  /\ money[a] = "reserved"
  /\ sent' = [sent EXCEPT ![a] = "not_executed"]
  /\ money' = [money EXCEPT ![a] = "released"]
  /\ UNCHANGED <<micro, jobBudget, instanceBudget, dispatchDisabled, unanswered, allowed>>

DisableDispatch ==
  /\ dispatchDisabled' = TRUE
  /\ UNCHANGED <<sent, money, micro, jobBudget, instanceBudget, unanswered, allowed>>

(* Switching on with unknown permits takes an accepted risk and a reason;  *)
(* without them the request is refused and changes nothing.                *)
EnableDispatch(acceptRisk) ==
  /\ Uncertain = {} \/ acceptRisk
  /\ dispatchDisabled' = FALSE
  /\ unanswered' = {}
  /\ UNCHANGED <<sent, money, micro, jobBudget, instanceBudget, allowed>>

(* maintenance-on, -off and every maintenance window. *)
EnterMaintenance ==
  /\ dispatchDisabled' = TRUE
  /\ sent' = [a \in Attempts |-> IF a \in InFlight THEN "outcome_unknown" ELSE sent[a]]
  /\ money' = [a \in Attempts |-> IF a \in InFlight THEN "unknown" ELSE money[a]]
  /\ UNCHANGED <<micro, jobBudget, instanceBudget, unanswered, allowed>>

SetInstanceBudget(b) ==
  /\ instanceBudget' = b
  /\ allowed' = [allowed EXCEPT ![Instance] = Higher(@, b)]
  /\ UNCHANGED <<sent, money, micro, jobBudget, dispatchDisabled, unanswered>>

(* retry_accept_risk: the unknown permit stays, the job gets a new budget. *)
RetryAcceptRisk(a, b) ==
  /\ sent[a] = "outcome_unknown" /\ IsControlled(a)
  /\ jobBudget' = [jobBudget EXCEPT ![AttemptJob[a]] = b]
  /\ allowed' = [allowed EXCEPT ![AttemptJob[a]] = Higher(@, b)]
  /\ UNCHANGED <<sent, money, micro, instanceBudget, dispatchDisabled, unanswered>>

Next ==
  \/ \E a \in Attempts : \/ Authorize(a) \/ Refuse(a) \/ MarkUnknown(a) \/ ReleaseUnsent(a)
                         \/ \E c \in Charges : Settle(a, c)
                         \/ \E b \in Budgets : RetryAcceptRisk(a, b)
  \/ DisableDispatch
  \/ \E risk \in BOOLEAN : EnableDispatch(risk)
  \/ EnterMaintenance
  \/ \E b \in Budgets : SetInstanceBudget(b)

Spec == Init /\ [][Next]_ledgerVars

--------------------------------------------------------------------------------
(* Every variable has a value its column can hold. *)
TypeOK ==
  /\ sent \in [Attempts -> SentStates]
  /\ money \in [Attempts -> MoneyStates]
  /\ micro \in [Attempts -> Nat]
  /\ jobBudget \in [Jobs -> Nat] /\ instanceBudget \in Nat
  /\ dispatchDisabled \in BOOLEAN
  /\ unanswered \subseteq Attempts
  /\ allowed \in [Accounts -> Nat]

(* What was charged above the reservation. *)
Above(a) == Higher(micro[a], Reserve[AttemptJob[a]]) - Reserve[AttemptJob[a]]
Excess(account) == MapThenSumSet(Above, {a \in Counted(account) : money[a] = "settled"})

(* However workers, late answers, recovery, retries and budget changes     *)
(* interleave, a job and the instance never have more at stake (spent,     *)
(* reserved or uncertain) than the highest budget anyone allowed them plus *)
(* what the provider charged above a reservation (billing/ledger.py:52).   *)
WithinBudget ==
  \A c \in Accounts : (c = Instance \/ c \in Controlled) => Total(c) <= allowed[c] + Excess(c)

(* After a charge above its reservation no request gets a permit until an  *)
(* operator switches dispatch on again, also when the charge arrives late  *)
(* or while other requests are in flight (billing/ledger.py:97).           *)
OverrunStopsDispatch ==
  [][\A a \in Attempts : money[a] = "none" /\ money'[a] = "reserved" => unanswered = {}]_ledgerVars
================================================================================
