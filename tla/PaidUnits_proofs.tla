---------------------------- MODULE PaidUnits_proofs ---------------------------
(***************************************************************************)
(* What UnitQueue promises about counts, for every number of jobs, units,  *)
(* leases and permits: how many charges of a unit may be open, how often   *)
(* it is sent, what a completed job owes; and that the queue, seen from    *)
(* the money, implements PaidUnit.                                         *)
(***************************************************************************)
EXTENDS UnitQueue_proofs, FiniteSetTheorems

USE ConstantsAssumption

-----------------------------------------------------------------------------
(* Counting leases                                                          *)

\* Sets of leases of one unit are finite, and smaller ones have fewer elements.
LEMMA FencesFinite ==
  ASSUME NEW S \in SUBSET Fences
  PROVE  IsFiniteSet(S) /\ Cardinality(S) \in Nat
<1>1. IsFiniteSet(Fences)
  BY FS_Interval DEF Fences
<1>2. IsFiniteSet(S)
  BY <1>1, FS_Subset
<1> QED
  BY <1>2, FS_CardinalityType

LEMMA FewerFences ==
  ASSUME NEW S \in SUBSET Fences, NEW T \in SUBSET S
  PROVE  Cardinality(T) <= Cardinality(S)
  BY FencesFinite, FS_Subset

LEMMA FenceAdded ==
  ASSUME NEW S \in SUBSET Fences, NEW f \in Fences
  PROVE  Cardinality(S \cup {f}) = IF f \in S THEN Cardinality(S) ELSE Cardinality(S) + 1
  BY FencesFinite, FS_AddElement

LEMMA FenceRemoved ==
  ASSUME NEW S \in SUBSET Fences, NEW f
  PROVE  Cardinality(S \ {f}) = IF f \in S THEN Cardinality(S) - 1 ELSE Cardinality(S)
  BY FencesFinite, FS_RemoveElement

LEMMA NoFences == Cardinality({}) = 0
  BY FS_EmptySet

\* The leases of a unit that asked for a permit.
Paid(t) == {f \in Fences : permit[t][f] # "none"}

LEMMA PermitSets ==
  \A t : OpenPermits(t) \in SUBSET Fences /\ Paid(t) \in SUBSET Fences
  BY DEF OpenPermits, Paid

-----------------------------------------------------------------------------
(* The rows of a lease agree                                                *)

\* What the state of an attempt and the place of its thread say about the
\* permit; and only the deletion of the document cancels a unit in flight.
RowsAgree(t, f) ==
  /\ attState[t][f] = "settled" => permit[t][f] = "settled"
  /\ attState[t][f] = "outcome_unknown" => permit[t][f] = "unknown"
  /\ phase[t][f] = "raised_control" => permit[t][f] = "none"
  /\ permit[t][f] = "reserved" /\ taskStatus[t] = "cancelled" => deleted

Rows == \A t \in Tasks, f \in Fences : RowsAgree(t, f)

LEMMA SetAttemptValue ==
  ASSUME TypeOK, NEW t \in Tasks, NEW f, NEW s, SetAttempt(t, f, s), NEW u \in Tasks, NEW g \in Fences
  PROVE  attState'[u][g] = IF u = t /\ g = f THEN s ELSE attState[u][g]
<1>1. attState \in [Tasks -> [Fences -> AttemptStates]]
  BY DEF TypeOK
<1> QED
  BY <1>1 DEF SetAttempt

\* Closing a created attempt touches neither settled nor unknown ones.
LEMMA CloseCreatedValue ==
  ASSUME TypeOK, NEW t \in Tasks, NEW f, CloseCreated(t, f), NEW u \in Tasks, NEW g \in Fences
  PROVE  \/ attState'[u][g] = attState[u][g]
         \/ attState[u][g] = "created" /\ attState'[u][g] = "closed"
<1>1. attState \in [Tasks -> [Fences -> AttemptStates]]
  BY DEF TypeOK
<1> DEFINE new == IF attState[t][f] = "created" THEN "closed" ELSE attState[t][f]
<1>2. attState' = [attState EXCEPT ![t][f] = new]
  BY DEF CloseCreated
<1>3. attState'[u][g] = IF u = t /\ g = f THEN new ELSE attState[u][g]
  BY <1>1, <1>2
<1> QED
  BY <1>3

LEMMA RowsInit == Init => Rows
  BY DEF Init, Rows, RowsAgree

\* What a step leaves of the two rows of a lease: nothing moves, the attempt is
\* closed or created, or both move together.
Booked(p, a) == (a = "settled" => p = "settled") /\ (a = "outcome_unknown" => p = "unknown")

LEMMA AttemptOnly ==
  ASSUME IInv, Rows, UNCHANGED permit, NEW t \in Tasks, NEW f,
         \/ UNCHANGED attState \/ CloseCreated(t, f)
         \/ \E a \in {"created", "closed"} : SetAttempt(t, f, a),
         NEW u \in Tasks, NEW g \in Fences
  PROVE  Booked(permit'[u][g], attState'[u][g])
<1>1. TypeOK /\ RowsAgree(u, g)
  BY DEF IInv, Rows
<1> QED
  BY <1>1, CloseCreatedValue, SetAttemptValue DEF RowsAgree, Booked

LEMMA BothRows ==
  ASSUME IInv, Rows, NEW t \in Tasks, NEW f, NEW p, NEW a, SetPermit(t, f, p), SetAttempt(t, f, a),
         Booked(p, a), NEW u \in Tasks, NEW g \in Fences
  PROVE  Booked(permit'[u][g], attState'[u][g])
<1>1. TypeOK /\ RowsAgree(u, g)
  BY DEF IInv, Rows
<1> QED
  BY <1>1, SetPermitValue, SetAttemptValue DEF RowsAgree, Booked

\* What the transactions of a thread write into the two rows of its lease.
LEMMA ThreadBooks ==
  ASSUME IInv, Rows, NEW t \in Tasks, NEW f \in Fences, Thread(t, f),
         NEW u \in Tasks, NEW g \in Fences
  PROVE  Booked(permit'[u][g], attState'[u][g])
<1>1. CASE UNCHANGED <<permit, attState>>
  BY <1>1, AttemptOnly
<1>2. CASE Snapshot(t, f) \/ ProviderReturns(t, f) \/ Checkpoint(t, f) \/ Raise(t, f) \/ Dies(t, f)
  BY <1>1, <1>2 DEF Snapshot, ProviderReturns, Checkpoint, Raise, Dies, attemptVars
<1>3. CASE Authorize(t, f)
  <2>1. CASE Reserve(t, f)
    BY <2>1, BothRows DEF Reserve, Booked
  <2> QED
    BY <1>1, <1>3, <2>1 DEF Authorize, DoNotReserve
<1>4. CASE WaitWithoutDispatch(t, f)
  BY <1>1, <1>4, AttemptOnly DEF WaitWithoutDispatch
<1>5. CASE Settle(t, f)
  BY <1>5, BothRows DEF Settle, Booked
<1>6. CASE Commit(t, f)
  BY <1>1, <1>6, AttemptOnly DEF Commit
<1>7. CASE RetryOrStop(t, f)
  <2>1. CASE SetPermit(t, f, "released") /\ SetAttempt(t, f, "closed")
    BY <2>1, BothRows DEF Booked
  <2>2. CASE SetPermit(t, f, "unknown") /\ SetAttempt(t, f, "outcome_unknown")
    BY <2>2, BothRows DEF Booked
  <2> QED
    BY <1>1, <1>7, <2>1, <2>2 DEF RetryOrStop, ClassifyMoney
<1>8. CASE HandleException(t, f)
  <2>1. CASE HandleUncertain(t, f)
    BY <2>1, BothRows DEF HandleUncertain, Booked
  <2> QED
    BY <1>1, <1>8, <2>1, AttemptOnly DEF HandleException, HandleStale, HandleYield, HandleFailure
<1> QED
  BY <1>2, <1>3, <1>4, <1>5, <1>6, <1>7, <1>8 DEF Thread, ThreadStep

LEMMA OthersBook ==
  ASSUME IInv, Rows, (\E t \in Tasks : Queue(t)) \/ Api \/ MaintenanceOn \/ MaintenanceOff,
         NEW u \in Tasks, NEW g \in Fences
  PROVE  Booked(permit'[u][g], attState'[u][g])
<1>1. CASE UNCHANGED <<permit, attState>>
  BY <1>1, AttemptOnly
<1>2. ASSUME NEW t \in Tasks, Queue(t) PROVE Booked(permit'[u][g], attState'[u][g])
  <2>1. CASE Claim(t)
    BY <2>1, AttemptOnly DEF Claim
  <2>2. CASE RecoverExpired(t)
    <3>1. CASE RecoverUncertain(t, fence[t])
      BY <3>1, BothRows DEF RecoverUncertain, Booked
    <3> QED
      BY <2>2, <3>1, AttemptOnly
         DEF RecoverExpired, RecoverCancelled, RecoverCheckpoint, RecoverUnpaid
  <2> QED
    BY <1>1, <1>2, <2>1, <2>2 DEF Queue, LeaseExpires, attemptVars
<1>3. CASE Api
  BY <1>1, <1>3
     DEF Api, Pause, Cancel, Resume, ResolveStop, ResolveRetry, ReplaceSource, DeleteDocument, Cleanup, attemptVars
<1>4. CASE MaintenanceOn
  BY <1>4 DEF MaintenanceOn, Rows, RowsAgree, Booked
<1>5. CASE MaintenanceOff
  BY <1>1, <1>5 DEF MaintenanceOff, attemptVars
<1> QED
  BY <1>2, <1>3, <1>4, <1>5

\* Where a thread goes when its lease or its job has changed.
LEMMA RejectedUnpaid ==
  ASSUME IInv, Rows, NEW t \in Tasks, NEW f \in Fences, NEW p, Goto(t, f, p),
         UNCHANGED permit, p = "raised_control" => permit[t][f] = "none",
         NEW u \in Tasks, NEW g \in Fences, phase'[u][g] = "raised_control"
  PROVE  permit'[u][g] = "none"
<1>1. RowsAgree(u, g) /\ TypeOK
  BY DEF IInv, Rows
<1> QED
  BY <1>1, GotoValue DEF RowsAgree

\* A lease that has not asked for a permit is the only one whose place can be
\* raised_control: the others are told apart by what their request did.
LEMMA ThreadRaises ==
  ASSUME IInv, Rows, NEW t \in Tasks, NEW f \in Fences, Thread(t, f),
         NEW u \in Tasks, NEW g \in Fences, phase'[u][g] = "raised_control"
  PROVE  permit'[u][g] = "none"
<1>1. SafeLease(t, f) /\ RowsAgree(u, g) /\ TypeOK
  BY DEF IInv, SafeLeases, Rows
<1>2. ASSUME phase[t][f] \in UnpaidPhases, UNCHANGED permit
      PROVE  permit'[u][g] = "none"
  <2>1. \E p : Goto(t, f, p)
    BY DEF Thread, ThreadStep, Snapshot, Authorize, Reserve, DoNotReserve, WaitWithoutDispatch,
           ProviderReturns, Settle, Checkpoint, Commit, RetryOrStop, HandleException, Raise, Dies
  <2> QED
    BY <1>1, <1>2, <2>1, RejectedUnpaid DEF SafeLease
<1>3. ASSUME NEW p, p # "raised_control", Goto(t, f, p), phase[t][f] # "raised_control" \/ UNCHANGED permit,
             UNCHANGED permit \/ \E q : SetPermit(t, f, q)
      PROVE  permit'[u][g] = "none"
  BY <1>1, <1>3, GotoValue, SetPermitValue DEF RowsAgree
<1>4. CASE Snapshot(t, f)
  BY <1>2, <1>4 DEF Snapshot, UnpaidPhases, attemptVars
<1>5. CASE Authorize(t, f)
  <2>1. CASE Reserve(t, f)
    BY <1>3, <1>5, <2>1 DEF Reserve, Authorize
  <2> QED
    BY <1>2, <1>5, <2>1 DEF Authorize, DoNotReserve, UnpaidPhases
<1>6. CASE WaitWithoutDispatch(t, f)
  BY <1>2, <1>6 DEF WaitWithoutDispatch, UnpaidPhases
<1>7. CASE ProviderReturns(t, f)
  BY <1>3, <1>7 DEF ProviderReturns, AllOutcomes, attemptVars
<1>8. CASE Settle(t, f)
  <2>1. AfterSettlement(phase[t][f]) # "raised_control" /\ phase[t][f] # "raised_control"
    BY <1>8 DEF Settle, Returned, AfterSettlement
  <2> QED
    BY <1>3, <1>8, <2>1 DEF Settle
<1>9. CASE Checkpoint(t, f)
  BY <1>3, <1>9 DEF Checkpoint
<1>10. CASE Commit(t, f)
  <2>1. CASE phase[t][f] = "replay"
    BY <1>2, <1>10, <2>1 DEF Commit, UnpaidPhases
  <2> QED
    BY <1>3, <1>10, <2>1 DEF Commit
<1>11. CASE RetryOrStop(t, f)
  <2>1. phase[t][f] # "raised_control"
    BY <1>11 DEF RetryOrStop, Failed, Unsent
  <2>2. UNCHANGED permit \/ \E q : SetPermit(t, f, q)
    BY <1>11 DEF RetryOrStop, ClassifyMoney
  <2> QED
    BY <1>3, <1>11, <2>1, <2>2 DEF RetryOrStop
<1>12. CASE HandleException(t, f)
  <2>1. CASE HandleUncertain(t, f)
    <3>1. phase[t][f] # "raised_control"
      BY <2>1 DEF HandleUncertain, Uncertain, Rows, RowsAgree
    <3> QED
      BY <1>3, <1>12, <2>1, <3>1 DEF HandleException, HandleUncertain
  <2> QED
    BY <1>3, <1>12, <2>1 DEF HandleException, HandleStale, HandleYield, HandleFailure
<1>13. CASE Raise(t, f) \/ Dies(t, f)
  BY <1>3, <1>13 DEF Raise, Dies, attemptVars
<1> QED
  BY <1>4, <1>5, <1>6, <1>7, <1>8, <1>9, <1>10, <1>11, <1>12, <1>13 DEF Thread, ThreadStep

LEMMA OthersRaise ==
  ASSUME IInv, Rows, (\E t \in Tasks : Queue(t)) \/ Api \/ MaintenanceOn \/ MaintenanceOff,
         NEW u \in Tasks, NEW g \in Fences, phase'[u][g] = "raised_control"
  PROVE  permit'[u][g] = "none"
<1>1. RowsAgree(u, g) /\ TypeOK
  BY DEF IInv, Rows
<1>2. CASE UNCHANGED <<permit, phase>>
  BY <1>1, <1>2 DEF RowsAgree
<1>3. ASSUME NEW t \in Tasks, Queue(t) PROVE permit'[u][g] = "none"
  <2>1. CASE Claim(t)
    <3>1. fence[t] + 1 \in Fences
      <4>1. fence[t] \in 0 .. MaxFence /\ fence[t] < MaxFence
        BY <1>1, <2>1 DEF Claim, TypeOK
      <4> QED
        BY <4>1 DEF Fences
    <3> QED
      BY <1>1, <2>1, <3>1, GotoValue DEF Claim, RowsAgree
  <2>2. CASE RecoverExpired(t) /\ RecoverUncertain(t, fence[t])
    BY <1>1, <2>2, SetPermitValue DEF RecoverExpired, RecoverUncertain, Uncertain, RowsAgree
  <2> QED
    BY <1>2, <1>3, <2>1, <2>2
       DEF Queue, LeaseExpires, RecoverExpired, RecoverCancelled, RecoverCheckpoint, RecoverUnpaid, attemptVars
<1>4. CASE Api
  BY <1>2, <1>4
     DEF Api, Pause, Cancel, Resume, ResolveStop, ResolveRetry, ReplaceSource, DeleteDocument, Cleanup, attemptVars
<1>5. CASE MaintenanceOn
  BY <1>1, <1>5 DEF MaintenanceOn, RowsAgree
<1>6. CASE MaintenanceOff
  BY <1>2, <1>6 DEF MaintenanceOff, attemptVars
<1> QED
  BY <1>3, <1>4, <1>5, <1>6

\* A unit is cancelled with its request in flight only by the cleanup of its
\* deleted document: recovery cancels a unit when nothing of it is uncertain.
CancelledInFlight(t, f) == permit[t][f] = "reserved" /\ taskStatus[t] = "cancelled" => deleted

LEMMA ThreadCancels ==
  ASSUME IInv, Rows, NEW t \in Tasks, NEW f \in Fences, Thread(t, f),
         NEW u \in Tasks, NEW g \in Fences
  PROVE  CancelledInFlight(u, g)'
<1>1. SafeLease(t, f) /\ RowsAgree(u, g) /\ TypeOK /\ UNCHANGED deleted
  BY DEF IInv, SafeLeases, Rows, Thread, ThreadStep, Snapshot, Authorize, WaitWithoutDispatch,
         ProviderReturns, Settle, Checkpoint, Commit, RetryOrStop, HandleException, Raise, Dies, envVars
<1>2. taskStatus'[u] = "cancelled" => taskStatus[u] = "cancelled"
  <2>1. UNCHANGED taskStatus \/ \E s : s # "cancelled" /\ SetTask(t, s)
    BY DEF Thread, ThreadStep, Snapshot, Authorize, WaitWithoutDispatch, ProviderReturns, Settle,
           Checkpoint, Commit, RetryOrStop, Reschedule, StopUnknown, StopConfig, StopUnit,
           HandleException, HandleStale, HandleUncertain, HandleYield, HandleFailure, Raise, Dies,
           taskVars, SetTask
  <2> QED
    BY <1>1, <2>1, SetTaskValue
<1>3. CASE Authorize(t, f) /\ Current(t, f, {"running"}) /\ Reserve(t, f)
  <2>1. taskStatus[t] = "leased" /\ UNCHANGED taskStatus
    BY <1>3 DEF Authorize, Current, Leased, taskVars
  <2>2. permit'[u][g] = IF u = t /\ g = f THEN "reserved" ELSE permit[u][g]
    BY <1>1, <1>3, SetPermitValue DEF Reserve
  <2> QED
    BY <1>1, <2>1, <2>2 DEF RowsAgree, CancelledInFlight
<1>4. CASE \A h \in Fences : permit'[u][h] = "reserved" => permit[u][h] = "reserved"
  BY <1>1, <1>2, <1>4 DEF RowsAgree, CancelledInFlight
<1>5. CASE UNCHANGED permit \/ \E p : p # "reserved" /\ SetPermit(t, f, p)
  BY <1>1, <1>4, <1>5, SetPermitValue
<1>6. \/ UNCHANGED permit \/ \E p : p # "reserved" /\ SetPermit(t, f, p)
      \/ Authorize(t, f) /\ Current(t, f, {"running"}) /\ Reserve(t, f)
  BY DEF Thread, ThreadStep, Snapshot, Authorize, DoNotReserve, WaitWithoutDispatch, ProviderReturns, Settle,
         Checkpoint, Commit, RetryOrStop, ClassifyMoney,
         HandleException, HandleStale, HandleUncertain, HandleYield, HandleFailure, Raise, Dies, attemptVars
<1> QED
  BY <1>3, <1>5, <1>6

LEMMA OthersCancel ==
  ASSUME IInv, Rows, (\E t \in Tasks : Queue(t)) \/ Api \/ MaintenanceOn \/ MaintenanceOff,
         NEW u \in Tasks, NEW g \in Fences
  PROVE  CancelledInFlight(u, g)'
<1>1. SafeLease(u, g) /\ RowsAgree(u, g) /\ TypeOK
  BY DEF IInv, SafeLeases, Rows
<1>2. CASE UNCHANGED <<permit, taskStatus>> /\ (deleted => deleted')
  BY <1>1, <1>2 DEF RowsAgree, CancelledInFlight
<1>3. ASSUME NEW t \in Tasks, Queue(t) PROVE CancelledInFlight(u, g)'
  <2>1. ASSUME NEW s, SetTask(t, s), UNCHANGED <<permit, deleted>>,
               s = "cancelled" => ~Uncertain(t, fence[t])
        PROVE  CancelledInFlight(u, g)'
    BY <1>1, <2>1, SetTaskValue DEF RowsAgree, CancelledInFlight, SafeLease, Uncertain
  <2>2. CASE Claim(t)
    BY <2>1, <2>2 DEF Claim, envVars
  <2>3. CASE RecoverExpired(t)
    <3>1. CASE RecoverUncertain(t, fence[t])
      <4>1. taskStatus'[u] = IF u = t THEN "outcome_unknown" ELSE taskStatus[u]
        BY <1>1, <3>1, SetTaskValue DEF RecoverUncertain
      <4>2. permit'[u][g] = IF u = t /\ g = fence[t] THEN "unknown" ELSE permit[u][g]
        BY <1>1, <3>1, SetPermitValue DEF RecoverUncertain
      <4>3. UNCHANGED deleted
        BY <2>3 DEF RecoverExpired, envVars
      <4> QED
        BY <1>1, <4>1, <4>2, <4>3 DEF CancelledInFlight, RowsAgree
    <3>2. CASE RecoverCancelled(t, fence[t])
      BY <2>1, <2>3, <3>2 DEF RecoverExpired, RecoverCancelled, envVars
    <3> QED
      BY <2>1, <2>3, <3>1, <3>2 DEF RecoverExpired, RecoverCheckpoint, RecoverUnpaid, envVars
  <2> QED
    BY <1>2, <1>3, <2>2, <2>3 DEF Queue, LeaseExpires, attemptVars, envVars
<1>4. CASE Api
  <2>1. ASSUME NEW t \in Tasks, NEW f \in Fences, ResolveRetry(t, f) PROVE CancelledInFlight(u, g)'
    BY <1>1, <2>1, SetTaskValue DEF ResolveRetry, attemptVars, RowsAgree, CancelledInFlight, envVars
  <2>2. CASE Cleanup
    BY <2>2 DEF Cleanup, CancelledInFlight, envVars
  <2> QED
    BY <1>2, <1>4, <2>1, <2>2
       DEF Api, Pause, Cancel, Resume, ResolveStop, ReplaceSource, DeleteDocument, taskVars, attemptVars, envVars
<1>5. CASE MaintenanceOn
  BY <1>1, <1>5 DEF MaintenanceOn, CancelledInFlight, RowsAgree
<1>6. CASE MaintenanceOff
  BY <1>2, <1>6 DEF MaintenanceOff, taskVars, attemptVars
<1> QED
  BY <1>3, <1>4, <1>5, <1>6

LEMMA NextRows == IInv /\ Rows /\ [Next]_vars => Rows'
<1> SUFFICES ASSUME IInv, Rows, [Next]_vars, NEW u \in Tasks, NEW g \in Fences
             PROVE  RowsAgree(u, g)'
  BY DEF Rows
<1>1. CASE UNCHANGED vars
  <2>1. RowsAgree(u, g) /\ UNCHANGED <<attState, permit, phase, taskStatus, deleted>>
    BY <1>1 DEF Rows, vars, taskVars, attemptVars, envVars
  <2> QED
    BY <2>1 DEF RowsAgree
<1>2. CASE \E t \in Tasks, f \in Fences : Thread(t, f)
  BY <1>2, ThreadBooks, ThreadRaises, ThreadCancels DEF RowsAgree, Booked, CancelledInFlight
<1>3. CASE (\E t \in Tasks : Queue(t)) \/ Api \/ MaintenanceOn \/ MaintenanceOff
  BY <1>3, OthersBook, OthersRaise, OthersCancel DEF RowsAgree, Booked, CancelledInFlight
<1> QED
  BY <1>1, <1>2, <1>3 DEF Next

\* A leased unit has a lease: only a claim leases a unit, and it numbers the lease.
Numbered == \A t \in Tasks : taskStatus[t] = "leased" => fence[t] \in Fences

LEMMA NoNewLease ==
  ASSUME TypeOK, Numbered, UNCHANGED fence, NEW u \in Tasks,
         \/ UNCHANGED taskStatus
         \/ \E t \in Tasks : \E s : s # "leased" /\ SetTask(t, s)
         \/ taskStatus'[u] \in {taskStatus[u], "cancelled", "outcome_unknown"}
  PROVE  taskStatus'[u] = "leased" => fence'[u] \in Fences
  BY SetTaskValue DEF Numbered

LEMMA NextNumbered == TypeOK /\ Numbered /\ [Next]_vars => Numbered'
<1> SUFFICES ASSUME TypeOK, Numbered, [Next]_vars, NEW u \in Tasks
             PROVE  taskStatus'[u] = "leased" => fence'[u] \in Fences
  BY DEF Numbered, Fences
<1>1. CASE UNCHANGED vars
  BY <1>1 DEF vars, taskVars, Numbered
<1>2. ASSUME NEW t \in Tasks, NEW f \in Fences, Thread(t, f)
      PROVE  taskStatus'[u] = "leased" => fence'[u] \in Fences
  <2>1. UNCHANGED fence /\ (UNCHANGED taskStatus \/ \E s : s # "leased" /\ SetTask(t, s))
    BY <1>2 DEF Thread, ThreadStep, Snapshot, Authorize, WaitWithoutDispatch, ProviderReturns, Settle,
           Checkpoint, Commit, RetryOrStop, Reschedule, StopUnknown, StopConfig, StopUnit, SetTask,
           HandleException, HandleStale, HandleUncertain, HandleYield, HandleFailure, Raise, Dies, taskVars
  <2> QED
    BY <2>1, NoNewLease
<1>3. ASSUME NEW t \in Tasks, Queue(t)
      PROVE  taskStatus'[u] = "leased" => fence'[u] \in Fences
  <2>1. CASE Claim(t)
    <3>1. fence \in [Tasks -> 0 .. MaxFence] /\ fence[t] < MaxFence
      BY <2>1 DEF TypeOK, Claim
    <3>2. fence'[u] = IF u = t THEN fence[t] + 1 ELSE fence[u]
      BY <2>1, <3>1 DEF Claim
    <3>3. taskStatus'[u] = IF u = t THEN "leased" ELSE taskStatus[u]
      BY <2>1, SetTaskValue DEF Claim
    <3> QED
      BY <3>1, <3>2, <3>3 DEF Numbered, Fences
  <2>2. CASE LeaseExpires(t) \/ RecoverExpired(t)
    <3>1. UNCHANGED fence /\ (UNCHANGED taskStatus \/ \E s : s # "leased" /\ SetTask(t, s))
      BY <2>2 DEF LeaseExpires, RecoverExpired, RecoverUncertain, RecoverCancelled, RecoverCheckpoint,
                  RecoverUnpaid
    <3> QED
      BY <3>1, NoNewLease
  <2> QED
    BY <1>3, <2>1, <2>2 DEF Queue
<1>4. CASE Api
  <2>1. UNCHANGED fence
    BY <1>4 DEF Api, Pause, Cancel, Resume, ResolveStop, ResolveRetry, ReplaceSource, DeleteDocument,
                Cleanup, taskVars
  <2>2. \/ UNCHANGED taskStatus
        \/ \E t \in Tasks : \E s : s # "leased" /\ SetTask(t, s)
        \/ taskStatus'[u] \in {taskStatus[u], "cancelled", "outcome_unknown"}
    BY <1>4 DEF Api, Pause, Cancel, Resume, ResolveStop, ResolveRetry, ReplaceSource, DeleteDocument,
                Cleanup, taskVars
  <2> QED
    BY <2>1, <2>2, NoNewLease
<1>5. CASE MaintenanceOn \/ MaintenanceOff
  BY <1>5, NoNewLease DEF MaintenanceOn, MaintenanceOff, taskVars
<1> QED
  BY <1>1, <1>2, <1>3, <1>4, <1>5 DEF Next

\* What the counts below rest on, in every reachable state: the safe leases of
\* UnitQueue_proofs, and rows that agree.
Books == IInv /\ Rows /\ Numbered

LEMMA InitBooks == Init => Books
  BY InitTypeOK, InitSafe, RowsInit DEF IInv, Books, Numbered, Init

LEMMA NextBooks == Books /\ [Next]_vars => Books'
  BY NextInv, NextRows, NextNumbered DEF Books, IInv

\* The rows of a lease agree in every reachable state: a settled attempt has a
\* settled permit, an attempt of unknown outcome an unknown one, and a thread
\* told that its job was controlled has asked for none.
THEOREM BooksKept == Spec => []Books
  BY InitBooks, NextBooks, PTL DEF Spec

-----------------------------------------------------------------------------
(* What a step does to the charges of one unit                              *)

\* The money of the unit stays as it is.  The unit gets a new lease only when
\* it was pending, and returns to the queue only when its last lease owes nothing.
Quiet(u) ==
  /\ OpenPermits(u)' = OpenPermits(u)
  /\ accepts'[u] = accepts[u]
  /\ (taskStatus'[u] = "succeeded") <=> (taskStatus[u] = "succeeded")
  /\ fence'[u] # fence[u] => taskStatus[u] = "pending"
  /\ taskStatus'[u] = "pending" =>
       \/ taskStatus[u] = "pending"
       \/ fence'[u] = fence[u] /\ fence[u] \notin OpenPermits(u)

\* The lease that holds the unit asks for its permit.
Dispatched(u) ==
  /\ taskStatus[u] = "leased" /\ taskStatus'[u] = "leased"
  /\ fence[u] \in Fences \ OpenPermits(u)
  /\ OpenPermits(u)' = OpenPermits(u) \cup {fence[u]}
  /\ fence'[u] = fence[u] /\ accepts'[u] = accepts[u]

\* One open charge of the unit is accounted for.
Accounted(u) ==
  /\ \E f \in OpenPermits(u) : OpenPermits(u)' = OpenPermits(u) \ {f}
  /\ fence'[u] = fence[u] /\ accepts'[u] = accepts[u]
  /\ (taskStatus'[u] = "succeeded") <=> (taskStatus[u] = "succeeded")
  /\ taskStatus'[u] = "pending" => taskStatus[u] = "pending" \/ fence[u] \notin OpenPermits(u)'

\* The user accepts that the unit, which has an open charge, is sent again.
Accepted(u) ==
  /\ taskStatus[u] = "outcome_unknown" /\ taskStatus'[u] = "pending"
  /\ OpenPermits(u) # {} /\ OpenPermits(u)' = OpenPermits(u)
  /\ fence'[u] = fence[u] /\ accepts'[u] = accepts[u] + 1

\* The lease that holds the unit, and owes nothing, commits it.
Delivered(u) ==
  /\ taskStatus[u] = "leased" /\ taskStatus'[u] = "succeeded"
  /\ fence[u] \notin OpenPermits(u) /\ OpenPermits(u)' = OpenPermits(u)
  /\ fence'[u] = fence[u] /\ accepts'[u] = accepts[u]

MoneyStep(u) == Dispatched(u) \/ Accounted(u) \/ Accepted(u) \/ Delivered(u)

\* A step that leaves the rows of a unit alone is quiet for it.
LEMMA UntouchedQuiet ==
  ASSUME NEW u \in Tasks, permit'[u] = permit[u], accepts'[u] = accepts[u],
         taskStatus'[u] = taskStatus[u], fence'[u] = fence[u]
  PROVE  Quiet(u)
  BY DEF Quiet, OpenPermits

\* Writing one permit changes the open charges by that lease at most.
LEMMA PermitOpens ==
  ASSUME TypeOK, NEW t \in Tasks, NEW f \in Fences, NEW p, SetPermit(t, f, p)
  PROVE  OpenPermits(t)' = IF p \in {"reserved", "unknown"} THEN OpenPermits(t) \cup {f}
                                                            ELSE OpenPermits(t) \ {f}
<1>1. \A g \in Fences : permit'[t][g] = IF g = f THEN p ELSE permit[t][g]
  BY SetPermitValue
<1> QED
  BY <1>1 DEF OpenPermits

\* A status that is not success, in a unit whose last lease owes nothing.
LEMMA StatusQuiet ==
  ASSUME TypeOK, NEW t \in Tasks, NEW s, SetTask(t, s), s # "succeeded", taskStatus[t] # "succeeded",
         OpenPermits(t)' = OpenPermits(t), UNCHANGED <<accepts, fence>>,
         s = "pending" => fence[t] \notin OpenPermits(t)
  PROVE  Quiet(t)
<1>1. taskStatus'[t] = s
  BY SetTaskValue
<1> QED
  BY <1>1 DEF Quiet

\* The other units do not notice what a thread, or the queue, does to one.
LEMMA OtherRow ==
  ASSUME TypeOK, NEW t \in Tasks, NEW u \in Tasks, u # t
  PROVE  /\ \A s : SetTask(t, s) => taskStatus'[u] = taskStatus[u]
         /\ \A f, s : SetPermit(t, f, s) => permit'[u] = permit[u]
         /\ \A s : taskStatus' = [taskStatus EXCEPT ![t] = s] => taskStatus'[u] = taskStatus[u]
         /\ \A n : fence' = [fence EXCEPT ![t] = n] => fence'[u] = fence[u]
  BY DEF TypeOK, SetTask, SetPermit

LEMMA OthersUntouched ==
  ASSUME TypeOK, NEW t \in Tasks, NEW u \in Tasks, u # t,
         Queue(t) \/ \E f \in Fences : Thread(t, f)
  PROVE  /\ taskStatus'[u] = taskStatus[u] /\ permit'[u] = permit[u]
         /\ fence'[u] = fence[u] /\ accepts'[u] = accepts[u]
<1>1. taskStatus'[u] = taskStatus[u]
  <2>1. UNCHANGED taskStatus \/ \E s : SetTask(t, s) \/ taskStatus' = [taskStatus EXCEPT ![t] = s]
    BY DEF Queue, Claim, LeaseExpires, RecoverExpired, RecoverUncertain, RecoverCancelled,
           RecoverCheckpoint, RecoverUnpaid, Thread, ThreadStep, Snapshot, Authorize,
           WaitWithoutDispatch, ProviderReturns, Settle, Checkpoint, Commit, RetryOrStop,
           Reschedule, StopUnknown, StopConfig, StopUnit, HandleException, HandleStale,
           HandleUncertain, HandleYield, HandleFailure, Raise, Dies, taskVars
  <2> QED
    BY <2>1, OtherRow
<1>2. permit'[u] = permit[u]
  <2>1. UNCHANGED permit \/ \E f, s : SetPermit(t, f, s)
    BY DEF Queue, Claim, LeaseExpires, RecoverExpired, RecoverUncertain, RecoverCancelled,
           RecoverCheckpoint, RecoverUnpaid, Thread, ThreadStep, Snapshot, Authorize, Reserve, DoNotReserve,
           WaitWithoutDispatch, ProviderReturns, Settle, Checkpoint, Commit, RetryOrStop, ClassifyMoney,
           HandleException, HandleStale, HandleUncertain, HandleYield, HandleFailure, Raise, Dies, attemptVars
  <2> QED
    BY <2>1, OtherRow
<1>3. fence'[u] = fence[u] /\ accepts'[u] = accepts[u]
  <2>1. UNCHANGED accepts /\ (UNCHANGED fence \/ fence' = [fence EXCEPT ![t] = fence[t] + 1])
    BY DEF Queue, Claim, LeaseExpires, RecoverExpired, Thread, ThreadStep, Snapshot, Authorize,
           WaitWithoutDispatch, ProviderReturns, Settle, Checkpoint, Commit, RetryOrStop,
           HandleException, Raise, Dies, taskVars
  <2> QED
    BY <2>1, OtherRow
<1> QED
  BY <1>1, <1>2, <1>3

LEMMA OthersQuiet ==
  ASSUME TypeOK, NEW t \in Tasks, NEW u \in Tasks, u # t,
         Queue(t) \/ \E f \in Fences : Thread(t, f)
  PROVE  Quiet(u)
  BY OthersUntouched, UntouchedQuiet

LEMMA QueueQuiet ==
  ASSUME Books, NEW t \in Tasks, Queue(t)
  PROVE  Quiet(t)
<1>1. TypeOK
  BY DEF Books, IInv
<1>2. CASE Claim(t)
  <2>1. taskStatus'[t] = "leased" /\ taskStatus[t] = "pending"
    BY <1>1, <1>2, SetTaskValue DEF Claim, Claimable
  <2> QED
    BY <1>2, <2>1 DEF Claim, Quiet, OpenPermits
<1>3. CASE LeaseExpires(t)
  BY <1>3, UntouchedQuiet DEF LeaseExpires, attemptVars
<1>4. CASE RecoverExpired(t)
  <2>1. taskStatus[t] = "leased" /\ UNCHANGED <<accepts, fence>> /\ fence[t] \in 0 .. MaxFence
    BY <1>1, <1>4 DEF RecoverExpired, TypeOK
  <2>2. CASE RecoverUncertain(t, fence[t])
    <3>1. fence[t] \in Fences
      BY <2>1 DEF Books, Numbered
    <3>2. fence[t] \in OpenPermits(t)
      BY <3>1, <2>2 DEF RecoverUncertain, Uncertain, OpenPermits
    <3>3. OpenPermits(t)' = OpenPermits(t)
      BY <1>1, <2>2, <3>1, <3>2, PermitOpens DEF RecoverUncertain
    <3> QED
      BY <1>1, <2>1, <2>2, <3>3, StatusQuiet DEF RecoverUncertain
  <2>3. CASE ~Uncertain(t, fence[t]) /\ UNCHANGED permit /\ \E s : s # "succeeded" /\ SetTask(t, s)
    <3>1. OpenPermits(t)' = OpenPermits(t) /\ fence[t] \notin OpenPermits(t)
      BY <2>3 DEF OpenPermits, Uncertain
    <3> QED
      BY <1>1, <2>1, <2>3, <3>1, StatusQuiet
  <2> QED
    BY <1>4, <2>2, <2>3 DEF RecoverExpired, RecoverCancelled, RecoverCheckpoint, RecoverUnpaid
<1> QED
  BY <1>2, <1>3, <1>4 DEF Queue

\* A transaction that writes neither the permits nor the status of the unit.
LEMMA BookkeepingQuiet ==
  ASSUME NEW t \in Tasks, UNCHANGED <<permit, accepts, taskStatus, fence>>
  PROVE  Quiet(t)
  BY UntouchedQuiet

\* A settled or released permit is a charge accounted for, if it was open.
LEMMA PermitAccounted ==
  ASSUME TypeOK, NEW t \in Tasks, NEW f \in OpenPermits(t), NEW p, p \notin {"reserved", "unknown"},
         SetPermit(t, f, p), UNCHANGED <<accepts, fence>>,
         \/ UNCHANGED taskStatus
         \/ f = fence[t] /\ taskStatus[t] # "succeeded" /\ taskStatus'[t] # "succeeded"
  PROVE  Accounted(t)
<1>1. OpenPermits(t)' = OpenPermits(t) \ {f}
  BY PermitOpens, PermitSets
<1> QED
  BY <1>1 DEF Accounted

\* An open permit that becomes unknown stays open.
LEMMA PermitStaysOpen ==
  ASSUME TypeOK, NEW t \in Tasks, NEW f \in OpenPermits(t), SetPermit(t, f, "unknown")
  PROVE  OpenPermits(t)' = OpenPermits(t)
  BY PermitOpens, PermitSets

LEMMA AuthorizeMoney ==
  ASSUME Books, NEW t \in Tasks, NEW f \in Fences, Authorize(t, f)
  PROVE  Quiet(t) \/ Dispatched(t)
<1>1. TypeOK /\ UNCHANGED <<accepts, taskStatus, fence>>
  BY DEF Books, IInv, Authorize, taskVars
<1>2. CASE Current(t, f, {"running"}) /\ Reserve(t, f)
  <2>1. f = fence[t] /\ taskStatus[t] = "leased" /\ f \notin OpenPermits(t)
    BY <1>2 DEF Current, Leased, Reserve, OpenPermits
  <2>2. OpenPermits(t)' = OpenPermits(t) \cup {f}
    BY <1>1, <1>2, PermitOpens DEF Reserve
  <2> QED
    BY <1>1, <2>1, <2>2 DEF Dispatched
<1>3. CASE UNCHANGED permit
  BY <1>1, <1>3, BookkeepingQuiet
<1> QED
  BY <1>2, <1>3 DEF Authorize, DoNotReserve

LEMMA WaitMoney ==
  ASSUME Books, NEW t \in Tasks, NEW f \in Fences, WaitWithoutDispatch(t, f)
  PROVE  Quiet(t)
<1>1. TypeOK /\ UNCHANGED <<accepts, fence, permit>> /\ permit[t][f] = "none"
  BY DEF Books, IInv, WaitWithoutDispatch, SafeLeases, SafeLease, UnpaidPhases
<1>2. CASE Current(t, f, {"running"})
  <2>1. f = fence[t] /\ taskStatus[t] = "leased" /\ f \notin OpenPermits(t)
    BY <1>1, <1>2 DEF Current, Leased, OpenPermits
  <2>2. OpenPermits(t)' = OpenPermits(t)
    BY <1>1 DEF OpenPermits
  <2> QED
    BY <1>1, <1>2, <2>1, <2>2, StatusQuiet DEF WaitWithoutDispatch
<1> QED
  BY <1>1, <1>2, BookkeepingQuiet DEF WaitWithoutDispatch

LEMMA SettleMoney ==
  ASSUME Books, NEW t \in Tasks, NEW f \in Fences, Settle(t, f)
  PROVE  Accounted(t)
<1>1. TypeOK /\ UNCHANGED <<accepts, fence, taskStatus>>
  BY DEF Books, IInv, Settle, taskVars
<1>2. f \in OpenPermits(t)
  BY DEF Settle, Uncertain, OpenPermits
<1> QED
  BY <1>1, <1>2, PermitAccounted DEF Settle

\* A response is committed by the thread of a checkpoint, or of a replay: the
\* permit of its lease is settled, or was never asked for.
LEMMA CommitMoney ==
  ASSUME Books, NEW t \in Tasks, NEW f \in Fences, Commit(t, f)
  PROVE  Quiet(t) \/ Delivered(t)
<1>1. TypeOK /\ UNCHANGED <<accepts, fence, permit>> /\ permit[t][f] \notin {"reserved", "unknown"}
  BY DEF Books, IInv, Commit, SafeLeases, SafeLease, UnpaidPhases, SettledPhases
<1>2. CASE MayCommit(t, f)
  <2>1. f = fence[t] /\ taskStatus[t] = "leased" /\ f \notin OpenPermits(t)
    BY <1>1, <1>2 DEF MayCommit, Current, Leased, OpenPermits
  <2>2. OpenPermits(t)' = OpenPermits(t)
    BY <1>1 DEF OpenPermits
  <2>3. taskStatus'[t] = "succeeded"
    BY <1>1, <1>2 DEF Commit, TypeOK
  <2> QED
    BY <1>1, <2>1, <2>2, <2>3 DEF Delivered
<1> QED
  BY <1>1, <1>2, BookkeepingQuiet DEF Commit

\* What retry_or_stop makes of the money, and that the unit's status moves only
\* for the last lease, from a status that is not success.
LEMMA RetryStatus ==
  ASSUME Books, NEW t \in Tasks, NEW f \in Fences, RetryOrStop(t, f)
  PROVE  \/ UNCHANGED taskStatus
         \/ /\ f = fence[t] /\ taskStatus[t] # "succeeded" /\ Goto(t, f, "done")
            /\ \E s : s # "succeeded" /\ SetTask(t, s)
<1>1. SafeLease(t, f) /\ phase[t][f] \in Failed /\ "done" \notin Failed
  BY DEF Books, IInv, SafeLeases, RetryOrStop, Failed, Unsent
<1>2. CASE UNCHANGED taskStatus
  BY <1>2
<1>3. CASE MayReschedule(t, f) /\ Goto(t, f, "done")
           /\ (Reschedule(t, f) \/ StopUnknown(t, f) \/ StopConfig(t, f) \/ StopUnit(t, f))
  <2>1. f = fence[t] /\ taskStatus[t] # "succeeded"
    BY <1>1, <1>3 DEF MayReschedule, SafeLease
  <2>2. \E s : s # "succeeded" /\ SetTask(t, s)
    BY <1>3 DEF Reschedule, StopUnknown, StopConfig, StopUnit, SetTask
  <2> QED
    BY <1>3, <2>1, <2>2
<1> QED
  BY <1>2, <1>3 DEF RetryOrStop

LEMMA RetryMoney ==
  ASSUME Books, NEW t \in Tasks, NEW f \in Fences, RetryOrStop(t, f)
  PROVE  Quiet(t) \/ Accounted(t)
<1>1. TypeOK /\ UNCHANGED <<accepts, fence>> /\ SafeLease(t, f) /\ phase[t][f] \in Failed
  BY DEF Books, IInv, RetryOrStop, SafeLeases
<1>2. ASSUME OpenPermits(t)' = OpenPermits(t),
             f \notin OpenPermits(t) \/ taskStatus'[t] # "pending" \/ UNCHANGED taskStatus
      PROVE  Quiet(t)
  <2>1. \/ UNCHANGED taskStatus
        \/ f = fence[t] /\ taskStatus[t] # "succeeded" /\ taskStatus'[t] # "succeeded"
    BY <1>1, RetryStatus, SetTaskValue
  <2> QED
    BY <1>1, <1>2, <2>1 DEF Quiet
<1>3. CASE phase[t][f] \in Unsent /\ permit[t][f] = "reserved" /\ SetPermit(t, f, "released")
  <2>1. f \in OpenPermits(t)
    BY <1>3 DEF OpenPermits
  <2>2. \/ UNCHANGED taskStatus
        \/ f = fence[t] /\ taskStatus[t] # "succeeded" /\ taskStatus'[t] # "succeeded"
    BY <1>1, RetryStatus, SetTaskValue
  <2> QED
    BY <1>1, <1>3, <2>1, <2>2, PermitAccounted
<1>4. CASE phase[t][f] = "failed_unknown" /\ SetPermit(t, f, "unknown")
  <2>1. f \in OpenPermits(t)
    BY <1>1, <1>4 DEF OpenPermits, SafeLease, PaidPhases
  <2>2. OpenPermits(t)' = OpenPermits(t)
    BY <1>1, <1>4, <2>1, PermitStaysOpen
  <2>3. UNCHANGED taskStatus \/ taskStatus'[t] # "pending"
    <3>1. UNCHANGED taskStatus \/ \E s : s # "pending" /\ SetTask(t, s)
      BY <1>4 DEF RetryOrStop, Reschedule, RetryUnsent, RepairInvalid, StopUnknown, StopConfig, StopUnit, SetTask
    <3> QED
      BY <1>1, <3>1, SetTaskValue
  <2> QED
    BY <1>2, <2>2, <2>3
<1>5. CASE UNCHANGED permit
  <2>1. OpenPermits(t)' = OpenPermits(t)
    BY <1>5 DEF OpenPermits
  <2>2. UNCHANGED taskStatus \/ taskStatus'[t] # "pending" \/ f \notin OpenPermits(t)
    <3>1. CASE permit[t][f] \in {"reserved", "unknown"}
      <4>1. permit[t][f] # "settled" /\ permit[t][f] # "none"
        BY <3>1
      <4>2. UNCHANGED taskStatus \/ ~(phase[t][f] \in Unsent)
        BY <1>5, <3>1, <1>1, SetPermitValue DEF RetryOrStop, ReleaseRefused, ClassifyMoney
      <4>3. phase[t][f] \in SettledPhases => permit[t][f] = "settled"
        BY <1>1 DEF SafeLease
      <4>4. UNCHANGED taskStatus \/ phase[t][f] = "failed_unknown"
        BY <1>1, <4>1, <4>2, <4>3 DEF Failed, SettledPhases
      <4>5. phase[t][f] = "failed_unknown" =>
              UNCHANGED taskStatus \/ \E s : s # "pending" /\ SetTask(t, s)
        BY DEF RetryOrStop, Reschedule, RetryUnsent, RepairInvalid, StopUnknown, StopConfig, StopUnit, SetTask
      <4> QED
        BY <1>1, <4>4, <4>5, SetTaskValue
    <3>2. CASE permit[t][f] \notin {"reserved", "unknown"}
      BY <3>2 DEF OpenPermits
    <3> QED
      BY <3>1, <3>2
  <2> QED
    BY <1>2, <2>1, <2>2
<1> QED
  BY <1>3, <1>4, <1>5 DEF RetryOrStop, ClassifyMoney

LEMMA HandlerMoney ==
  ASSUME Books, NEW t \in Tasks, NEW f \in Fences, HandleException(t, f)
  PROVE  Quiet(t)
<1>1. TypeOK /\ UNCHANGED <<accepts, fence>>
  BY DEF Books, IInv, HandleException
<1>2. CASE HandleStale(t, f)
  BY <1>1, <1>2, BookkeepingQuiet DEF HandleStale
<1>3. CASE HandleUncertain(t, f)
  <2>1. f = fence[t] /\ taskStatus[t] = "leased" /\ f \in OpenPermits(t)
    BY <1>3 DEF HandleUncertain, HandlerMayWrite, Leased, Uncertain, OpenPermits
  <2>2. OpenPermits(t)' = OpenPermits(t)
    BY <1>1, <1>3, <2>1, PermitStaysOpen DEF HandleUncertain
  <2> QED
    BY <1>1, <1>3, <2>1, <2>2, StatusQuiet DEF HandleUncertain
<1>4. CASE HandleYield(t, f) \/ HandleFailure(t, f)
  <2>1. f = fence[t] /\ taskStatus[t] = "leased" /\ f \notin OpenPermits(t) /\ UNCHANGED permit
    BY <1>4 DEF HandleYield, HandleFailure, HandlerMayWrite, Leased, Uncertain, OpenPermits
  <2>2. OpenPermits(t)' = OpenPermits(t)
    BY <2>1 DEF OpenPermits
  <2> QED
    BY <1>1, <1>4, <2>1, <2>2, StatusQuiet DEF HandleYield, HandleFailure
<1> QED
  BY <1>2, <1>3, <1>4 DEF HandleException

LEMMA ThreadMoney ==
  ASSUME Books, NEW t \in Tasks, NEW f \in Fences, Thread(t, f)
  PROVE  Quiet(t) \/ MoneyStep(t)
<1>1. CASE Snapshot(t, f) \/ ProviderReturns(t, f) \/ Checkpoint(t, f) \/ Raise(t, f) \/ Dies(t, f)
  BY <1>1, BookkeepingQuiet DEF Snapshot, ProviderReturns, Checkpoint, Raise, Dies, taskVars, attemptVars
<1> QED
  BY <1>1, AuthorizeMoney, WaitMoney, SettleMoney, CommitMoney, RetryMoney, HandlerMoney
     DEF Thread, ThreadStep, MoneyStep

LEMMA ApiMoney ==
  ASSUME Books, Api
  PROVE  \/ \A u \in Tasks : Quiet(u)
         \/ \E t \in Tasks : Accepted(t) /\ \A u \in Tasks \ {t} : Quiet(u)
<1>1. TypeOK
  BY DEF Books, IInv
<1>2. CASE UNCHANGED <<taskVars, attemptVars>>
  BY <1>2, UntouchedQuiet DEF taskVars, attemptVars
<1>3. ASSUME NEW t \in Tasks, NEW f \in Fences, ResolveRetry(t, f)
      PROVE  Accepted(t) /\ \A u \in Tasks \ {t} : Quiet(u)
  <2>1. permit[t][f] = "unknown" /\ UNCHANGED <<permit, fence>>
    BY <1>3 DEF ResolveRetry, MayAccept, Books, Rows, RowsAgree, attemptVars
  <2>2. f \in OpenPermits(t) /\ OpenPermits(t)' = OpenPermits(t)
    BY <2>1 DEF OpenPermits
  <2>3. \A u \in Tasks : accepts'[u] = IF u = t THEN accepts[t] + 1 ELSE accepts[u]
    BY <1>1, <1>3 DEF ResolveRetry, TypeOK
  <2>4. \A u \in Tasks : taskStatus'[u] = IF u = t THEN "pending" ELSE taskStatus[u]
    BY <1>1, <1>3, SetTaskValue DEF ResolveRetry
  <2>5. \A u \in Tasks \ {t} : Quiet(u)
    BY <2>1, <2>3, <2>4, UntouchedQuiet
  <2> QED
    BY <1>3, <2>1, <2>2, <2>3, <2>4, <2>5 DEF Accepted, ResolveRetry, MayAccept
<1>4. CASE Cleanup
  BY <1>4 DEF Cleanup, Quiet, OpenPermits
<1> QED
  BY <1>2, <1>3, <1>4 DEF Api, Pause, Cancel, Resume, ResolveStop, ReplaceSource, DeleteDocument

LEMMA MaintenanceMoney ==
  ASSUME Books, MaintenanceOn \/ MaintenanceOff, NEW u \in Tasks
  PROVE  Quiet(u)
<1>1. CASE MaintenanceOn
  <2>1. OpenPermits(u)' = OpenPermits(u)
    BY <1>1 DEF MaintenanceOn, OpenPermits
  <2>2. taskStatus[u] = "succeeded" => ~Inflight(u)
    BY DEF Books, IInv, SafeLeases, SafeLease, Inflight
  <2> QED
    BY <1>1, <2>1, <2>2 DEF MaintenanceOn, Quiet
<1>2. CASE MaintenanceOff
  BY <1>2, UntouchedQuiet DEF MaintenanceOff, taskVars, attemptVars
<1> QED
  BY <1>1, <1>2

\* Every step is quiet for every unit, or does one thing about the money of one
\* unit and is quiet for the others.
LEMMA NextMoney ==
  ASSUME Books, [Next]_vars
  PROVE  \/ \A u \in Tasks : Quiet(u)
         \/ \E t \in Tasks : MoneyStep(t) /\ \A u \in Tasks \ {t} : Quiet(u)
<1>1. CASE UNCHANGED vars
  BY <1>1, UntouchedQuiet DEF vars, taskVars, attemptVars
<1>2. ASSUME NEW t \in Tasks, Queue(t) \/ \E f \in Fences : Thread(t, f)
      PROVE  (Quiet(t) \/ MoneyStep(t)) /\ \A u \in Tasks \ {t} : Quiet(u)
  <2>1. \A u \in Tasks \ {t} : Quiet(u)
    BY <1>2, OthersQuiet DEF Books, IInv
  <2> QED
    BY <1>2, <2>1, QueueQuiet, ThreadMoney
<1>3. CASE Api
  BY <1>3, ApiMoney DEF MoneyStep
<1>4. CASE MaintenanceOn \/ MaintenanceOff
  BY <1>4, MaintenanceMoney
<1> QED
  BY <1>1, <1>2, <1>3, <1>4 DEF Next

-----------------------------------------------------------------------------
(* Open charges                                                             *)

\* UncertainNeedsAcceptance alone is not inductive: what may be open depends on
\* whether the unit may be sent again.  Beside the charge of its last lease, a
\* unit has no more open charges than the user accepted; and a unit in the
\* queue, which will be sent again, has no more of them altogether.
Cleared(t) ==
  /\ Cardinality(OpenPermits(t) \ {fence[t]}) <= accepts[t]
  /\ taskStatus[t] = "pending" => Cardinality(OpenPermits(t)) <= accepts[t]

ClearedUnits == \A t \in Tasks : Cleared(t)

LEMMA InitCleared == Init => ClearedUnits
<1> SUFFICES ASSUME Init, NEW t \in Tasks PROVE Cleared(t)
  BY DEF ClearedUnits
<1>1. OpenPermits(t) = {} /\ accepts[t] = 0
  BY DEF Init, OpenPermits
<1> QED
  BY <1>1, NoFences DEF Cleared

\* How many charges of a unit are open, with and without its last lease.
LEMMA OpenCounts ==
  ASSUME NEW t, NEW n
  PROVE  /\ OpenPermits(t) \in SUBSET Fences /\ OpenPermits(t) \ {n} \in SUBSET Fences
         /\ Cardinality(OpenPermits(t)) \in Nat
         /\ Cardinality(OpenPermits(t) \ {n}) \in Nat
         /\ Cardinality(OpenPermits(t)) =
              IF n \in OpenPermits(t) THEN Cardinality(OpenPermits(t) \ {n}) + 1
                                      ELSE Cardinality(OpenPermits(t) \ {n})
<1>1. OpenPermits(t) \in SUBSET Fences /\ OpenPermits(t) \ {n} \in SUBSET Fences
  BY PermitSets
<1>2. Cardinality(OpenPermits(t)) \in Nat /\ Cardinality(OpenPermits(t) \ {n}) \in Nat
  BY <1>1, FencesFinite
<1> QED
  BY <1>1, <1>2, FenceRemoved

LEMMA QuietCleared ==
  ASSUME TypeOK, NEW t \in Tasks, Cleared(t), Quiet(t)
  PROVE  Cleared(t)'
<1>1. accepts[t] \in Nat
  BY DEF TypeOK
<1>2. Cardinality(OpenPermits(t) \ {fence'[t]}) <= accepts[t]
  <2>1. CASE fence'[t] = fence[t]
    BY <2>1 DEF Cleared
  <2>2. CASE taskStatus[t] = "pending"
    BY <1>1, <2>2, OpenCounts DEF Cleared
  <2> QED
    BY <2>1, <2>2 DEF Quiet
<1>3. taskStatus'[t] = "pending" => Cardinality(OpenPermits(t)) <= accepts[t]
  BY <1>1, OpenCounts DEF Cleared, Quiet
<1> QED
  BY <1>2, <1>3 DEF Cleared, Quiet

LEMMA MoneyCleared ==
  ASSUME TypeOK, NEW t \in Tasks, Cleared(t), MoneyStep(t)
  PROVE  Cleared(t)'
<1>1. accepts[t] \in Nat
  BY DEF TypeOK
<1>2. CASE Dispatched(t)
  <2>1. OpenPermits(t)' \ {fence[t]} = OpenPermits(t) \ {fence[t]}
    BY <1>2 DEF Dispatched
  <2> QED
    BY <1>2, <2>1 DEF Dispatched, Cleared
<1>3. CASE Accounted(t)
  <2>1. PICK f \in OpenPermits(t) : OpenPermits(t)' = OpenPermits(t) \ {f}
    BY <1>3 DEF Accounted
  <2> DEFINE S == OpenPermits(t) \ {f}
  <2>2. S \in SUBSET Fences /\ S \ {fence[t]} \in SUBSET Fences /\ S \ {fence[t]} \in SUBSET (OpenPermits(t) \ {fence[t]})
    BY PermitSets
  <2>3. Cardinality(S \ {fence[t]}) <= Cardinality(OpenPermits(t) \ {fence[t]})
    BY <2>2, OpenCounts, FewerFences
  <2>4. /\ Cardinality(S) \in Nat /\ Cardinality(S \ {fence[t]}) \in Nat
        /\ Cardinality(OpenPermits(t)) = Cardinality(S) + 1
        /\ fence[t] \notin S => S \ {fence[t]} = S
    BY <2>2, FencesFinite, OpenCounts
  <2>5. Cardinality(S \ {fence[t]}) <= accepts[t]
    BY <1>1, <2>3, <2>4, OpenCounts DEF Cleared
  <2>6. taskStatus'[t] = "pending" => Cardinality(S) <= accepts[t]
    <3>1. CASE taskStatus[t] = "pending"
      BY <1>1, <2>4, <3>1, OpenCounts DEF Cleared
    <3> QED
      BY <1>3, <2>1, <2>4, <2>5, <3>1 DEF Accounted
  <2> QED
    BY <1>3, <2>1, <2>5, <2>6 DEF Accounted, Cleared
<1>4. CASE Accepted(t)
  <2>1. Cardinality(OpenPermits(t)) <= accepts[t] + 1
    BY <1>1, OpenCounts DEF Cleared
  <2>2. Cardinality(OpenPermits(t) \ {fence[t]}) <= accepts[t] + 1
    BY <1>1, OpenCounts DEF Cleared
  <2> QED
    BY <1>4, <2>1, <2>2 DEF Accepted, Cleared
<1>5. CASE Delivered(t)
  BY <1>5 DEF Delivered, Cleared
<1> QED
  BY <1>2, <1>3, <1>4, <1>5 DEF MoneyStep

LEMMA NextCleared == Books /\ ClearedUnits /\ [Next]_vars => ClearedUnits'
<1> SUFFICES ASSUME Books, ClearedUnits, [Next]_vars, NEW t \in Tasks PROVE Cleared(t)'
  BY DEF ClearedUnits
<1>1. TypeOK /\ Cleared(t)
  BY DEF Books, IInv, ClearedUnits
<1>2. Quiet(t) \/ MoneyStep(t)
  BY NextMoney
<1> QED
  BY <1>1, <1>2, QuietCleared, MoneyCleared

\* A unit is never sent again over an open charge the user has not accepted to
\* pay twice.
THEOREM ClearedBeforeSending == Spec => []ClearedUnits
<1>1. Books /\ ClearedUnits /\ [Next]_vars => Books' /\ ClearedUnits'
  BY NextBooks, NextCleared
<1> QED
  BY <1>1, InitBooks, InitCleared, PTL DEF Spec

\* However a unit is recovered, retried, resolved and answered late, at most
\* one more of its charges is open than the user accepted.
THEOREM UncertainAccepted == Spec => []UncertainNeedsAcceptance
<1>1. TypeOK /\ ClearedUnits => UncertainNeedsAcceptance
  <2> SUFFICES ASSUME TypeOK, ClearedUnits, NEW t \in Tasks
               PROVE  Cardinality(OpenPermits(t)) <= 1 + accepts[t]
    BY DEF UncertainNeedsAcceptance
  <2>1. accepts[t] \in Nat /\ Cleared(t)
    BY DEF TypeOK, ClearedUnits
  <2> QED
    BY <2>1, OpenCounts DEF Cleared
<1> QED
  BY <1>1, ClearedBeforeSending, TypeCorrect, PTL

-----------------------------------------------------------------------------
(* The queue implements PaidUnit                                            *)

\* The variables of PaidUnit, read off the queue.
OpenCount == [t \in Tasks |-> Cardinality(OpenPermits(t))]
Success == [t \in Tasks |-> taskStatus[t] = "succeeded"]

LEMMA InitMoney == Init => Money!Init
<1> SUFFICES ASSUME Init PROVE Money!Init
  OBVIOUS
<1>1. \A t \in Tasks : OpenPermits(t) = {}
  BY DEF Init, OpenPermits
<1>2. OpenCount = [t \in Tasks |-> 0]
  BY <1>1, NoFences DEF OpenCount
<1>3. \A t \in Tasks : ~(taskStatus[t] = "succeeded")
  BY DEF Init
<1>4. Success = [t \in Tasks |-> FALSE]
  BY <1>3 DEF Success
<1>5. accepts = [t \in Tasks |-> 0]
  BY DEF Init
<1> QED
  BY <1>2, <1>4, <1>5 DEF Money!Init, OpenCount, Success

\* What a step quiet for some units leaves of the variables of PaidUnit.
LEMMA QuietRest ==
  ASSUME NEW u \in Tasks, Quiet(u)
  PROVE  /\ OpenCount'[u] = OpenCount[u]
         /\ accepts'[u] = accepts[u]
         /\ Success'[u] = Success[u]
  BY DEF Quiet, OpenCount, Success

\* A variable that changes at one unit.
LEMMA AtOneUnit ==
  ASSUME NEW A, NEW B, A = [u \in Tasks |-> A[u]], B = [u \in Tasks |-> B[u]],
         NEW t \in Tasks, \A u \in Tasks \ {t} : B[u] = A[u]
  PROVE  B = [A EXCEPT ![t] = B[t]]
  OBVIOUS

LEMMA SameEverywhere ==
  ASSUME NEW A, NEW B, A = [u \in Tasks |-> A[u]], B = [u \in Tasks |-> B[u]],
         \A u \in Tasks : B[u] = A[u]
  PROVE  B = A
  OBVIOUS

LEMMA StepMoney == Books /\ Books' /\ ClearedUnits /\ [Next]_vars => [Money!Next]_(Money!vars)
<1> SUFFICES ASSUME Books, Books', ClearedUnits, [Next]_vars PROVE [Money!Next]_(Money!vars)
  OBVIOUS
<1> DEFINE Unchanged == OpenCount' = OpenCount /\ accepts' = accepts /\ Success' = Success
<1>1. /\ accepts = [u \in Tasks |-> accepts[u]] /\ accepts' = [u \in Tasks |-> accepts'[u]]
      /\ \A u \in Tasks : accepts[u] \in Nat
  BY DEF Books, IInv, TypeOK
<1>2. /\ OpenCount = [u \in Tasks |-> OpenCount[u]] /\ OpenCount' = [u \in Tasks |-> OpenCount'[u]]
      /\ Success = [u \in Tasks |-> Success[u]] /\ Success' = [u \in Tasks |-> Success'[u]]
  BY DEF OpenCount, Success
<1>3. CASE \A u \in Tasks : Quiet(u)
  <2>1. Unchanged
    BY <1>1, <1>2, <1>3, QuietRest, SameEverywhere
  <2> QED
    BY <2>1 DEF Money!vars, OpenCount, Success
<1>4. ASSUME NEW t \in Tasks, MoneyStep(t), \A u \in Tasks \ {t} : Quiet(u)
      PROVE  Money!Next
  <2>1. /\ OpenCount' = [OpenCount EXCEPT ![t] = OpenCount'[t]]
        /\ accepts' = [accepts EXCEPT ![t] = accepts'[t]]
        /\ Success' = [Success EXCEPT ![t] = Success'[t]]
    BY <1>1, <1>2, <1>4, QuietRest, AtOneUnit
  <2>2. /\ OpenCount[t] = Cardinality(OpenPermits(t)) /\ OpenCount'[t] = Cardinality(OpenPermits(t)')
        /\ Success[t] <=> taskStatus[t] = "succeeded"
        /\ Success'[t] <=> taskStatus'[t] = "succeeded"
    BY DEF OpenCount, Success
  <2>3. /\ OpenCount[t] \in Nat /\ accepts[t] \in Nat /\ Cleared(t)
        /\ OpenPermits(t) \in SUBSET Fences
    BY <1>1, <2>2, OpenCounts DEF ClearedUnits
  <2>4. /\ OpenCount'[t] = OpenCount[t] => OpenCount' = OpenCount
        /\ accepts'[t] = accepts[t] => accepts' = accepts
        /\ Success'[t] = Success[t] => Success' = Success
    <3>1. \A u \in Tasks \ {t} : /\ OpenCount'[u] = OpenCount[u] /\ accepts'[u] = accepts[u]
                                 /\ Success'[u] = Success[u]
      BY <1>4, QuietRest
    <3> QED
      BY <1>1, <1>2, <3>1, SameEverywhere
  <2> HIDE DEF OpenCount, Success
  <2> USE DEF Money!Next
  <2>5. CASE Dispatched(t)
    <3>1. OpenCount'[t] = OpenCount[t] + 1
      BY <2>2, <2>3, <2>5, FenceAdded DEF Dispatched
    <3>2. OpenCount[t] <= accepts[t]
      BY <2>2, <2>3, <2>5, OpenCounts DEF Dispatched, Cleared
    <3>3. ~Success[t] /\ Success' = Success /\ accepts' = accepts
      BY <2>2, <2>4, <2>5 DEF Dispatched, Success
    <3>4. OpenCount' = [OpenCount EXCEPT ![t] = OpenCount[t] + 1]
      BY <2>1, <3>1
    <3>5. Money!Dispatch(t)
      BY <3>2, <3>3, <3>4 DEF Money!Dispatch, Money!Cleared, OpenCount, Success
    <3> QED
      BY <3>5
  <2>6. CASE Accounted(t)
    <3>1. OpenCount'[t] = OpenCount[t] - 1 /\ OpenCount[t] > 0
      BY <2>2, <2>3, <2>6, OpenCounts DEF Accounted
    <3>2. Success' = Success /\ accepts' = accepts
      BY <2>2, <2>4, <2>6 DEF Accounted, Success
    <3>3. OpenCount' = [OpenCount EXCEPT ![t] = OpenCount[t] - 1]
      BY <2>1, <3>1
    <3>4. Money!Account(t)
      BY <3>1, <3>2, <3>3 DEF Money!Account, OpenCount, Success
    <3> QED
      BY <3>4
  <2>7. CASE Accepted(t)
    <3>1. PICK f : f \in OpenPermits(t)
      BY <2>7 DEF Accepted
    <3>2. OpenCount'[t] = OpenCount[t] /\ OpenCount[t] > 0
      <4>1. Cardinality(OpenPermits(t)) = Cardinality(OpenPermits(t) \ {f}) + 1
        BY <3>1, OpenCounts
      <4>2. Cardinality(OpenPermits(t) \ {f}) \in Nat
        BY OpenCounts
      <4> QED
        BY <2>2, <2>7, <4>1, <4>2 DEF Accepted
    <3>3. ~Success[t] /\ Success' = Success /\ OpenCount' = OpenCount
      BY <2>2, <2>4, <2>7, <3>2 DEF Accepted, Success
    <3>4. accepts' = [accepts EXCEPT ![t] = accepts[t] + 1]
      BY <2>1, <2>7 DEF Accepted
    <3>5. Money!AcceptRisk(t)
      BY <3>2, <3>3, <3>4 DEF Money!AcceptRisk, OpenCount, Success
    <3> QED
      BY <3>5
  <2>8. CASE Delivered(t)
    <3>1. OpenCount'[t] = OpenCount[t] /\ OpenCount[t] <= accepts[t]
      BY <2>2, <2>3, <2>8, OpenCounts DEF Delivered, Cleared
    <3>2. accepts' = accepts /\ OpenCount' = OpenCount /\ ~Success[t]
      BY <2>2, <2>4, <2>8, <3>1 DEF Delivered
    <3>3. Success'[t] = TRUE
      BY <2>8 DEF Delivered, Success
    <3>4. Success' = [Success EXCEPT ![t] = TRUE]
      BY <2>1, <3>3
    <3>5. Money!Deliver(t)
      BY <3>1, <3>2, <3>4 DEF Money!Deliver, Money!Cleared, OpenCount, Success
    <3> QED
      BY <3>5
  <2> QED
    BY <1>4, <2>5, <2>6, <2>7, <2>8 DEF MoneyStep
<1> QED
  BY <1>3, <1>4, NextMoney

\* Seen from the money, every behaviour of the queue is one PaidUnit allows: a
\* unit is sent again only when its open charges are accepted, a committed one
\* never, and every charge is accounted for once.
THEOREM QueueImplementsPaidUnit == Spec => ImplementsPaidUnit
<1>1. Books /\ Books' /\ ClearedUnits /\ [Next]_vars => [Money!Next]_(Money!vars)
  BY StepMoney
<1>2. Init => Money!Init
  BY InitMoney
<1> QED
  BY <1>1, <1>2, BooksKept, ClearedBeforeSending, PTL DEF Spec, ImplementsPaidUnit, Money!Spec

-----------------------------------------------------------------------------
(* Completed jobs                                                           *)

Final == {"succeeded", "failed", "cancelled"}
UnitSettled(t) == taskStatus[t] \in Final /\ OpenPermits(t) = {}
CompletedSettled == \A t \in Tasks : jobStatus[JobOf[t]] = "completed" => UnitSettled(t)

LEMMA CompletedMeaning == CompletedSettled <=> CompletedJobsAreSettled
<1>1. ASSUME CompletedSettled, NEW j \in Jobs, jobStatus[j] = "completed"
      PROVE  /\ ~UnknownPermit(j) /\ ~InflightJob(j)
             /\ \A t \in Units(j) : taskStatus[t] \in Final
  <2>1. \A t \in Units(j) : UnitSettled(t)
    BY <1>1 DEF CompletedSettled, Units
  <2> QED
    BY <2>1 DEF UnitSettled, OpenPermits, UnknownPermit, InflightJob, Inflight, Units
<1>2. ASSUME CompletedJobsAreSettled, NEW t \in Tasks, jobStatus[JobOf[t]] = "completed"
      PROVE  UnitSettled(t)
  <2>1. JobOf[t] \in Jobs /\ t \in Units(JobOf[t])
    BY DEF Units
  <2>2. taskStatus[t] \in Final /\ \A f \in Fences : permit[t][f] \notin {"reserved", "unknown"}
    BY <1>2, <2>1 DEF CompletedJobsAreSettled, UnknownPermit, InflightJob, Inflight, Final
  <2> QED
    BY <2>2 DEF UnitSettled, OpenPermits
<1> QED
  BY <1>1, <1>2 DEF CompletedSettled, CompletedJobsAreSettled, Final

LEMMA SetJobValue ==
  ASSUME TypeOK, NEW t \in Tasks, NEW s, SetJob(t, s), NEW j \in Jobs
  PROVE  jobStatus'[j] = IF j = JobOf[t] THEN s ELSE jobStatus[j]
<1>1. jobStatus \in [Jobs -> JobStates]
  BY DEF TypeOK
<1> QED
  BY <1>1 DEF SetJob

\* A unit in its final state leaves it only together with its job.
LEMMA ThreadKeepsFinal ==
  ASSUME TypeOK, NEW t \in Tasks, NEW f \in Fences, Thread(t, f), taskStatus[t] \in Final
  PROVE  taskStatus'[t] \in Final \/ jobStatus'[JobOf[t]] # "completed"
<1>1. CASE UNCHANGED taskStatus
  BY <1>1
<1>2. ASSUME NEW s \in Final, SetTask(t, s) PROVE taskStatus'[t] \in Final
  BY <1>2, SetTaskValue
<1>3. ASSUME NEW s, s # "completed", SetJob(t, s) PROVE jobStatus'[JobOf[t]] # "completed"
  BY <1>3, SetJobValue
<1>4. taskStatus[t] # "leased"
  BY DEF Final
<1>5. CASE Snapshot(t, f) \/ Authorize(t, f) \/ ProviderReturns(t, f) \/ Settle(t, f)
           \/ Checkpoint(t, f) \/ Raise(t, f) \/ Dies(t, f)
  BY <1>1, <1>5 DEF Snapshot, Authorize, ProviderReturns, Settle, Checkpoint, Raise, Dies, taskVars
<1>6. CASE WaitWithoutDispatch(t, f)
  BY <1>1, <1>4, <1>6 DEF WaitWithoutDispatch, Current, Leased
<1>7. CASE Commit(t, f)
  BY <1>1, <1>4, <1>7 DEF Commit, MayCommit, Current, Leased
<1>8. CASE RetryOrStop(t, f)
  BY <1>1, <1>2, <1>3, <1>8
     DEF RetryOrStop, Reschedule, StopUnknown, StopConfig, StopUnit, SetTask, Final
<1>9. CASE HandleException(t, f)
  BY <1>1, <1>4, <1>9
     DEF HandleException, HandleStale, HandleUncertain, HandleYield, HandleFailure, HandlerMayWrite, Leased
<1> QED
  BY <1>5, <1>6, <1>7, <1>8, <1>9 DEF Thread, ThreadStep

LEMMA FinalKept ==
  ASSUME Books, [Next]_vars, NEW u \in Tasks, taskStatus[u] \in Final
  PROVE  taskStatus'[u] \in Final \/ jobStatus'[JobOf[u]] # "completed"
<1>1. TypeOK
  BY DEF Books, IInv
<1>2. CASE taskStatus'[u] \in {taskStatus[u], "cancelled"}
  BY <1>2 DEF Final
<1>3. CASE UNCHANGED vars
  BY <1>2, <1>3 DEF vars, taskVars
<1>4. ASSUME NEW t \in Tasks, Queue(t) \/ \E f \in Fences : Thread(t, f)
      PROVE  taskStatus'[u] \in Final \/ jobStatus'[JobOf[u]] # "completed"
  <2>1. CASE u # t
    BY <1>1, <1>2, <1>4, <2>1, OthersUntouched
  <2>2. CASE u = t /\ Queue(t)
    BY <1>2, <2>2 DEF Queue, Claim, Claimable, LeaseExpires, RecoverExpired, Final
  <2> QED
    BY <1>1, <1>4, <2>1, <2>2, ThreadKeepsFinal
<1>5. CASE Api
  <2>1. ASSUME NEW t \in Tasks, NEW f \in Fences, ResolveRetry(t, f)
        PROVE  taskStatus'[u] \in Final
    BY <1>1, <2>1, SetTaskValue DEF ResolveRetry, MayAccept, Final
  <2>2. CASE Cleanup
    BY <1>2, <2>2 DEF Cleanup
  <2> QED
    BY <1>2, <1>5, <2>1, <2>2
       DEF Api, Pause, Cancel, Resume, ResolveStop, ReplaceSource, DeleteDocument, taskVars
<1>6. CASE MaintenanceOn
  <2>1. CASE Inflight(u)
    <3>1. JobOf[u] \in Jobs /\ InflightJob(JobOf[u])
      BY <2>1 DEF InflightJob, Units
    <3> QED
      BY <1>6, <3>1 DEF MaintenanceOn
  <2> QED
    BY <1>2, <1>6, <2>1 DEF MaintenanceOn
<1>7. CASE MaintenanceOff
  BY <1>2, <1>7 DEF MaintenanceOff, taskVars
<1> QED
  BY <1>3, <1>4, <1>5, <1>6, <1>7 DEF Next

\* A job completes only when it is finalized: its document is there, its units
\* are final, and none of its permits is unknown.
Completes(j) ==
  /\ ~deleted'
  /\ \A u \in Units(j) : taskStatus'[u] \in Final /\ \A g \in Fences : permit'[u][g] # "unknown"

LEMMA FinalizedCompletes ==
  ASSUME TypeOK, TypeOK', NEW t \in Tasks, NEW s, s # "completed", ~deleted',
         SetJob(t, Finalized(JobOf[t], taskStatus', s)),
         \A g \in Fences : permit'[t][g] = "unknown" => permit[t][g] = "unknown",
         \A u \in Tasks \ {t} : permit'[u] = permit[u],
         jobStatus'[JobOf[t]] = "completed"
  PROVE  Completes(JobOf[t])
<1>1. Finalized(JobOf[t], taskStatus', s) = "completed"
  BY SetJobValue
<1>2. /\ \A u \in Units(JobOf[t]) : taskStatus'[u] \notin {"pending", "leased", "outcome_unknown"}
      /\ ~UnknownPermit(JobOf[t])
  BY <1>1 DEF Finalized
<1>3. ASSUME NEW u \in Units(JobOf[t]) PROVE taskStatus'[u] \in Final
  BY <1>2, <1>3 DEF TypeOK, TaskStates, Final, Units
<1>4. ASSUME NEW u \in Units(JobOf[t]), NEW g \in Fences PROVE permit'[u][g] # "unknown"
  BY <1>2, <1>4 DEF UnknownPermit, Units
<1> QED
  BY <1>3, <1>4 DEF Completes

LEMMA CommitCompletes ==
  ASSUME Books, TypeOK', NEW t \in Tasks, NEW f \in Fences, Commit(t, f),
         jobStatus'[JobOf[t]] = "completed", jobStatus[JobOf[t]] # "completed"
  PROVE  Completes(JobOf[t])
<1>1. TypeOK
  BY DEF Books, IInv
<1> DEFINE ts == [taskStatus EXCEPT ![t] = "succeeded"]
<1>2. MayCommit(t, f)
  BY DEF Commit
<1>3. taskStatus' = ts /\ SetJob(t, Finalized(JobOf[t], ts, Finished(JobOf[t], ts))) /\ UNCHANGED permit
  BY <1>2 DEF Commit
<1>4. ~deleted'
  BY <1>2 DEF MayCommit, Current, Commit, envVars
<1>5. Finished(JobOf[t], ts) # "completed"
  BY DEF Finished
<1> QED
  BY <1>1, <1>3, <1>4, <1>5, FinalizedCompletes

LEMMA StopCompletes ==
  ASSUME Books, TypeOK', NEW t \in Tasks, NEW f \in Fences, RetryOrStop(t, f),
         jobStatus'[JobOf[t]] = "completed", jobStatus[JobOf[t]] # "completed"
  PROVE  Completes(JobOf[t])
<1>1. TypeOK
  BY DEF Books, IInv
<1> DEFINE ts == [taskStatus EXCEPT ![t] = "failed"]
<1>2. ASSUME NEW s, s # "completed", SetJob(t, s) PROVE FALSE
  BY <1>1, <1>2, SetJobValue
<1>3. MayReschedule(t, f) /\ StopUnit(t, f) /\ ClassifyMoney(t, f)
  BY <1>2 DEF RetryOrStop, Reschedule, StopUnknown, StopConfig
<1>4. ~deleted'
  BY <1>3 DEF MayReschedule, RetryOrStop, envVars
<1>5. taskStatus' = ts /\ SetJob(t, Finalized(JobOf[t], ts, "pending"))
  BY <1>3 DEF StopUnit
<1>6. UNCHANGED permit \/ SetPermit(t, f, "released")
  BY <1>3 DEF ClassifyMoney, StopUnit
<1>7. /\ \A g \in Fences : permit'[t][g] = "unknown" => permit[t][g] = "unknown"
      /\ \A u \in Tasks \ {t} : permit'[u] = permit[u]
  BY <1>1, <1>6, SetPermitValue, OtherRow
<1> QED
  BY <1>1, <1>4, <1>5, <1>7, FinalizedCompletes

LEMMA JobCompletes ==
  ASSUME Books, TypeOK', [Next]_vars, NEW j \in Jobs,
         jobStatus'[j] = "completed", jobStatus[j] # "completed"
  PROVE  Completes(j)
<1>1. TypeOK
  BY DEF Books, IInv
<1>2. CASE UNCHANGED jobStatus
  BY <1>2
<1>3. ASSUME NEW t \in Tasks, NEW s, SetJob(t, s), s # "completed" \/ JobOf[t] # j
      PROVE  Completes(j)
  BY <1>1, <1>3, SetJobValue
<1>4. ASSUME NEW t \in Tasks, NEW f \in Fences, Thread(t, f) PROVE Completes(j)
  <2>1. CASE Snapshot(t, f) \/ Authorize(t, f) \/ ProviderReturns(t, f) \/ Settle(t, f)
             \/ Checkpoint(t, f) \/ Raise(t, f) \/ Dies(t, f)
    BY <1>2, <2>1 DEF Snapshot, Authorize, ProviderReturns, Settle, Checkpoint, Raise, Dies, jobVars
  <2>2. CASE WaitWithoutDispatch(t, f)
    <3>1. StatusWhileWaiting(phase[t][f]) # "completed"
      BY <2>2 DEF WaitWithoutDispatch, Waiting, StatusWhileWaiting
    <3> QED
      BY <1>2, <1>3, <2>2, <3>1 DEF WaitWithoutDispatch
  <2>3. CASE Commit(t, f)
    BY <1>2, <1>3, <2>3, CommitCompletes DEF Commit
  <2>4. CASE RetryOrStop(t, f)
    BY <1>2, <1>3, <2>4, StopCompletes DEF RetryOrStop, Reschedule, StopUnknown, StopConfig, StopUnit
  <2>5. CASE HandleException(t, f)
    BY <1>2, <1>3, <2>5
       DEF HandleException, HandleStale, HandleUncertain, HandleYield, HandleFailure
  <2> QED
    BY <1>4, <2>1, <2>2, <2>3, <2>4, <2>5 DEF Thread, ThreadStep
<1>5. ASSUME NEW t \in Tasks, Queue(t) PROVE Completes(j)
  <2>1. CASE Claim(t)
    BY <1>3, <2>1 DEF Claim
  <2>2. CASE LeaseExpires(t)
    BY <1>2, <2>2 DEF LeaseExpires, jobVars
  <2>3. CASE RecoverUncertain(t, fence[t]) \/ RecoverCancelled(t, fence[t])
    BY <1>2, <1>3, <2>3 DEF RecoverUncertain, RecoverCancelled
  <2>4. CASE RecoverCheckpoint(t, fence[t])
    BY <1>1, <2>4 DEF RecoverCheckpoint, TypeOK
  <2>5. CASE RecoverUnpaid(t, fence[t])
    <3>1. CASE SetJob(t, "failed")
      BY <1>3, <3>1
    <3>2. CASE jobStatus' = [jobStatus EXCEPT ![JobOf[t]] = Requeued(@)]
      BY <1>1, <3>2 DEF TypeOK, Requeued
    <3> QED
      BY <2>5, <3>1, <3>2 DEF RecoverUnpaid
  <2> QED
    BY <1>5, <2>1, <2>2, <2>3, <2>4, <2>5 DEF Queue, RecoverExpired
<1>6. CASE Api
  <2>1. ASSUME NEW k \in Jobs, Pause(k) \/ Cancel(k) \/ Resume(k) PROVE Completes(j)
    BY <1>1, <2>1 DEF Pause, Cancel, Resume, TypeOK
  <2>2. ASSUME NEW t \in Tasks, NEW f \in Fences, ResolveStop(t, f) \/ ResolveRetry(t, f)
        PROVE  Completes(j)
    BY <1>3, <2>2 DEF ResolveStop, ResolveRetry
  <2>3. CASE ReplaceSource \/ DeleteDocument
    BY <2>3 DEF ReplaceSource, DeleteDocument
  <2>4. CASE Cleanup
    BY <1>2, <2>4 DEF Cleanup, jobVars
  <2> QED
    BY <1>6, <2>1, <2>2, <2>3, <2>4 DEF Api
<1>7. CASE MaintenanceOn \/ MaintenanceOff
  BY <1>2, <1>7 DEF MaintenanceOn, MaintenanceOff, jobVars
<1>8. CASE UNCHANGED vars
  BY <1>2, <1>8 DEF vars, jobVars
<1> QED
  BY <1>4, <1>5, <1>6, <1>7, <1>8 DEF Next

LEMMA NextCompleted == Books /\ Books' /\ CompletedSettled /\ [Next]_vars => CompletedSettled'
<1> SUFFICES ASSUME Books, Books', CompletedSettled, [Next]_vars,
                    NEW u \in Tasks, jobStatus'[JobOf[u]] = "completed"
             PROVE  UnitSettled(u)'
  BY DEF CompletedSettled
<1>1. CASE jobStatus[JobOf[u]] = "completed"
  <2>1. taskStatus[u] \in Final /\ OpenPermits(u) = {}
    BY <1>1 DEF CompletedSettled, UnitSettled
  <2>2. taskStatus'[u] \in Final
    BY <2>1, FinalKept
  <2>3. Quiet(u) \/ MoneyStep(u)
    BY NextMoney
  <2>4. OpenPermits(u)' = {}
    BY <2>1, <2>3 DEF Quiet, MoneyStep, Dispatched, Accounted, Accepted, Delivered, Final
  <2> QED
    BY <2>2, <2>4 DEF UnitSettled, Final
<1>2. CASE jobStatus[JobOf[u]] # "completed"
  <2>1. Completes(JobOf[u]) /\ u \in Units(JobOf[u])
    BY <1>2, JobCompletes DEF Books, IInv, Units
  <2>2. taskStatus'[u] \in Final /\ ~deleted' /\ \A g \in Fences : permit'[u][g] # "unknown"
    BY <2>1 DEF Completes
  <2>3. ASSUME NEW g \in Fences PROVE permit'[u][g] # "reserved"
    <3>1. permit'[u][g] = "reserved" => taskStatus'[u] \in {"leased", "cancelled"}
      BY DEF Books, IInv, SafeLeases, SafeLease, Fences
    <3>2. permit'[u][g] = "reserved" /\ taskStatus'[u] = "cancelled" => deleted'
      BY DEF Books, Rows, RowsAgree, Fences
    <3> QED
      BY <2>2, <3>1, <3>2 DEF Final
  <2> QED
    BY <2>2, <2>3 DEF UnitSettled, OpenPermits, Final
<1> QED
  BY <1>1, <1>2

\* A job reported completed has no unit waiting, running or unresolved and no
\* open charge, and keeps it so whatever threads of it are still alive.
THEOREM CompletedOwesNothing == Spec => []CompletedJobsAreSettled
<1>1. Init => CompletedSettled
  BY DEF Init, CompletedSettled
<1>2. Books /\ Books' /\ CompletedSettled /\ [Next]_vars => CompletedSettled'
  BY NextCompleted
<1>3. CompletedSettled => CompletedJobsAreSettled
  BY CompletedMeaning
<1> QED
  BY <1>1, <1>2, <1>3, BooksKept, PTL DEF Spec

-----------------------------------------------------------------------------
(* How often a unit is sent                                                 *)

\* A validated response stays evidence until its document is cleaned up.
EvidenceKept(u) ==
  \A g \in Fences : SettledUnit(u, g) =>
    SettledUnit(u, g)' /\ leaseRepair'[u][g] = leaseRepair[u][g]

LEMMA EvidenceCheckpoint ==
  ASSUME NEW u \in Tasks, NEW r, HasCheckpoint(u, r), EvidenceKept(u)
  PROVE  \E g \in Fences : SettledUnit(u, g)' /\ leaseRepair'[u][g] = r
  BY DEF HasCheckpoint, EvidenceKept

\* An attempt that has not settled can be written, and a created one closed,
\* without losing evidence.
LEMMA EvidenceWritten ==
  ASSUME Books, NEW t \in Tasks, NEW f \in Fences, NEW u \in Tasks, UNCHANGED <<leaseRepair, validated>>,
         \/ UNCHANGED attState
         \/ CloseCreated(t, f)
         \/ permit[t][f] # "settled" /\ \E s : SetAttempt(t, f, s)
  PROVE  EvidenceKept(u)
<1> SUFFICES ASSUME NEW g \in Fences, SettledUnit(u, g)
             PROVE  attState'[u][g] = "settled" /\ validated'[u][g]
  BY DEF EvidenceKept, SettledUnit, Fences
<1>1. TypeOK /\ permit[u][g] = "settled" /\ attState[u][g] = "settled" /\ validated[u][g]
  BY DEF Books, IInv, Rows, RowsAgree, SettledUnit
<1> QED
  BY <1>1, CloseCreatedValue, SetAttemptValue

LEMMA ThreadKeepsEvidence ==
  ASSUME Books, NEW t \in Tasks, NEW f \in Fences, Thread(t, f), NEW u \in Tasks
  PROVE  EvidenceKept(u)
<1>1. SafeLease(t, f) /\ RowsAgree(t, f)
  BY DEF Books, IInv, SafeLeases, Rows
<1>2. CASE UNCHANGED <<attState, leaseRepair, validated>>
  BY <1>2, EvidenceWritten
<1>3. CASE Snapshot(t, f) \/ ProviderReturns(t, f) \/ Raise(t, f) \/ Dies(t, f)
  BY <1>2, <1>3 DEF Snapshot, ProviderReturns, Raise, Dies, attemptVars
<1>4. CASE Authorize(t, f)
  BY <1>4, EvidenceWritten DEF Authorize, Reserve, DoNotReserve
<1>5. CASE WaitWithoutDispatch(t, f)
  <2>1. permit[t][f] = "none"
    BY <1>1, <1>5 DEF WaitWithoutDispatch, SafeLease, UnpaidPhases
  <2> QED
    BY <1>5, <2>1, EvidenceWritten DEF WaitWithoutDispatch
<1>6. CASE Settle(t, f)
  BY <1>6, EvidenceWritten DEF Settle, Uncertain
<1>7. CASE Checkpoint(t, f)
  <2>1. \A v \in Tasks, g \in Fences : validated[v][g] => validated'[v][g]
    <3>1. validated \in [Tasks -> [Fences -> BOOLEAN]]
      BY DEF Books, IInv, TypeOK
    <3>2. UNCHANGED validated \/ validated' = [validated EXCEPT ![t][f] = TRUE]
      BY <1>7 DEF Checkpoint
    <3>3. ASSUME NEW v \in Tasks, NEW g \in Fences, validated' = [validated EXCEPT ![t][f] = TRUE]
          PROVE  validated'[v][g] = IF v = t /\ g = f THEN TRUE ELSE validated[v][g]
      BY <3>1, <3>3
    <3> QED
      BY <3>2, <3>3
  <2> QED
    BY <1>7, <2>1 DEF Checkpoint, EvidenceKept, SettledUnit, Fences
<1>8. CASE Commit(t, f)
  BY <1>8, EvidenceWritten DEF Commit
<1>9. CASE RetryOrStop(t, f)
  BY <1>9, EvidenceWritten DEF RetryOrStop, ClassifyMoney
<1>10. CASE HandleException(t, f)
  BY <1>10, EvidenceWritten
     DEF HandleException, HandleStale, HandleUncertain, HandleYield, HandleFailure, Uncertain
<1> QED
  BY <1>3, <1>4, <1>5, <1>6, <1>7, <1>8, <1>9, <1>10 DEF Thread, ThreadStep

LEMMA QueueKeepsEvidence ==
  ASSUME Books, NEW t \in Tasks, Queue(t), NEW u \in Tasks
  PROVE  EvidenceKept(u)
<1>1. TypeOK
  BY DEF Books, IInv
<1>2. CASE Claim(t)
  <2> SUFFICES ASSUME NEW g \in Fences, SettledUnit(u, g)
               PROVE  SettledUnit(u, g)' /\ leaseRepair'[u][g] = leaseRepair[u][g]
    BY DEF EvidenceKept
  <2>1. permit[u][g] = "settled" /\ SafeLease(u, g) /\ fence[t] \in 0 .. MaxFence
    BY DEF Books, IInv, TypeOK, SafeLeases, Rows, RowsAgree, SettledUnit
  <2>2. ~(u = t /\ g = fence[t] + 1)
    BY <2>1 DEF SafeLease
  <2>3. leaseRepair'[u][g] = leaseRepair[u][g]
    BY <1>1, <1>2, <2>2 DEF Claim, TypeOK
  <2>4. attState'[u][g] = attState[u][g]
    BY <1>1, <1>2, <2>2, SetAttemptValue DEF Claim
  <2> QED
    BY <1>2, <2>3, <2>4 DEF SettledUnit, Claim
<1>3. CASE LeaseExpires(t)
  BY <1>3, EvidenceWritten DEF LeaseExpires, attemptVars, EvidenceKept, SettledUnit
<1>4. CASE RecoverExpired(t)
  <2>1. fence[t] \in Fences
    BY <1>4 DEF RecoverExpired, Books, Numbered
  <2> QED
    BY <1>4, <2>1, EvidenceWritten
       DEF RecoverExpired, RecoverUncertain, RecoverCancelled, RecoverCheckpoint, RecoverUnpaid, Uncertain
<1> QED
  BY <1>2, <1>3, <1>4 DEF Queue

\* The leases that were sent stay the same.
LEMMA PermitPays ==
  ASSUME TypeOK, NEW t \in Tasks, NEW f \in Fences, NEW p, p # "none", SetPermit(t, f, p)
  PROVE  Paid(t)' = Paid(t) \cup {f}
<1>1. \A g \in Fences : permit'[t][g] = IF g = f THEN p ELSE permit[t][g]
  BY SetPermitValue
<1> QED
  BY <1>1 DEF Paid

\* The unit keeps what it has sent and its number of tries.  It comes to the
\* queue only with a checkpoint or with tries left; a leased one keeps its
\* lease, and is prepared only without a checkpoint.
Steady(u) ==
  /\ Paid(u)' = Paid(u) /\ tries'[u] = tries[u]
  /\ taskStatus'[u] = "pending" =>
       \/ taskStatus[u] = "pending" /\ repairs'[u] = repairs[u] /\ EvidenceKept(u)
       \/ HasCheckpoint(u, repairs[u]) /\ repairs'[u] = repairs[u] /\ EvidenceKept(u)
       \/ tries[u] < AttemptLimit
  /\ taskStatus'[u] = "leased" =>
       /\ taskStatus[u] = "leased" /\ fence'[u] = fence[u] /\ EvidenceKept(u)
       /\ repairs'[u] = repairs[u] /\ leaseRepair'[u][fence[u]] = leaseRepair[u][fence[u]]
       /\ permit'[u][fence[u]] = "none" => permit[u][fence[u]] = "none"
       /\ phase'[u][fence[u]] = "prepared" =>
            phase[u][fence[u]] = "prepared" \/ ~HasCheckpoint(u, leaseRepair[u][fence[u]])

\* A lease that sent nothing gives its try back.
GivenBack(u) ==
  /\ taskStatus[u] = "leased" /\ taskStatus'[u] = "pending"
  /\ permit[u][fence[u]] = "none" /\ Paid(u)' = Paid(u)
  /\ tries'[u] = IF tries[u] = 0 THEN 0 ELSE tries[u] - 1
  /\ repairs'[u] = repairs[u] /\ EvidenceKept(u)

\* The unit is claimed: one more try, by a lease that sent nothing yet.
Claimed(u) ==
  /\ taskStatus[u] = "pending" /\ taskStatus'[u] = "leased"
  /\ Paid(u)' = Paid(u) /\ tries'[u] = tries[u] + 1
  /\ repairs'[u] = repairs[u] /\ leaseRepair'[u][fence'[u]] = repairs[u]
  /\ phase'[u][fence'[u]] = "claimed" /\ EvidenceKept(u)

\* The prepared lease of the unit is sent.
Sent(u) ==
  /\ taskStatus[u] = "leased" /\ taskStatus'[u] = "leased"
  /\ phase[u][fence[u]] = "prepared" /\ phase'[u][fence[u]] = "sending"
  /\ permit[u][fence[u]] = "none" /\ permit'[u][fence[u]] # "none"
  /\ Paid(u)' = Paid(u) \cup {fence[u]} /\ tries'[u] = tries[u] /\ fence'[u] = fence[u]
  /\ repairs'[u] = repairs[u] /\ leaseRepair'[u][fence[u]] = leaseRepair[u][fence[u]]
  /\ EvidenceKept(u)

SendStep(u) == Steady(u) \/ GivenBack(u) \/ Claimed(u) \/ Sent(u)

\* AttemptsBounded alone is not inductive.  A unit has a try for each request
\* it sent, one more while its lease has sent nothing; and a unit is tried
\* beyond the limit only to replay a checkpoint, which it does not send.
Sends(u) ==
  /\ Cardinality(Paid(u)) <= AttemptLimit
  /\ Cardinality(Paid(u)) <= tries[u]
  /\ taskStatus[u] = "pending" => HasCheckpoint(u, repairs[u]) \/ tries[u] < AttemptLimit
  /\ taskStatus[u] = "leased" =>
       /\ leaseRepair[u][fence[u]] = repairs[u]
       /\ permit[u][fence[u]] = "none" => Cardinality(Paid(u)) < tries[u]
       /\ HasCheckpoint(u, repairs[u]) \/ tries[u] <= AttemptLimit
       /\ phase[u][fence[u]] = "prepared" => tries[u] <= AttemptLimit

LEMMA SendStepSends ==
  ASSUME Books, NEW u \in Tasks, Sends(u), SendStep(u)
  PROVE  Sends(u)'
<1>1. /\ tries[u] \in Nat /\ Paid(u) \in SUBSET Fences /\ Cardinality(Paid(u)) \in Nat
      /\ AttemptLimit \in Nat \ {0} /\ taskStatus[u] = "leased" => fence[u] \in Fences
  BY PermitSets, FencesFinite DEF Books, IInv, TypeOK, Numbered
<1>2. ASSUME HasCheckpoint(u, repairs[u]), repairs'[u] = repairs[u], EvidenceKept(u)
      PROVE  HasCheckpoint(u, repairs[u])'
  BY <1>2, EvidenceCheckpoint DEF HasCheckpoint, SettledUnit
<1>3. CASE Steady(u)
  <2>1. taskStatus'[u] = "pending" => HasCheckpoint(u, repairs[u])' \/ tries'[u] < AttemptLimit
    BY <1>2, <1>3 DEF Steady, Sends
  <2>2. ASSUME taskStatus'[u] = "leased"
        PROVE  /\ leaseRepair'[u][fence'[u]] = repairs'[u]
               /\ permit'[u][fence'[u]] = "none" => Cardinality(Paid(u)) < tries'[u]
               /\ HasCheckpoint(u, repairs[u])' \/ tries'[u] <= AttemptLimit
               /\ phase'[u][fence'[u]] = "prepared" => tries'[u] <= AttemptLimit
    BY <1>2, <1>3, <2>2 DEF Steady, Sends
  <2> QED
    BY <1>3, <2>1, <2>2 DEF Steady, Sends
<1>4. CASE GivenBack(u)
  <2>1. Cardinality(Paid(u)) < tries[u] /\ tries'[u] = tries[u] - 1
    BY <1>1, <1>4 DEF GivenBack, Sends
  <2>2. HasCheckpoint(u, repairs[u])' \/ tries'[u] < AttemptLimit
    BY <1>1, <1>2, <1>4, <2>1 DEF GivenBack, Sends
  <2> QED
    BY <1>1, <1>4, <2>1, <2>2 DEF GivenBack, Sends
<1>5. CASE Claimed(u)
  <2>1. HasCheckpoint(u, repairs[u])' \/ tries'[u] <= AttemptLimit
    BY <1>1, <1>2, <1>5 DEF Claimed, Sends
  <2> QED
    BY <1>1, <1>5, <2>1 DEF Claimed, Sends
<1>6. CASE Sent(u)
  <2>1. Cardinality(Paid(u)') = Cardinality(Paid(u)) + 1
    <3>1. fence[u] \in Fences /\ fence[u] \notin Paid(u)
      BY <1>1, <1>6 DEF Sent, Paid
    <3> QED
      BY <1>1, <1>6, <3>1, FenceAdded DEF Sent
  <2>2. Cardinality(Paid(u)) < tries[u] /\ tries[u] <= AttemptLimit
    BY <1>6 DEF Sent, Sends
  <2>3. Cardinality(Paid(u)') <= tries[u] /\ Cardinality(Paid(u)') <= AttemptLimit
    BY <1>1, <2>1, <2>2
  <2>4. HasCheckpoint(u, repairs[u])' \/ tries'[u] <= AttemptLimit
    BY <1>6, <2>2 DEF Sent
  <2> QED
    BY <1>6, <2>2, <2>3, <2>4 DEF Sent, Sends
<1> QED
  BY <1>3, <1>4, <1>5, <1>6 DEF SendStep

\* A permit that was asked for stays asked for.
PermitKept(t, f) ==
  \/ UNCHANGED permit
  \/ permit[t][f] # "none" /\ \E q : q # "none" /\ SetPermit(t, f, q)

LEMMA PaidKept ==
  ASSUME TypeOK, NEW t \in Tasks, NEW f \in Fences, PermitKept(t, f)
  PROVE  /\ Paid(t)' = Paid(t)
         /\ \A g \in Fences : permit'[t][g] = "none" => permit[t][g] = "none"
<1>1. CASE UNCHANGED permit
  BY <1>1 DEF Paid
<1>2. ASSUME permit[t][f] # "none", NEW q, q # "none", SetPermit(t, f, q)
      PROVE  \A g \in Fences : permit'[t][g] = "none" <=> permit[t][g] = "none"
  BY <1>2, SetPermitValue
<1> QED
  BY <1>1, <1>2 DEF PermitKept, Paid

\* A thread that moves, and does no more than money.
LEMMA MoveSteady ==
  ASSUME Books, NEW t \in Tasks, NEW f \in Fences, Thread(t, f),
         UNCHANGED <<taskStatus, fence, tries, repairs, leaseRepair>>, PermitKept(t, f),
         NEW p, Goto(t, f, p), p # "prepared" \/ ~HasCheckpoint(t, leaseRepair[t][f])
  PROVE  Steady(t)
<1>1. TypeOK /\ EvidenceKept(t)
  BY ThreadKeepsEvidence DEF Books, IInv
<1>2. Paid(t)' = Paid(t) /\ \A g \in Fences : permit'[t][g] = "none" => permit[t][g] = "none"
  BY <1>1, PaidKept
<1>3. \A g \in Fences : phase'[t][g] = IF g = f THEN p ELSE phase[t][g]
  BY <1>1, GotoValue
<1>4. taskStatus[t] = "leased" => fence[t] \in Fences
  BY DEF Books, Numbered
<1> QED
  BY <1>1, <1>2, <1>3, <1>4 DEF Steady

\* A thread that takes its unit out of the queue, or puts it back with tries left.
LEMMA StatusSteady ==
  ASSUME Books, NEW t \in Tasks, NEW f \in Fences, UNCHANGED tries, PermitKept(t, f),
         NEW s, SetTask(t, s), s # "leased", s = "pending" => tries[t] < AttemptLimit
  PROVE  Steady(t)
<1>1. TypeOK
  BY DEF Books, IInv
<1>2. taskStatus'[t] = s /\ Paid(t)' = Paid(t)
  BY <1>1, SetTaskValue, PaidKept
<1> QED
  BY <1>2 DEF Steady

LEMMA UntryValue ==
  ASSUME TypeOK, NEW t \in Tasks, Untry(t)
  PROVE  tries'[t] = IF tries[t] = 0 THEN 0 ELSE tries[t] - 1
  BY DEF TypeOK, Untry

LEMMA AuthorizeSends ==
  ASSUME Books, NEW t \in Tasks, NEW f \in Fences, Authorize(t, f)
  PROVE  SendStep(t)
<1>1. TypeOK /\ UNCHANGED <<taskStatus, fence, tries, repairs, leaseRepair>> /\ Thread(t, f)
  BY DEF Books, IInv, Authorize, taskVars, Thread, ThreadStep
<1>2. CASE Current(t, f, {"running"}) /\ Reserve(t, f)
  <2>1. f = fence[t] /\ taskStatus[t] = "leased" /\ permit[t][f] = "none" /\ phase[t][f] = "prepared"
    BY <1>2 DEF Current, Leased, Reserve, Authorize
  <2>2. permit'[t][f] = "reserved" /\ phase'[t][f] = "sending" /\ Paid(t)' = Paid(t) \cup {f}
    BY <1>1, <1>2, SetPermitValue, GotoValue, PermitPays DEF Reserve
  <2>3. EvidenceKept(t)
    BY <1>1, ThreadKeepsEvidence
  <2> QED
    BY <1>1, <2>1, <2>2, <2>3 DEF Sent, SendStep
<1>3. CASE UNCHANGED permit /\ \E p : p # "prepared" /\ Goto(t, f, p)
  BY <1>1, <1>3, MoveSteady DEF SendStep, PermitKept
<1> QED
  BY <1>2, <1>3 DEF Authorize, DoNotReserve, Rejection

LEMMA WaitSends ==
  ASSUME Books, NEW t \in Tasks, NEW f \in Fences, WaitWithoutDispatch(t, f)
  PROVE  SendStep(t)
<1>1. /\ TypeOK /\ UNCHANGED <<fence, repairs, leaseRepair, permit>> /\ permit[t][f] = "none"
      /\ Thread(t, f)
  BY DEF Books, IInv, WaitWithoutDispatch, SafeLeases, SafeLease, UnpaidPhases, Thread, ThreadStep
<1>2. CASE Current(t, f, {"running"})
  <2>1. f = fence[t] /\ taskStatus[t] = "leased"
    BY <1>2 DEF Current, Leased
  <2>2. taskStatus'[t] = "pending" /\ tries'[t] = IF tries[t] = 0 THEN 0 ELSE tries[t] - 1
    BY <1>1, <1>2, SetTaskValue, UntryValue DEF WaitWithoutDispatch
  <2>3. EvidenceKept(t) /\ Paid(t)' = Paid(t)
    BY <1>1, ThreadKeepsEvidence DEF Paid
  <2> QED
    BY <1>1, <2>1, <2>2, <2>3 DEF GivenBack, SendStep
<1>3. CASE ~Current(t, f, {"running"})
  <2>1. Rejection(t, f) # "prepared"
    BY DEF Rejection
  <2> QED
    BY <1>1, <1>3, <2>1, MoveSteady DEF WaitWithoutDispatch, SendStep, PermitKept
<1> QED
  BY <1>2, <1>3

LEMMA RetrySends ==
  ASSUME Books, NEW t \in Tasks, NEW f \in Fences, RetryOrStop(t, f)
  PROVE  SendStep(t)
<1>1. /\ SafeLease(t, f) /\ UNCHANGED <<fence, tries, leaseRepair>> /\ Thread(t, f)
  BY DEF Books, IInv, SafeLeases, RetryOrStop, Thread, ThreadStep
<1>2. PermitKept(t, f)
  BY <1>1 DEF RetryOrStop, ClassifyMoney, PermitKept, SafeLease, PaidPhases
<1>3. CASE UNCHANGED <<taskStatus, repairs>>
  <2>1. \E p : p # "prepared" /\ Goto(t, f, p)
    BY DEF RetryOrStop
  <2> QED
    BY <1>1, <1>2, <1>3, <2>1, MoveSteady DEF SendStep
<1>4. CASE \E s : s # "leased" /\ SetTask(t, s) /\ (s = "pending" => tries[t] < AttemptLimit)
  BY <1>1, <1>2, <1>4, StatusSteady DEF SendStep
<1> QED
  BY <1>3, <1>4
     DEF RetryOrStop, Reschedule, RetryUnsent, RepairInvalid, StopUnknown, StopConfig, StopUnit, SetTask

LEMMA HandlerSends ==
  ASSUME Books, NEW t \in Tasks, NEW f \in Fences, HandleException(t, f)
  PROVE  SendStep(t)
<1>1. /\ TypeOK /\ UNCHANGED <<fence, repairs, leaseRepair>> /\ Goto(t, f, "done") /\ Thread(t, f)
      /\ RowsAgree(t, f)
  BY DEF Books, IInv, Rows, HandleException, Thread, ThreadStep
<1>2. CASE HandleStale(t, f)
  BY <1>1, <1>2, MoveSteady DEF HandleStale, SendStep, PermitKept
<1>3. CASE HandleUncertain(t, f)
  BY <1>3, StatusSteady DEF HandleUncertain, Uncertain, SendStep, PermitKept
<1>4. CASE HandleYield(t, f)
  <2>1. f = fence[t] /\ taskStatus[t] = "leased" /\ permit[t][f] = "none" /\ UNCHANGED permit
    BY <1>1, <1>4 DEF HandleYield, HandlerMayWrite, Leased, SiblingWaits, RowsAgree
  <2>2. taskStatus'[t] = "pending" /\ tries'[t] = IF tries[t] = 0 THEN 0 ELSE tries[t] - 1
    BY <1>1, <1>4, <2>1, SetTaskValue, UntryValue DEF HandleYield
  <2>3. EvidenceKept(t) /\ Paid(t)' = Paid(t)
    BY <1>1, <2>1, ThreadKeepsEvidence DEF Paid
  <2> QED
    BY <1>1, <2>1, <2>2, <2>3 DEF GivenBack, SendStep
<1>5. CASE HandleFailure(t, f)
  BY <1>5, StatusSteady DEF HandleFailure, SendStep, PermitKept
<1> QED
  BY <1>2, <1>3, <1>4, <1>5 DEF HandleException

LEMMA ThreadSends ==
  ASSUME Books, NEW t \in Tasks, NEW f \in Fences, Thread(t, f)
  PROVE  SendStep(t)
<1>1. CASE Snapshot(t, f)
  BY <1>1, MoveSteady DEF Snapshot, Rejection, SendStep, PermitKept, taskVars, attemptVars
<1>2. CASE ProviderReturns(t, f) \/ Checkpoint(t, f) \/ Raise(t, f) \/ Dies(t, f)
  <2>1. \E p : p # "prepared" /\ Goto(t, f, p)
    BY <1>2 DEF ProviderReturns, Checkpoint, Raise, Dies, AllOutcomes
  <2> QED
    BY <1>2, <2>1, MoveSteady
       DEF ProviderReturns, Checkpoint, Raise, Dies, SendStep, PermitKept, taskVars, attemptVars
<1>3. CASE Settle(t, f)
  <2>1. AfterSettlement(phase[t][f]) # "prepared"
    BY <1>3 DEF Settle, Returned, AfterSettlement
  <2> QED
    BY <1>3, <2>1, MoveSteady DEF Settle, Uncertain, SendStep, PermitKept, taskVars
<1>4. CASE Commit(t, f)
  <2>1. CASE MayCommit(t, f)
    BY <1>4, <2>1, StatusSteady DEF Commit, SetTask, SendStep, PermitKept
  <2>2. CASE ~MayCommit(t, f)
    BY <1>4, <2>2, MoveSteady DEF Commit, Rejection, SendStep, PermitKept
  <2> QED
    BY <2>1, <2>2
<1> QED
  BY <1>1, <1>2, <1>3, <1>4, AuthorizeSends, WaitSends, RetrySends, HandlerSends DEF Thread, ThreadStep

LEMMA QueueSends ==
  ASSUME Books, NEW t \in Tasks, Queue(t)
  PROVE  SendStep(t)
<1>1. TypeOK /\ EvidenceKept(t)
  BY QueueKeepsEvidence DEF Books, IInv
<1>2. CASE Claim(t)
  <2> DEFINE f == fence[t] + 1
  <2>1. f \in Fences
    <3>1. fence[t] \in 0 .. MaxFence /\ fence[t] < MaxFence
      BY <1>1, <1>2 DEF TypeOK, Claim
    <3> QED
      BY <3>1 DEF Fences
  <2>2. taskStatus[t] = "pending" /\ taskStatus'[t] = "leased" /\ Paid(t)' = Paid(t)
    BY <1>1, <1>2, SetTaskValue DEF Claim, Claimable, Paid
  <2>3. fence'[t] = f /\ tries'[t] = tries[t] + 1 /\ repairs' = repairs
    BY <1>1, <1>2 DEF Claim, TypeOK
  <2>4. leaseRepair'[t][f] = repairs[t]
    BY <1>1, <1>2, <2>1 DEF Claim, TypeOK
  <2>5. phase'[t][f] = "claimed"
    BY <1>1, <1>2, <2>1, GotoValue DEF Claim
  <2> QED
    BY <1>1, <2>2, <2>3, <2>4, <2>5 DEF Claimed, SendStep
<1>3. CASE LeaseExpires(t)
  BY <1>1, <1>3 DEF LeaseExpires, attemptVars, Steady, SendStep, Paid
<1>4. CASE RecoverExpired(t)
  <2>1. fence[t] \in Fences /\ UNCHANGED <<tries, repairs>>
    BY <1>4 DEF RecoverExpired, Books, Numbered
  <2>2. CASE RecoverCheckpoint(t, fence[t])
    <3>1. taskStatus'[t] = "pending" /\ HasCheckpoint(t, repairs[t]) /\ Paid(t)' = Paid(t)
      BY <1>1, <2>2, SetTaskValue DEF RecoverCheckpoint, Paid
    <3> QED
      BY <1>1, <2>1, <3>1 DEF Steady, SendStep
  <2>3. CASE RecoverUncertain(t, fence[t])
    BY <2>1, <2>3, StatusSteady DEF RecoverUncertain, Uncertain, SendStep, PermitKept
  <2>4. CASE RecoverCancelled(t, fence[t])
    BY <2>1, <2>4, StatusSteady DEF RecoverCancelled, SendStep, PermitKept
  <2>5. CASE RecoverUnpaid(t, fence[t])
    <3>1. tries[t] \in Nat /\ AttemptLimit \in Nat
      BY <1>1 DEF TypeOK
    <3>2. \E s : SetTask(t, s) /\ s # "leased" /\ (s = "pending" => tries[t] < AttemptLimit)
      BY <2>5, <3>1 DEF RecoverUnpaid
    <3> QED
      BY <2>1, <2>5, <3>2, StatusSteady DEF RecoverUnpaid, SendStep, PermitKept
  <2> QED
    BY <1>4, <2>2, <2>3, <2>4, <2>5 DEF RecoverExpired
<1> QED
  BY <1>2, <1>3, <1>4 DEF Queue

\* The other units keep their rows, and their threads stay where they are.
LEMMA UntouchedSteady ==
  ASSUME NEW u \in Tasks, EvidenceKept(u), taskStatus'[u] = taskStatus[u], permit'[u] = permit[u],
         fence'[u] = fence[u], tries'[u] = tries[u], repairs'[u] = repairs[u],
         leaseRepair'[u] = leaseRepair[u], phase'[u] = phase[u]
  PROVE  Steady(u)
  BY DEF Steady, Paid

LEMMA OthersSteady ==
  ASSUME Books, NEW t \in Tasks, NEW u \in Tasks, u # t,
         Queue(t) \/ \E f \in Fences : Thread(t, f)
  PROVE  Steady(u)
<1>1. TypeOK
  BY DEF Books, IInv
<1>2. taskStatus'[u] = taskStatus[u] /\ permit'[u] = permit[u] /\ fence'[u] = fence[u]
  BY <1>1, OthersUntouched
<1>3. EvidenceKept(u)
  BY QueueKeepsEvidence, ThreadKeepsEvidence
<1>4. tries'[u] = tries[u]
  <2>1. UNCHANGED tries \/ \E n : tries' = [tries EXCEPT ![t] = n]
    BY DEF Queue, Claim, LeaseExpires, RecoverExpired, Thread, ThreadStep, Snapshot, Authorize, Untry,
           WaitWithoutDispatch, ProviderReturns, Settle, Checkpoint, Commit, RetryOrStop,
           HandleException, HandleStale, HandleUncertain, HandleYield, HandleFailure, Raise, Dies, taskVars
  <2> QED
    BY <1>1, <2>1 DEF TypeOK
<1>5. repairs'[u] = repairs[u]
  <2>1. UNCHANGED repairs \/ \E n : repairs' = [repairs EXCEPT ![t] = n]
    BY DEF Queue, Claim, LeaseExpires, RecoverExpired, Thread, ThreadStep, Snapshot, Authorize,
           WaitWithoutDispatch, ProviderReturns, Settle, Checkpoint, Commit, RetryOrStop, Reschedule,
           StopUnknown, StopConfig, StopUnit, HandleException, Raise, Dies, taskVars
  <2> QED
    BY <1>1, <2>1 DEF TypeOK
<1>6. leaseRepair'[u] = leaseRepair[u]
  <2>1. UNCHANGED leaseRepair \/ \E f, n : leaseRepair' = [leaseRepair EXCEPT ![t][f] = n]
    BY DEF Queue, Claim, LeaseExpires, RecoverExpired, Thread, ThreadStep, Snapshot, Authorize,
           WaitWithoutDispatch, ProviderReturns, Settle, Checkpoint, Commit, RetryOrStop,
           HandleException, Raise, Dies, attemptVars
  <2> QED
    BY <1>1, <2>1 DEF TypeOK
<1>7. phase'[u] = phase[u]
  <2>1. UNCHANGED phase \/ \E f, p : Goto(t, f, p)
    BY DEF Queue, Claim, LeaseExpires, RecoverExpired, Thread, ThreadStep, Snapshot, Authorize, Reserve,
           DoNotReserve, WaitWithoutDispatch, ProviderReturns, Settle, Checkpoint, Commit, RetryOrStop,
           HandleException, Raise, Dies
  <2> QED
    BY <1>1, <2>1 DEF TypeOK, Goto
<1> QED
  BY <1>2, <1>3, <1>4, <1>5, <1>6, <1>7, UntouchedSteady

LEMMA ApiSteady ==
  ASSUME Books, Api \/ MaintenanceOff, NEW u \in Tasks
  PROVE  Steady(u)
<1>1. TypeOK
  BY DEF Books, IInv
<1>2. CASE UNCHANGED <<taskVars, attemptVars, phase>>
  BY <1>2, UntouchedSteady DEF taskVars, attemptVars, EvidenceKept, SettledUnit
<1>3. ASSUME NEW t \in Tasks, NEW f \in Fences, ResolveRetry(t, f)
      PROVE  Steady(u)
  <2>1. tries[t] < AttemptLimit /\ UNCHANGED <<tries, fence, repairs, attemptVars, phase>>
    BY <1>3 DEF ResolveRetry, MayAccept
  <2>2. taskStatus'[u] = IF u = t THEN "pending" ELSE taskStatus[u]
    BY <1>1, <1>3, SetTaskValue DEF ResolveRetry
  <2>3. EvidenceKept(u) /\ Paid(u)' = Paid(u)
    BY <2>1 DEF attemptVars, EvidenceKept, SettledUnit, Paid
  <2> QED
    BY <2>1, <2>2, <2>3 DEF Steady, attemptVars
<1>4. CASE Cleanup
  <2>1. taskStatus'[u] \notin {"pending", "leased"} /\ UNCHANGED <<tries, permit>>
    BY <1>4 DEF Cleanup
  <2> QED
    BY <2>1 DEF Steady, Paid
<1> QED
  BY <1>2, <1>3, <1>4 DEF Api, Pause, Cancel, Resume, ResolveStop, ReplaceSource, DeleteDocument, MaintenanceOff

LEMMA MaintenanceSteady ==
  ASSUME Books, MaintenanceOn, NEW u \in Tasks
  PROVE  Steady(u)
<1>1. \A g \in Fences : permit'[u][g] = "none" <=> permit[u][g] = "none"
  BY DEF MaintenanceOn
<1>2. Paid(u)' = Paid(u)
  BY <1>1 DEF Paid
<1>3. EvidenceKept(u)
  <2> SUFFICES ASSUME NEW g \in Fences, SettledUnit(u, g)
               PROVE  SettledUnit(u, g)' /\ leaseRepair'[u][g] = leaseRepair[u][g]
    BY DEF EvidenceKept
  <2>1. permit[u][g] = "settled"
    BY DEF Books, Rows, RowsAgree, SettledUnit
  <2> QED
    BY <2>1 DEF MaintenanceOn, SettledUnit
<1>4. taskStatus'[u] \in {taskStatus[u], "outcome_unknown"}
  BY DEF MaintenanceOn
<1>5. taskStatus[u] = "leased" => fence[u] \in Fences
  BY DEF Books, Numbered
<1> QED
  BY <1>1, <1>2, <1>3, <1>4, <1>5 DEF Steady, MaintenanceOn

LEMMA NextSends ==
  ASSUME Books, [Next]_vars, NEW u \in Tasks
  PROVE  SendStep(u)
<1>1. CASE UNCHANGED vars
  BY <1>1, UntouchedSteady DEF vars, taskVars, attemptVars, EvidenceKept, SettledUnit, SendStep
<1>2. ASSUME NEW t \in Tasks, Queue(t) \/ \E f \in Fences : Thread(t, f)
      PROVE  SendStep(u)
  BY <1>2, OthersSteady, QueueSends, ThreadSends DEF SendStep
<1>3. CASE Api \/ MaintenanceOn \/ MaintenanceOff
  BY <1>3, ApiSteady, MaintenanceSteady DEF SendStep
<1> QED
  BY <1>1, <1>2, <1>3 DEF Next

SendsBounded == \A u \in Tasks : Sends(u)

LEMMA InitSends == Init => SendsBounded
<1> SUFFICES ASSUME Init, NEW u \in Tasks PROVE Sends(u)
  BY DEF SendsBounded
<1>1. Paid(u) = {} /\ tries[u] = 0 /\ taskStatus[u] = "pending"
  BY DEF Init, Paid
<1>2. AttemptLimit \in Nat \ {0}
  OBVIOUS
<1> QED
  BY <1>1, <1>2, NoFences DEF Sends

\* Every request sent is backed by a try that is not given back, and a unit is
\* tried beyond the limit only to replay a checkpoint.
THEOREM SendsAreTries == Spec => []SendsBounded
<1>1. Books /\ SendsBounded /\ [Next]_vars => SendsBounded'
  BY NextSends, SendStepSends DEF SendsBounded
<1> QED
  BY <1>1, BooksKept, InitSends, PTL DEF Spec

\* However often a unit is recovered, retried, repaired, resolved or yields to
\* a sibling, it is sent at most AttemptLimit times.
THEOREM AttemptsStayBounded == Spec => []AttemptsBounded
<1>1. SendsBounded => AttemptsBounded
  BY DEF SendsBounded, Sends, AttemptsBounded, Paid
<1> QED
  BY <1>1, SendsAreTries, PTL
================================================================================
