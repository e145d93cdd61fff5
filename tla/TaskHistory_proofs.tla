----------------------------- MODULE TaskHistory_proofs -----------------------------
(***************************************************************************)
(* Proofs about the list of tasks: the inductive invariant of its rows,    *)
(* that every step of a worker, of the user, of a deletion and of          *)
(* maintenance keeps it, and that the properties of the list follow.       *)
(***************************************************************************)
EXTENDS Lifecycle, SequenceTheorems, FiniteSetTheorems, WellFoundedInduction, TLAPS

--------------------------------------------------------------------------------
Stages == {"parse", "translate", "candidate", "semantic_review", "publish", "rebuild", "export", "cleanup",
           "provider_test", "quality_check", "metadata_lookup", "index"}
StatusSet == {"succeeded", "completed_with_warnings", "partially_completed", "failed", "cancelled",
              "outcome_unknown", "waiting_config", "needs_review", "paused", "running", "pending"}
TaskStates == {"pending", "leased", "outcome_unknown", "succeeded", "failed", "cancelled"}
Places == {"none", "idle", "sent", "calling", "answered", "settled", "done"}
Permits == {"none", "reserved", "unknown", "settled", "released"}
CallRow == [at : Places, permit : Permits]
Row == [stage : Stages, parent : Nat, status : StatusSet, task : TaskStates, fence : 0 .. MaxFence \cup {1},
        current : BOOLEAN, superseded : BOOLEAN, cleared : BOOLEAN, model : 0 .. MaxFence \cup {1},
        calls : [1 .. MaxFence -> CallRow]]

\* A request that no worker has finished with is paid for or uncertain.
Flying == {"sent", "calling", "answered"}
Owed(c) == c.at \in Flying => c.permit \in {"reserved", "unknown"}

RowInv(r) ==
  /\ r \in Row
  /\ r.cleared => His!Over(r)
  /\ r.model <= r.fence
  /\ \A f \in 1 .. MaxFence : Owed(r.calls[f])

\* What a step may make of a row.
RowStep(r, s) ==
  /\ RowInv(s) /\ s.stage = r.stage /\ s.parent = r.parent
  /\ s.cleared => His!Over(r)
  /\ s.model >= r.model

Below(n, ss) ==
  \A k \in 1 .. n : ss[k].parent < k /\ (~His!Main(ss[k]) => His!Main(ss[ss[k].parent]))

HistoryInv ==
  /\ rows \in Seq(Row) /\ Len(rows) <= MaxRows
  /\ \A k \in 1 .. Len(rows) : RowInv(rows[k])
  /\ Below(Len(rows), rows)
  /\ deleted \in BOOLEAN

Stepped ==
  /\ HistoryInv'
  /\ Len(rows) <= Len(rows') /\ \A k \in 1 .. Len(rows) : RowStep(rows[k], rows'[k])

LEMMA Constants == LifecycleAssumption => MaxRows \in Nat /\ MaxPaid \in Nat /\ MaxFence \in Nat /\ Startable \subseteq Stages
BY DEF LifecycleAssumption, His!HistoryAssumption, His!MainStages, His!Steps, Stages

LEMMA RowsAre == His!JobRows = Row /\ His!Fences = 1 .. MaxFence
<1>1. His!MainStages \cup His!Steps = Stages
  BY DEF His!MainStages, His!Steps, Stages
<1>2. His!Terminal \cup {"outcome_unknown", "waiting_config", "needs_review", "paused", "running", "pending"} = StatusSet
  BY DEF His!Terminal, His!Completed, StatusSet
<1>3. His!Calls = CallRow
  BY DEF His!Calls, CallRow, Places, Permits
<1> QED BY <1>1, <1>2, <1>3 DEF His!JobRows, Row, His!Fences, TaskStates

\* The list and the property of a cleared row agree on what is over.
LEMMA FinishedIsOver ==
  ASSUME NEW r \in Row
  PROVE  His!Finished(r) <=> His!Over(r)
<1>1. \A f \in His!Fences : r.calls[f].permit \in Permits
  BY RowsAre DEF Row, CallRow
<1> QED BY <1>1 DEF His!Finished, His!Over, His!Unsettled, Permits

--------------------------------------------------------------------------------
(* Edits of a row.  Kept says that s differs from r in status, task and    *)
(* calls at most, and that its calls are still owed.                       *)
Kept(r, s) ==
  /\ s \in Row /\ s.stage = r.stage /\ s.parent = r.parent /\ s.model = r.model /\ s.fence = r.fence
  /\ \A f \in 1 .. MaxFence : Owed(s.calls[f])

Sound(r) == r \in Row /\ \A f \in 1 .. MaxFence : Owed(r.calls[f])

LEMMA KeptTrans ==
  ASSUME NEW q, NEW r, NEW s, Kept(q, r), Kept(r, s)
  PROVE  Kept(q, s)
BY DEF Kept

LEMMA KeptIsSound == ASSUME NEW r, NEW s, Kept(r, s) PROVE Sound(s)
BY DEF Kept, Sound

LEMMA InvIsSound == ASSUME NEW r, RowInv(r) PROVE Sound(r) /\ Kept(r, r)
BY DEF RowInv, Kept, Sound

\* A kept row without a mark, or with the mark and all that it was decided on.
LEMMA KeptUnmarked ==
  ASSUME NEW r, RowInv(r), NEW s, Kept(r, s), ~s.cleared
  PROVE  RowStep(r, s)
<1>1. r.model \in Int /\ r.fence \in Int /\ r.model <= r.fence
  BY DEF RowInv, Row
<1> QED BY <1>1 DEF Kept, RowStep, RowInv

LEMMA RowItself == ASSUME NEW r, RowInv(r) PROVE RowStep(r, r)
<1>1. r.model \in Int
  BY DEF RowInv, Row
<1> QED BY <1>1 DEF RowStep, RowInv

LEMMA EmittedKept ==
  ASSUME NEW r, Sound(r)
  PROVE  Kept(r, His!Emitted(r)) /\ ~His!Emitted(r).cleared
<1> DEFINE s == [r EXCEPT !.cleared = FALSE]
<1>1. r \in Row
  BY DEF Sound
<1>2. /\ s \in Row /\ s.stage = r.stage /\ s.parent = r.parent /\ s.model = r.model /\ s.fence = r.fence
      /\ s.calls = r.calls /\ s.cleared = FALSE
  BY <1>1 DEF Row
<1> QED BY <1>1, <1>2 DEF Kept, Sound, His!Emitted

LEMMA StatusKept ==
  ASSUME NEW r, Sound(r), NEW t \in TaskStates, NEW u \in StatusSet, NEW c \in BOOLEAN, NEW d \in BOOLEAN
  PROVE  /\ Kept(r, [r EXCEPT !.task = t, !.status = u])
         /\ Kept(r, [r EXCEPT !.status = u, !.current = c])
         /\ Kept(r, [r EXCEPT !.current = c, !.superseded = d, !.status = u])
         /\ Kept(r, [r EXCEPT !.task = t, !.status = u, !.current = c])
         /\ Kept(r, [r EXCEPT !.task = t])
         /\ Kept(r, [r EXCEPT !.status = u])
         /\ Kept(r, [r EXCEPT !.current = c])
<1>1. r \in Row
  BY DEF Sound
<1>2. Kept(r, [r EXCEPT !.task = t])
  BY <1>1 DEF Kept, Sound, Row
<1>3. Kept(r, [r EXCEPT !.status = u])
  BY <1>1 DEF Kept, Sound, Row
<1>4. Kept(r, [r EXCEPT !.current = c])
  BY <1>1 DEF Kept, Sound, Row
<1>5. Kept(r, [r EXCEPT !.task = t, !.status = u])
  BY <1>1 DEF Kept, Sound, Row
<1>6. Kept(r, [r EXCEPT !.status = u, !.current = c])
  BY <1>1 DEF Kept, Sound, Row
<1>7. Kept(r, [r EXCEPT !.current = c, !.superseded = d, !.status = u])
  BY <1>1 DEF Kept, Sound, Row
<1>8. Kept(r, [r EXCEPT !.task = t, !.status = u, !.current = c])
  BY <1>1 DEF Kept, Sound, Row
<1> QED BY <1>2, <1>3, <1>4, <1>5, <1>6, <1>7, <1>8

SameLife(r, s) == s.cleared = r.cleared /\ s.status = r.status /\ s.task = r.task /\ s.current = r.current

\* A row with another call of one attempt.
LEMMA CallsKept ==
  ASSUME NEW r, Sound(r), NEW f, NEW c, f \in 1 .. MaxFence => c \in CallRow /\ Owed(c),
         NEW s, s = [r EXCEPT !.calls = [r.calls EXCEPT ![f] = c]]
  PROVE  Kept(r, s) /\ SameLife(r, s)
<1> DEFINE g == [r.calls EXCEPT ![f] = c]
<1>1. r \in Row /\ r.calls \in [1 .. MaxFence -> CallRow]
  BY DEF Sound, Row
<1>2. g \in [1 .. MaxFence -> CallRow] /\ \A h \in 1 .. MaxFence : g[h] = IF h = f THEN c ELSE r.calls[h]
  BY <1>1
<1>0. s = [r EXCEPT !.calls = g]
  OBVIOUS
<1> HIDE DEF g
<1>3. /\ s \in Row /\ s.stage = r.stage /\ s.parent = r.parent /\ s.model = r.model /\ s.fence = r.fence
      /\ s.calls = g /\ s.cleared = r.cleared /\ s.status = r.status /\ s.task = r.task /\ s.current = r.current
  BY <1>0, <1>1, <1>2 DEF Row
<1>4. \A h \in 1 .. MaxFence : Owed(g[h])
  BY <1>2 DEF Sound
<1> QED BY <1>3, <1>4 DEF Kept, SameLife

LEMMA CallKept ==
  ASSUME NEW r, Sound(r), NEW f, NEW p \in Places, NEW q \in Permits, p \in Flying => q \in {"reserved", "unknown"}
  PROVE  Kept(r, His!Call(r, f, p, q)) /\ SameLife(r, His!Call(r, f, p, q))
<1> DEFINE c == [at |-> p, permit |-> q]
           s == His!Call(r, f, p, q)
<1>1. c \in CallRow /\ Owed(c)
  BY DEF CallRow, Owed
<1>2. s = [r EXCEPT !.calls = [r.calls EXCEPT ![f] = c]]
  BY DEF His!Call
<1> HIDE DEF c, s
<1>3. Kept(r, s) /\ SameLife(r, s)
  BY <1>1, <1>2, CallsKept
<1> QED BY <1>3 DEF s

LEMMA MoveKept ==
  ASSUME NEW r, Sound(r), NEW f, NEW p \in Places,
         (f \in 1 .. MaxFence /\ p \in Flying) => r.calls[f].permit \in {"reserved", "unknown"}
  PROVE  /\ Kept(r, His!Move(r, f, p)) /\ SameLife(r, His!Move(r, f, p))
         /\ His!Over(r) => His!Over(His!Move(r, f, p))
<1> DEFINE c == [r.calls[f] EXCEPT !.at = p]
           s == His!Move(r, f, p)
<1>1. f \in 1 .. MaxFence => c \in CallRow /\ Owed(c)
  <2> SUFFICES ASSUME f \in 1 .. MaxFence PROVE c \in CallRow /\ Owed(c)
    OBVIOUS
  <2>1. r.calls[f] \in CallRow
    BY DEF Sound, Row
  <2> QED BY <2>1 DEF CallRow, Owed
<1>2. s = [r EXCEPT !.calls = [r.calls EXCEPT ![f] = c]]
  BY DEF His!Move
<1>4. \A h \in 1 .. MaxFence : s.calls[h].permit = r.calls[h].permit
  <2>1. r \in Row /\ r.calls \in [1 .. MaxFence -> CallRow]
    BY DEF Sound, Row
  <2>2. s.calls = [r.calls EXCEPT ![f] = c]
    BY <1>2, <2>1 DEF Row
  <2>3. f \in 1 .. MaxFence => c.permit = r.calls[f].permit
    BY <2>1 DEF CallRow
  <2> HIDE DEF c, s
  <2> QED BY <2>1, <2>2, <2>3
<1> HIDE DEF c, s
<1>3. Kept(r, s) /\ SameLife(r, s)
  BY <1>1, <1>2, CallsKept
<1>5. His!Over(r) => His!Over(s)
  BY <1>3, <1>4, RowsAre DEF His!Over, SameLife
<1> QED BY <1>3, <1>5 DEF s

--------------------------------------------------------------------------------
(* Rows that are born, and the two ways a step changes the table: one row  *)
(* of it, or all of them with new ones behind.                             *)

LEMMA FreshRow ==
  ASSUME LifecycleAssumption, NEW s \in Stages, NEW p \in Nat
  PROVE  LET r == His!Fresh(s, p) IN RowInv(r) /\ r.stage = s /\ r.parent = p
<1> DEFINE r == His!Fresh(s, p)
<1>0. MaxFence \in Nat
  BY Constants
<1>1. r \in Row /\ r.stage = s /\ r.parent = p /\ r.cleared = FALSE /\ r.model = 0 /\ r.fence = 0
      /\ \A f \in 1 .. MaxFence : r.calls[f].at = "none"
  BY <1>0, RowsAre DEF His!Fresh, His!NoCall, Row, CallRow, StatusSet, TaskStates, Places, Permits
<1>2. RowInv(r)
  BY <1>1 DEF RowInv, Owed, Flying
<1> QED BY <1>1, <1>2

LEMMA ReceiptRow ==
  ASSUME LifecycleAssumption, NEW s \in Stages, NEW p \in Nat, NEW u \in {"succeeded", "failed"}
  PROVE  LET r == His!Receipt(s, p, u) IN RowInv(r) /\ r.stage = s /\ r.parent = p
<1> DEFINE q == His!Fresh(s, p)
           r == [q EXCEPT !.status = u, !.task = u, !.fence = 1, !.model = 1]
<1>1. RowInv(q) /\ q.stage = s /\ q.parent = p /\ q.cleared = FALSE
  <2>1. q.cleared = FALSE
    BY DEF His!Fresh
  <2> HIDE DEF q
  <2> QED BY <2>1, FreshRow DEF q
<1> HIDE DEF q
<1>2. q \in Row /\ \A f \in 1 .. MaxFence : Owed(q.calls[f])
  BY <1>1 DEF RowInv
<1>3. /\ r \in Row /\ r.stage = q.stage /\ r.parent = q.parent /\ r.cleared = q.cleared /\ r.model = 1 /\ r.fence = 1
      /\ r.calls = q.calls
  BY <1>2 DEF Row, StatusSet, TaskStates
<1>4. RowInv(r)
  BY <1>1, <1>2, <1>3 DEF RowInv
<1>5. His!Receipt(s, p, u) = r
  BY DEF His!Receipt, q
<1> HIDE DEF r
<1> QED BY <1>1, <1>3, <1>4, <1>5

LEMMA MainStays ==
  ASSUME NEW r, NEW s, RowStep(r, s)
  PROVE  His!Main(s) = His!Main(r)
BY DEF RowStep, His!Main

Newborn(r) ==
  /\ RowInv(r) /\ r.parent <= Len(rows)
  /\ ~His!Main(r) => r.parent > 0 /\ His!Main(rows[r.parent])

LEMMA GrownRows ==
  ASSUME LifecycleAssumption, HistoryInv,
         NEW base \in Seq(Row), Len(base) = Len(rows), \A k \in 1 .. Len(rows) : RowStep(rows[k], base[k]),
         NEW born \in Seq(Row), Len(rows) + Len(born) <= MaxRows,
         \A i \in 1 .. Len(born) : Newborn(born[i]),
         rows' = base \o born, deleted' \in BOOLEAN
  PROVE  Stepped
<1> DEFINE n == Len(rows)
           m == Len(born)
<1>0. n \in Nat /\ m \in Nat /\ MaxRows \in Nat /\ n = Len(base)
  BY Constants DEF HistoryInv
<1>1. /\ rows' \in Seq(Row) /\ Len(rows') = n + m
      /\ \A k \in 1 .. n : rows'[k] = base[k]
      /\ \A k \in (n + 1) .. (n + m) : rows'[k] = born[k - n]
  <2> DEFINE rr == base \o born
  <2>1. rr \in Seq(Row) /\ Len(rr) = Len(base) + Len(born)
        /\ \A k \in 1 .. (Len(base) + Len(born)) : rr[k] = IF k <= Len(base) THEN base[k] ELSE born[k - Len(base)]
    BY ConcatProperties
  <2> HIDE DEF rr
  <2> QED BY <1>0, <2>1 DEF rr
<1> HIDE DEF n, m
<1>2. \A k \in 1 .. n : RowStep(rows[k], rows'[k])
  BY <1>1 DEF n
<1>3. ASSUME NEW k \in 1 .. Len(rows')
      PROVE  /\ RowInv(rows'[k]) /\ rows'[k].parent < k
             /\ ~His!Main(rows'[k]) => rows'[k].parent \in 1 .. n /\ His!Main(rows[rows'[k].parent])
  <2>1. CASE k \in 1 .. n
    <3>1. RowStep(rows[k], rows'[k]) /\ His!Main(rows'[k]) = His!Main(rows[k])
      BY <1>2, <2>1, MainStays
    <3>2. /\ rows[k].parent \in Nat /\ rows[k].parent < k
          /\ ~His!Main(rows[k]) => His!Main(rows[rows[k].parent])
      BY <2>1 DEF HistoryInv, RowInv, Row, Below, n
    <3>3. ~His!Main(rows[k]) => rows[k].parent # 0
      BY DEF His!Main
    <3> QED BY <1>0, <2>1, <3>1, <3>2, <3>3 DEF RowStep
  <2>2. CASE k \in (n + 1) .. (n + m)
    <3>1. k - n \in 1 .. m /\ rows'[k] = born[k - n]
      BY <1>0, <1>1, <2>2
    <3>2. Newborn(rows'[k])
      BY <3>1 DEF m
    <3>3. /\ RowInv(rows'[k]) /\ rows'[k].parent <= n
          /\ ~His!Main(rows'[k]) => rows'[k].parent > 0 /\ His!Main(rows[rows'[k].parent])
      BY <3>2 DEF Newborn, n
    <3>4. rows'[k].parent \in Nat
      BY <3>3 DEF RowInv, Row
    <3> QED BY <1>0, <2>2, <3>3, <3>4
  <2> QED BY <1>0, <1>1, <2>1, <2>2
<1>4. Below(Len(rows'), rows')
  <2> SUFFICES ASSUME NEW k \in 1 .. Len(rows')
               PROVE  rows'[k].parent < k /\ (~His!Main(rows'[k]) => His!Main(rows'[rows'[k].parent]))
    BY DEF Below
  <2>1. ASSUME ~His!Main(rows'[k]) PROVE His!Main(rows'[rows'[k].parent])
    <3>1. rows'[k].parent \in 1 .. n /\ His!Main(rows[rows'[k].parent])
      BY <1>3, <2>1
    <3> QED BY <1>2, <3>1, MainStays
  <2> QED BY <1>3, <2>1
<1>5. HistoryInv'
  BY <1>0, <1>1, <1>3, <1>4 DEF HistoryInv, n, m
<1> QED BY <1>0, <1>1, <1>2, <1>5 DEF Stepped, n

LEMMA ChangedRow ==
  ASSUME LifecycleAssumption, HistoryInv, NEW j \in His!Ids, NEW s, RowStep(rows[j], s), His!Put(j, s), deleted' = deleted
  PROVE  Stepped
<1>0. rows \in Seq(Row) /\ His!Ids = 1 .. Len(rows) /\ Len(rows) \in Nat /\ s \in Row
  BY DEF HistoryInv, His!Ids, RowStep, RowInv
<1>1. /\ rows' \in Seq(Row) /\ Len(rows') = Len(rows)
      /\ \A k \in 1 .. Len(rows) : rows'[k] = IF k = j THEN s ELSE rows[k]
  BY <1>0 DEF His!Put
<1>2. ASSUME NEW k \in 1 .. Len(rows) PROVE RowStep(rows[k], rows'[k])
  <2>1. CASE k = j
    BY <1>1, <2>1
  <2>2. CASE k # j
    <3>1. RowInv(rows[k]) /\ rows'[k] = rows[k]
      BY <1>1, <2>2 DEF HistoryInv
    <3>2. rows[k].model \in Int
      BY <3>1 DEF RowInv, Row
    <3> QED BY <3>1, <3>2 DEF RowStep, RowInv
  <2> QED BY <2>1, <2>2
<1>3. <<>> \in Seq(Row) /\ Len(<<>>) = 0 /\ rows' = rows' \o <<>>
  <2> HIDE DEF His!Put
  <2>1. rows' \in Seq(Row)
    BY <1>1
  <2> QED BY <2>1, ConcatEmptySeq, EmptySeq
<1>4. Len(rows) + 0 <= MaxRows
  BY <1>0 DEF HistoryInv
<1>5. deleted' \in BOOLEAN
  BY DEF HistoryInv
<1> QED
  <2> DEFINE base == rows'
             born == <<>>
  <2>1. base \in Seq(Row) /\ Len(base) = Len(rows) /\ born \in Seq(Row) /\ Len(born) = 0 /\ rows' = base \o born
        /\ (\A k \in 1 .. Len(rows) : RowStep(rows[k], base[k])) /\ Len(rows) + Len(born) <= MaxRows
    BY <1>1, <1>2, <1>3, <1>4
  <2>2. \A i \in 1 .. Len(born) : Newborn(born[i])
    BY <2>1
  <2> HIDE DEF base, born
  <2> QED BY <2>1, <2>2, <1>5, GrownRows

LEMMA RowIsSound ==
  ASSUME HistoryInv, NEW j \in His!Ids
  PROVE  RowInv(rows[j]) /\ Sound(rows[j]) /\ Kept(rows[j], rows[j]) /\ rows[j] \in Row
<1>1. RowInv(rows[j])
  BY DEF HistoryInv, His!Ids
<1> QED BY <1>1, InvIsSound DEF RowInv

LEMMA EmittedRow ==
  ASSUME LifecycleAssumption, HistoryInv, NEW j \in His!Ids, NEW s, Kept(rows[j], s), His!Put(j, His!Emitted(s)), deleted' = deleted
  PROVE  Stepped
<1>1. Kept(s, His!Emitted(s)) /\ ~His!Emitted(s).cleared
  BY KeptIsSound, EmittedKept
<1>2. RowStep(rows[j], His!Emitted(s))
  BY <1>1, RowIsSound, KeptTrans, KeptUnmarked
<1> QED BY <1>2, ChangedRow

LEMMA MappedRows ==
  ASSUME LifecycleAssumption, HistoryInv, NEW g, g \in [1 .. Len(rows) -> Row],
         \A k \in 1 .. Len(rows) : RowStep(rows[k], g[k]), deleted' \in BOOLEAN
  PROVE  /\ rows' = g => Stepped
         /\ \A r : rows' = Append(g, r) /\ Newborn(r) /\ Len(rows) < MaxRows => Stepped
<1>0. Len(rows) \in Nat /\ Len(rows) <= MaxRows /\ MaxRows \in Nat
  BY Constants DEF HistoryInv
<1>1. g \in Seq(Row) /\ Len(g) = Len(rows)
  BY <1>0
<1>2. ASSUME rows' = g PROVE Stepped
  <2> DEFINE born == <<>>
  <2>1. born \in Seq(Row) /\ Len(born) = 0 /\ g = g \o born
    BY <1>1, ConcatEmptySeq, EmptySeq
  <2>2. \A i \in 1 .. Len(born) : Newborn(born[i])
    BY <2>1
  <2>3. Len(rows) + Len(born) <= MaxRows
    BY <1>0, <2>1
  <2> HIDE DEF born
  <2> QED BY <1>1, <1>2, <2>1, <2>2, <2>3, GrownRows
<1>3. ASSUME NEW r, rows' = Append(g, r), Newborn(r), Len(rows) < MaxRows PROVE Stepped
  <2> DEFINE born == <<r>>
  <2>0. r \in Row
    BY <1>3 DEF Newborn, RowInv
  <2>1. born \in Seq(Row) /\ Len(born) = 1 /\ born[1] = r /\ Append(g, r) = g \o born
    BY <1>1, <2>0, AppendIsConcat
  <2>2. \A i \in 1 .. Len(born) : Newborn(born[i])
    <3>1. \A i \in 1 .. Len(born) : i = 1
      BY <2>1
    <3> HIDE DEF born
    <3> QED BY <1>3, <2>1, <3>1
  <2>3. Len(rows) + Len(born) <= MaxRows
    BY <1>0, <1>3, <2>1
  <2> HIDE DEF born
  <2> QED BY <1>1, <1>3, <2>1, <2>2, <2>3, GrownRows
<1> QED BY <1>2, <1>3

\* A row is cleared only when it is over, and a request in flight is not.
LEMMA FlyingIsListed ==
  ASSUME NEW r, RowInv(r), NEW f \in His!Fences, r.calls[f].at \in Flying
  PROVE  ~r.cleared /\ r.calls[f].permit \in {"reserved", "unknown"}
<1>1. r.calls[f].permit \in {"reserved", "unknown"}
  BY RowsAre DEF RowInv, Owed
<1>2. ~His!Over(r)
  BY <1>1 DEF His!Over
<1> QED BY <1>1, <1>2 DEF RowInv

LEMMA LeasedIsListed ==
  ASSUME NEW r, RowInv(r), r.task = "leased"
  PROVE  ~r.cleared
BY DEF RowInv, His!Over

--------------------------------------------------------------------------------
(* The steps of a worker.                                                  *)

LEMMA ClaimStep ==
  ASSUME LifecycleAssumption, HistoryInv, NEW j \in His!Ids, His!Claim(j)
  PROVE  Stepped
<1> DEFINE r == rows[j]
           f == r.fence + 1
           c == [at |-> "idle", permit |-> "none"]
           g == [r.calls EXCEPT ![f] = c]
           leased == [r EXCEPT !.task = "leased", !.status = "running", !.fence = f, !.current = TRUE, !.calls[f] = c]
           model == IF r.stage \in His!Calling \cup His!Reporting THEN r.model ELSE f
           s == IF r.stage \in His!Calling \cup His!Reporting THEN leased ELSE [leased EXCEPT !.model = f]
<1>1. RowInv(r) /\ r \in Row /\ r.calls \in [1 .. MaxFence -> CallRow]
  BY RowIsSound DEF Row
<1>2. MaxFence \in Nat /\ r.fence < MaxFence /\ His!Put(j, His!Emitted(s)) /\ deleted' = deleted
  BY Constants DEF His!Claim
<1>3. f \in 1 .. MaxFence /\ r.fence \in Nat /\ r.model \in Nat /\ r.model <= r.fence
  BY <1>1, <1>2 DEF RowInv, Row
<1>4. g \in [1 .. MaxFence -> CallRow] /\ \A h \in 1 .. MaxFence : g[h] = IF h = f THEN c ELSE r.calls[h]
  BY <1>1 DEF CallRow, Places, Permits
<1>5. \A h \in 1 .. MaxFence : Owed(g[h])
  BY <1>1, <1>4 DEF RowInv, Owed, Flying
<1>31. f \in 0 .. MaxFence \cup {1}
  BY <1>2, <1>3
<1> DEFINE taken == [r EXCEPT !.task = "leased", !.status = "running"]
           fenced == [taken EXCEPT !.fence = f, !.current = TRUE]
<1>6. leased = [fenced EXCEPT !.calls = g]
  <2>1. r.calls = fenced.calls
    BY <1>1 DEF Row
  <2> QED BY <2>1
<1> HIDE DEF g, f, r
<1>61. /\ taken \in Row /\ taken.stage = r.stage /\ taken.parent = r.parent /\ taken.model = r.model
  BY <1>1 DEF Row, TaskStates, StatusSet
<1> HIDE DEF taken
<1>62. /\ fenced \in Row /\ fenced.stage = r.stage /\ fenced.parent = r.parent /\ fenced.model = r.model /\ fenced.fence = f
  BY <1>31, <1>61 DEF Row
<1> HIDE DEF fenced, leased
<1>7. /\ leased \in Row /\ leased.stage = r.stage /\ leased.parent = r.parent /\ leased.model = r.model
      /\ leased.fence = f /\ leased.calls = g
  BY <1>4, <1>6, <1>62 DEF Row
<1>8. /\ s \in Row /\ s.stage = r.stage /\ s.parent = r.parent /\ s.model = model /\ s.fence = f /\ s.calls = g
  BY <1>31, <1>7 DEF Row
<1> HIDE DEF s
<1>9. Sound(s) /\ s.model >= r.model /\ s.model <= s.fence
  BY <1>3, <1>5, <1>8 DEF Sound, f
<1>10. RowStep(r, His!Emitted(s))
  BY <1>8, <1>9, EmittedKept DEF Kept, RowStep, RowInv
<1> QED BY <1>2, <1>10, ChangedRow DEF r

LEMMA ModelSteps ==
  ASSUME LifecycleAssumption, HistoryInv, NEW j \in His!Ids,
         His!ReportModel(j) \/ \E f \in His!Fences : His!RecordModel(j, f)
  PROVE  Stepped
<1> DEFINE r == rows[j]
           q == [r EXCEPT !.model = r.fence]
<1>1. RowInv(r) /\ r \in Row /\ Sound(r) /\ r.model <= r.fence /\ r.model \in Nat /\ r.fence \in Nat
  BY RowIsSound DEF Row, RowInv
<1>2. /\ q \in Row /\ q.stage = r.stage /\ q.parent = r.parent /\ q.model = r.fence /\ q.fence = r.fence
      /\ q.calls = r.calls /\ q.cleared = r.cleared
  BY <1>1 DEF Row
<1>3. Sound(q)
  BY <1>1, <1>2 DEF Sound
<1>4. CASE His!ReportModel(j)
  <2>1. r.task = "leased" /\ His!Put(j, q) /\ deleted' = deleted
    BY <1>4 DEF His!ReportModel, His!Live
  <2>2. ~r.cleared
    BY <1>1, <2>1, LeasedIsListed
  <2> HIDE DEF q, r
  <2>3. RowStep(r, q)
    BY <1>1, <1>2, <1>3, <2>2 DEF RowStep, RowInv, Sound
  <2> QED BY <2>1, <2>3, ChangedRow DEF r
<1>5. ASSUME NEW f \in His!Fences, His!RecordModel(j, f) PROVE Stepped
  <2> DEFINE w == His!Written(r, f)
  <2>1. PICK p \in {"calling", "answered"} : His!Put(j, His!Move(w, f, p))
    BY <1>5 DEF His!RecordModel
  <2>2. deleted' = deleted /\ r.calls[f].at \in Flying
    BY <1>5 DEF His!RecordModel, His!At, Flying
  <2>3. ~r.cleared /\ r.calls[f].permit \in {"reserved", "unknown"}
    BY <1>1, <2>2, FlyingIsListed
  <2>4. /\ Sound(w) /\ w.stage = r.stage /\ w.parent = r.parent /\ w.fence = r.fence /\ w.calls = r.calls /\ w.cleared = r.cleared
        /\ w.model >= r.model /\ w.model <= r.fence
    <3>1. CASE f = r.fence
      <4>1. w = q
        BY <3>1 DEF His!Written
      <4> HIDE DEF q, r
      <4> QED BY <1>1, <1>2, <1>3, <4>1
    <3>2. CASE f # r.fence
      <4>1. w = r
        BY <3>2 DEF His!Written
      <4> HIDE DEF r
      <4> QED BY <1>1, <4>1
    <3> QED BY <3>1, <3>2
  <2> HIDE DEF w, r
  <2>5. Kept(w, His!Move(w, f, p)) /\ SameLife(w, His!Move(w, f, p))
    <3>1. p \in Places
      BY DEF Places
    <3> QED BY <2>3, <2>4, <3>1, MoveKept
  <2>6. RowStep(r, His!Move(w, f, p))
    BY <2>3, <2>4, <2>5 DEF Kept, SameLife, RowStep, RowInv
  <2> QED BY <2>1, <2>2, <2>6, ChangedRow DEF r
<1> QED BY <1>4, <1>5

LEMMA MoneySteps ==
  ASSUME LifecycleAssumption, HistoryInv, NEW j \in His!Ids,
         His!Dispatch(j) \/ \E f \in His!Fences : His!Settle(j, f)
  PROVE  Stepped
<1> DEFINE r == rows[j]
<1>1. RowInv(r) /\ Sound(r)
  BY RowIsSound
<1>2. CASE His!Dispatch(j)
  <2>1. Kept(r, His!Call(r, r.fence, "sent", "reserved"))
    BY <1>1, CallKept DEF Places, Permits, Flying
  <2>2. His!Put(j, His!Emitted(His!Call(r, r.fence, "sent", "reserved"))) /\ deleted' = deleted
    BY <1>2 DEF His!Dispatch
  <2> QED BY <2>1, <2>2, EmittedRow
<1>3. ASSUME NEW f \in His!Fences, His!Settle(j, f) PROVE Stepped
  <2> DEFINE s == His!Call(r, f, "settled", "settled")
  <2>1. Kept(r, s) /\ SameLife(r, s)
    BY <1>1, CallKept DEF Places, Permits, Flying
  <2>2. His!Put(j, s) /\ deleted' = deleted /\ r.calls[f].at \in Flying
    BY <1>3 DEF His!Settle, His!At, Flying
  <2>3. ~r.cleared
    BY <1>1, <2>2, FlyingIsListed
  <2> HIDE DEF s
  <2>4. RowStep(r, s)
    BY <1>1, <2>1, <2>3, KeptUnmarked DEF SameLife
  <2> QED BY <2>2, <2>4, ChangedRow
<1> QED BY <1>2, <1>3

\* The stages that follow another are steps or operations below an operation.
LEMMA FollowingAre ==
  ASSUME NEW s, NEW stages \in His!Following(s)
  PROVE  /\ stages \in Seq(Stages)
         /\ Len(stages) > 0 => s \in His!MainStages
<1> DEFINE all == {<<>>, <<"quality_check">>, <<"metadata_lookup">>, <<"translate">>, <<"index">>,
                   <<"quality_check", "translate">>, <<"quality_check", "publish">>}
<1>0. {"quality_check", "metadata_lookup", "translate", "index", "publish"} \subseteq Stages
  BY DEF Stages
<1>1. \A x \in all : x \in Seq(Stages)
  <2>1. <<>> \in Seq(Stages) /\ \A a \in Stages : <<a>> \in Seq(Stages)
    OBVIOUS
  <2>2. \A a, b \in Stages : <<a, b>> \in Seq(Stages)
    OBVIOUS
  <2>3. <<"quality_check">> \in Seq(Stages) /\ <<"metadata_lookup">> \in Seq(Stages) /\ <<"translate">> \in Seq(Stages)
        /\ <<"index">> \in Seq(Stages)
    BY <1>0, <2>1
  <2>4. <<"quality_check", "translate">> \in Seq(Stages) /\ <<"quality_check", "publish">> \in Seq(Stages)
    BY <1>0, <2>2
  <2> QED BY <2>1, <2>3, <2>4
<1>2. stages \in all /\ (stages # <<>> => s \in {"parse", "translate", "publish"})
  <2>1. DOMAIN His!Follow = {"parse", "translate", "publish"}
    BY DEF His!Follow
  <2>2. CASE s \notin DOMAIN His!Follow
    BY <2>2 DEF His!Following
  <2>3. CASE s = "parse"
    BY <2>1, <2>3 DEF His!Following, His!Follow
  <2>4. CASE s = "translate"
    BY <2>1, <2>4 DEF His!Following, His!Follow
  <2>5. CASE s = "publish"
    BY <2>1, <2>5 DEF His!Following, His!Follow
  <2> QED BY <2>1, <2>2, <2>3, <2>4, <2>5
<1>3. stages \in Seq(Stages)
  BY <1>1, <1>2
<1>4. Len(stages) > 0 => stages # <<>>
  BY <1>3
<1> QED BY <1>2, <1>3, <1>4 DEF His!MainStages

LEMMA BornRow ==
  ASSUME LifecycleAssumption, NEW s \in Stages, NEW p \in Nat, NEW u \in {"succeeded", "failed"}
  PROVE  RowInv(His!Born(s, p, u)) /\ His!Born(s, p, u).parent = p
<1>1. His!Born(s, p, u) = His!Receipt(s, p, u) \/ His!Born(s, p, u) = His!Fresh(s, p)
  BY DEF His!Born
<1>2. RowInv(His!Receipt(s, p, u)) /\ His!Receipt(s, p, u).parent = p
  BY ReceiptRow
<1>3. RowInv(His!Fresh(s, p)) /\ His!Fresh(s, p).parent = p
  BY FreshRow
<1> QED BY <1>1, <1>2, <1>3

LEMMA EndWithStep ==
  ASSUME LifecycleAssumption, HistoryInv, NEW j \in His!Ids, NEW s, Kept(rows[j], s), His!EndWith(j, s), deleted' = deleted
  PROVE  Stepped
<1>1. PICK stages \in His!Following(s.stage), checked \in {"succeeded", "failed"} :
        /\ His!Room(Len(stages))
        /\ rows' = [rows EXCEPT ![j] = His!Emitted(s)] \o [i \in DOMAIN stages |-> His!Born(stages[i], j, checked)]
  BY DEF His!EndWith
<1> DEFINE base == [rows EXCEPT ![j] = His!Emitted(s)]
           born == [i \in DOMAIN stages |-> His!Born(stages[i], j, checked)]
           n == Len(rows)
<1>0. n \in Nat /\ rows \in Seq(Row) /\ His!Ids = 1 .. n /\ j \in 1 .. n /\ s.stage = rows[j].stage /\ deleted' \in BOOLEAN
  BY DEF HistoryInv, His!Ids, Kept
<1>2. Kept(s, His!Emitted(s)) /\ ~His!Emitted(s).cleared /\ RowStep(rows[j], His!Emitted(s)) /\ His!Emitted(s) \in Row
  <2>1. Kept(s, His!Emitted(s)) /\ ~His!Emitted(s).cleared
    BY KeptIsSound, EmittedKept
  <2>2. RowStep(rows[j], His!Emitted(s))
    BY <2>1, RowIsSound, KeptTrans, KeptUnmarked
  <2> QED BY <2>1, <2>2 DEF Kept
<1>3. base \in Seq(Row) /\ Len(base) = n /\ \A k \in 1 .. n : base[k] = IF k = j THEN His!Emitted(s) ELSE rows[k]
  BY <1>0, <1>2
<1>4. \A k \in 1 .. n : RowStep(rows[k], base[k])
  <2> SUFFICES ASSUME NEW k \in 1 .. n PROVE RowStep(rows[k], base[k])
    OBVIOUS
  <2>1. RowInv(rows[k])
    BY <1>0, RowIsSound
  <2>2. RowStep(rows[k], rows[k])
    BY <2>1, RowItself
  <2> HIDE DEF base
  <2> QED BY <1>2, <1>3, <2>2
<1>5. stages \in Seq(Stages) /\ (Len(stages) > 0 => s.stage \in His!MainStages)
  BY FollowingAre
<1>6. \A i \in 1 .. Len(stages) : RowInv(born[i]) /\ born[i].parent = j /\ born[i] \in Row
  <2> SUFFICES ASSUME NEW i \in 1 .. Len(stages) PROVE RowInv(born[i]) /\ born[i].parent = j /\ born[i] \in Row
    OBVIOUS
  <2>1. stages[i] \in Stages /\ DOMAIN stages = 1 .. Len(stages) /\ j \in Nat
    BY <1>0, <1>5
  <2>2. born[i] = His!Born(stages[i], j, checked)
    BY <2>1
  <2> HIDE DEF born
  <2> QED BY <2>1, <2>2, BornRow DEF RowInv
<1>7. born \in Seq(Row) /\ Len(born) = Len(stages)
  <2>1. Len(stages) \in Nat /\ DOMAIN stages = 1 .. Len(stages)
    BY <1>5
  <2>2. born \in [1 .. Len(stages) -> Row]
    BY <1>6, <2>1
  <2> HIDE DEF born
  <2> QED BY <2>1, <2>2
<1>8. \A i \in 1 .. Len(born) : Newborn(born[i])
  <2> SUFFICES ASSUME NEW i \in 1 .. Len(born) PROVE Newborn(born[i])
    OBVIOUS
  <2>1. i \in 1 .. Len(stages) /\ Len(stages) > 0
    BY <1>5, <1>7
  <2>2. His!Main(rows[j])
    BY <1>0, <1>5, <2>1 DEF His!Main
  <2>3. RowInv(born[i]) /\ born[i].parent = j
    BY <1>6, <2>1
  <2> HIDE DEF born
  <2> QED BY <1>0, <2>2, <2>3 DEF Newborn
<1>9. Len(rows) + Len(born) <= MaxRows
  BY <1>1, <1>7 DEF His!Room
<1> HIDE DEF base, born
<1>10. rows' = base \o born
  BY <1>1 DEF base, born
<1> QED BY <1>0, <1>3, <1>4, <1>7, <1>8, <1>9, <1>10, GrownRows

LEMMA EndStep ==
  ASSUME LifecycleAssumption, HistoryInv, NEW j \in His!Ids, NEW s, Kept(rows[j], s), NEW outcomes, outcomes \subseteq StatusSet,
         His!End(j, s, outcomes), deleted' = deleted
  PROVE  Stepped
<1>1. Sound(s)
  BY KeptIsSound
<1>2. \A u \in StatusSet : Kept(rows[j], [s EXCEPT !.status = u])
  <2> SUFFICES ASSUME NEW u \in StatusSet PROVE Kept(rows[j], [s EXCEPT !.status = u])
    OBVIOUS
  <2>1. "pending" \in TaskStates
    BY DEF TaskStates
  <2>2. Kept(s, [s EXCEPT !.status = u])
    BY <1>1, <2>1, StatusKept
  <2> QED BY <2>2, KeptTrans
<1>3. CASE His!Put(j, His!Emitted([s EXCEPT !.status = "outcome_unknown"]))
  <2>1. Kept(rows[j], [s EXCEPT !.status = "outcome_unknown"])
    BY <1>2 DEF StatusSet
  <2> QED BY <1>3, <2>1, EmittedRow
<1>4. ASSUME NEW u \in outcomes, His!EndWith(j, [s EXCEPT !.status = u]) PROVE Stepped
  BY <1>2, <1>4, EndWithStep
<1> QED BY <1>3, <1>4 DEF His!End

LEMMA OutcomesAre == ASSUME NEW s PROVE His!Outcomes(s) \subseteq StatusSet
BY DEF His!Outcomes, His!Completed, StatusSet

LEMMA MovedAfter ==
  ASSUME NEW r, Sound(r), NEW t \in TaskStates, NEW u \in StatusSet, NEW f
  PROVE  /\ Kept(r, His!Move([r EXCEPT !.task = t], f, "done"))
         /\ Kept(r, His!Move([r EXCEPT !.task = t, !.status = u], f, "done"))
<1>1. "done" \in Places /\ "done" \notin Flying /\ TRUE \in BOOLEAN
  BY DEF Places, Flying
<1>2. Kept(r, [r EXCEPT !.task = t]) /\ Kept(r, [r EXCEPT !.task = t, !.status = u])
  BY <1>1, StatusKept
<1>3. ASSUME NEW q, Kept(r, q) PROVE Kept(r, His!Move(q, f, "done"))
  <2>1. Kept(q, His!Move(q, f, "done"))
    BY <1>1, <1>3, KeptIsSound, MoveKept
  <2> QED BY <1>3, <2>1, KeptTrans
<1> QED BY <1>2, <1>3

LEMMA FinishStep ==
  ASSUME LifecycleAssumption, HistoryInv, NEW j \in His!Ids, His!Finish(j)
  PROVE  Stepped
<1> DEFINE r == rows[j]
           s == His!Move([r EXCEPT !.task = "succeeded"], r.fence, "done")
<1>1. Kept(r, s)
  <2>1. Sound(r) /\ "succeeded" \in TaskStates /\ "succeeded" \in StatusSet
    BY RowIsSound DEF TaskStates, StatusSet
  <2> QED BY <2>1, MovedAfter
<1>2. His!End(j, s, His!Outcomes(r.stage)) /\ deleted' = deleted
  BY DEF His!Finish
<1> HIDE DEF s
<1> QED BY <1>1, <1>2, OutcomesAre, EndStep

LEMMA PostponeStep ==
  ASSUME LifecycleAssumption, HistoryInv, NEW j \in His!Ids, His!Postpone(j)
  PROVE  Stepped
<1> DEFINE r == rows[j]
<1>1. PICK u \in {"pending", "waiting_config"} :
        His!Put(j, His!Emitted(His!Move([r EXCEPT !.task = "pending", !.status = u], r.fence, "done"))) /\ deleted' = deleted
  BY DEF His!Postpone
<1>2. Sound(r) /\ "pending" \in TaskStates /\ u \in StatusSet
  BY RowIsSound DEF TaskStates, StatusSet
<1>3. Kept(r, His!Move([r EXCEPT !.task = "pending", !.status = u], r.fence, "done"))
  BY <1>2, MovedAfter
<1> QED BY <1>1, <1>3, EmittedRow

\* A late answer of an attempt that is not the current one changes money only.
LEMMA RetryOrStopStep ==
  ASSUME LifecycleAssumption, HistoryInv, NEW j \in His!Ids, NEW f \in His!Fences, His!RetryOrStop(j, f)
  PROVE  Stepped
<1> DEFINE q == rows[j]
<1>0. RowInv(q) /\ Sound(q)
  BY RowIsSound
<1>1. PICK outcome \in His!Possible(q, f) :
    LET r == His!Classified(q, f, outcome)
        matches == f = r.fence /\ r.current /\ ~deleted
    IN  /\ IF ~matches THEN His!Put(j, r)
           ELSE IF outcome = "unknown"
           THEN His!Put(j, His!Emitted([r EXCEPT !.task = "outcome_unknown", !.status = "outcome_unknown"]))
           ELSE \/ His!Put(j, His!Emitted([r EXCEPT !.task = "failed", !.status = "waiting_config"]))
                \/ /\ r.status # "failed"
                   /\ His!Put(j, His!Emitted([r EXCEPT !.task = "pending", !.status = "pending"]))
                \/ His!End(j, [r EXCEPT !.task = "failed"],
                       IF r.stage = "semantic_review" THEN {"failed"} ELSE His!Completed)
        /\ deleted' = deleted
  BY DEF His!RetryOrStop
<1> DEFINE r == His!Classified(q, f, outcome)
<1>2. \/ outcome = "not_sent" /\ q.calls[f].at \in Flying /\ r = His!Call(q, f, "done", "released")
      \/ outcome = "unknown" /\ q.calls[f].at \in Flying /\ r = His!Call(q, f, "done", "unknown")
      \/ outcome = "executed_invalid" /\ r = His!Move(q, f, "done")
  BY DEF His!Possible, His!Classified, His!At, Flying
<1>3. Kept(q, r) /\ RowStep(q, r)
  <2>0. "done" \in Places /\ "done" \notin Flying /\ "released" \in Permits /\ "unknown" \in Permits
    BY DEF Places, Flying, Permits
  <2>1. CASE q.calls[f].at \in Flying /\ r = His!Call(q, f, "done", "released")
    BY <1>0, <2>0, <2>1, CallKept, FlyingIsListed, KeptUnmarked DEF SameLife
  <2>2. CASE q.calls[f].at \in Flying /\ r = His!Call(q, f, "done", "unknown")
    BY <1>0, <2>0, <2>2, CallKept, FlyingIsListed, KeptUnmarked DEF SameLife
  <2>3. CASE r = His!Move(q, f, "done")
    <3>1. Kept(q, r) /\ SameLife(q, r) /\ (His!Over(q) => His!Over(r))
      BY <1>0, <2>0, <2>3, MoveKept
    <3>2. q.model \in Int /\ q.model <= q.fence /\ (q.cleared => His!Over(q))
      BY <1>0 DEF RowInv, Row
    <3> HIDE DEF q, r
    <3> QED BY <3>1, <3>2 DEF Kept, SameLife, RowStep, RowInv
  <2> QED BY <1>2, <2>1, <2>2, <2>3
<1> HIDE DEF r
<1>4. Sound(r)
  BY <1>3, KeptIsSound
<1>5. ASSUME NEW t \in TaskStates, NEW u \in StatusSet
      PROVE  Kept(q, [r EXCEPT !.task = t, !.status = u]) /\ Kept(q, [r EXCEPT !.task = t])
  <2>1. Kept(r, [r EXCEPT !.task = t, !.status = u]) /\ Kept(r, [r EXCEPT !.task = t])
    BY <1>4, StatusKept
  <2> QED BY <1>3, <2>1, KeptTrans
<1>6. Kept(q, [r EXCEPT !.task = "outcome_unknown", !.status = "outcome_unknown"])
  BY <1>5 DEF TaskStates, StatusSet
<1>7. Kept(q, [r EXCEPT !.task = "failed", !.status = "waiting_config"])
  BY <1>5 DEF TaskStates, StatusSet
<1>8. Kept(q, [r EXCEPT !.task = "pending", !.status = "pending"])
  BY <1>5 DEF TaskStates, StatusSet
<1>9. Kept(q, [r EXCEPT !.task = "failed"])
  BY <1>5 DEF TaskStates, StatusSet
<1>10. deleted' = deleted
  BY <1>1
<1>11. CASE His!Put(j, r)
  BY <1>3, <1>10, <1>11, ChangedRow
<1>12. CASE His!Put(j, His!Emitted([r EXCEPT !.task = "outcome_unknown", !.status = "outcome_unknown"]))
  BY <1>6, <1>10, <1>12, EmittedRow
<1>13. CASE His!Put(j, His!Emitted([r EXCEPT !.task = "failed", !.status = "waiting_config"]))
  BY <1>7, <1>10, <1>13, EmittedRow
<1>14. CASE His!Put(j, His!Emitted([r EXCEPT !.task = "pending", !.status = "pending"]))
  BY <1>8, <1>10, <1>14, EmittedRow
<1>15. CASE His!End(j, [r EXCEPT !.task = "failed"], IF r.stage = "semantic_review" THEN {"failed"} ELSE His!Completed)
  <2>1. (IF r.stage = "semantic_review" THEN {"failed"} ELSE His!Completed) \subseteq StatusSet
    BY DEF His!Completed, StatusSet
  <2> QED BY <1>9, <1>10, <1>15, <2>1, EndStep
<1> QED BY <1>1, <1>11, <1>12, <1>13, <1>14, <1>15 DEF r

LEMMA LeaseEndSteps ==
  ASSUME LifecycleAssumption, HistoryInv, NEW j \in His!Ids, His!Raise(j) \/ His!Expire(j)
  PROVE  Stepped
<1> DEFINE r == rows[j]
           f == r.fence
           unknown == [r EXCEPT !.task = "outcome_unknown", !.status = "outcome_unknown"]
<1>0. RowInv(r) /\ Sound(r) /\ r \in Row
  BY RowIsSound
<1>1. \A t \in TaskStates, u \in StatusSet : Kept(r, [r EXCEPT !.task = t, !.status = u]) /\ Kept(r, [r EXCEPT !.task = t])
  BY <1>0, StatusKept, TRUE \in BOOLEAN
<1>2. deleted' = deleted
  BY DEF His!Raise, His!Expire
<1>3. Kept(r, unknown) /\ unknown.calls = r.calls
  <2>1. Kept(r, unknown)
    BY <1>1 DEF TaskStates, StatusSet
  <2> QED BY <1>0, <2>1 DEF Row
<1>4. ASSUME NEW c, f \in 1 .. MaxFence => c \in CallRow /\ Owed(c)
      PROVE  Kept(r, [unknown EXCEPT !.calls = [r.calls EXCEPT ![f] = c]])
  <2> DEFINE s == [unknown EXCEPT !.calls = [r.calls EXCEPT ![f] = c]]
  <2>1. Sound(unknown)
    BY <1>3, KeptIsSound
  <2>2. s = [unknown EXCEPT !.calls = [unknown.calls EXCEPT ![f] = c]]
    BY <1>3
  <2> HIDE DEF unknown, s, f
  <2>3. Kept(unknown, s)
    BY <1>4, <2>1, <2>2, CallsKept
  <2>4. Kept(r, s)
    BY <1>3, <2>3, KeptTrans
  <2> QED BY <2>4 DEF s
<1>5. ASSUME His!Raise(j) PROVE Stepped
  <2>1. CASE His!Put(j, His!Emitted(His!Uncertain(r)))
    <3> DEFINE c == [at |-> "done", permit |-> "unknown"]
    <3>1. c \in CallRow /\ Owed(c)
      BY DEF CallRow, Owed, Places, Permits, Flying
    <3>2. His!Uncertain(r) = [unknown EXCEPT !.calls = [r.calls EXCEPT ![f] = c]]
      BY <1>3 DEF His!Uncertain
    <3> HIDE DEF c, unknown
    <3>3. Kept(r, His!Uncertain(r))
      BY <1>4, <3>1, <3>2
    <3> QED BY <1>2, <2>1, <3>3, EmittedRow
  <2>2. CASE His!Put(j, His!Emitted(His!Move([r EXCEPT !.task = "failed", !.status = "failed"], f, "done")))
    <3>1. Kept(r, His!Move([r EXCEPT !.task = "failed", !.status = "failed"], f, "done"))
      <4>1. "failed" \in TaskStates /\ "failed" \in StatusSet
        BY DEF TaskStates, StatusSet
      <4> QED BY <1>0, <4>1, MovedAfter
    <3> QED BY <1>2, <2>2, <3>1, EmittedRow
  <2> QED BY <1>5, <2>1, <2>2 DEF His!Raise
<1>6. ASSUME His!Expire(j) PROVE Stepped
  <2> DEFINE c == [r.calls[f] EXCEPT !.permit = "unknown"]
             s == [r EXCEPT !.task = "outcome_unknown", !.status = "outcome_unknown", !.calls[r.fence].permit = "unknown"]
  <2>1. CASE His!Put(j, His!Emitted(s))
    <3>1. f \in 1 .. MaxFence => c \in CallRow /\ Owed(c)
      <4> SUFFICES ASSUME f \in 1 .. MaxFence PROVE c \in CallRow /\ Owed(c)
        OBVIOUS
      <4>1. r.calls[f] \in CallRow
        BY <1>0 DEF Row
      <4> QED BY <4>1 DEF CallRow, Owed, Permits
    <3>2. s = [unknown EXCEPT !.calls = [r.calls EXCEPT ![f] = c]]
      BY <1>3
    <3> HIDE DEF c, unknown, s
    <3>3. Kept(r, s)
      BY <1>4, <3>1, <3>2
    <3> QED BY <1>2, <2>1, <3>3, EmittedRow
  <2>2. CASE His!Put(j, His!Emitted([r EXCEPT !.task = "cancelled"]))
    <3>1. Kept(r, [r EXCEPT !.task = "cancelled"])
      BY <1>1 DEF TaskStates, StatusSet
    <3> QED BY <1>2, <2>2, <3>1, EmittedRow
  <2>3. ASSUME NEW u \in {"paused", "pending"}, His!Put(j, His!Emitted([r EXCEPT !.task = "pending", !.status = u]))
        PROVE  Stepped
    <3>1. Kept(r, [r EXCEPT !.task = "pending", !.status = u])
      BY <1>1 DEF TaskStates, StatusSet
    <3> QED BY <1>2, <2>3, <3>1, EmittedRow
  <2>4. CASE His!Put(j, His!Emitted([r EXCEPT !.task = "failed", !.status = "failed"]))
    <3>1. Kept(r, [r EXCEPT !.task = "failed", !.status = "failed"])
      BY <1>1 DEF TaskStates, StatusSet
    <3> QED BY <1>2, <2>4, <3>1, EmittedRow
  <2> QED BY <1>6, <2>1, <2>2, <2>3, <2>4 DEF His!Expire
<1> QED BY <1>5, <1>6

--------------------------------------------------------------------------------
(* The steps of the user, of deletion and of maintenance.                  *)

LEMMA ControlSteps ==
  ASSUME LifecycleAssumption, HistoryInv, NEW j \in His!Ids, His!Control(j) \/ \E f \in His!Fences : His!Resolve(j, f)
  PROVE  Stepped
<1> DEFINE r == rows[j]
<1>0. Sound(r) /\ Kept(r, r) /\ TRUE \in BOOLEAN /\ FALSE \in BOOLEAN /\ deleted' = deleted
  BY RowIsSound DEF His!Control, His!Resolve
<1>1. ASSUME NEW t \in TaskStates, NEW u \in StatusSet
      PROVE  /\ Kept(r, [r EXCEPT !.status = u]) /\ Kept(r, [r EXCEPT !.status = u, !.current = FALSE])
             /\ Kept(r, [r EXCEPT !.task = t, !.status = u])
  BY <1>0, StatusKept
<1>2. "pending" \in TaskStates /\ {"pending", "paused", "cancelled"} \subseteq StatusSet
  BY DEF TaskStates, StatusSet
<1>3. PICK s : Kept(r, s) /\ His!Put(j, His!Emitted(s))
  <2>1. CASE His!Put(j, His!Emitted([r EXCEPT !.status = "pending"]))
    BY <1>1, <1>2, <2>1
  <2>2. ASSUME NEW u \in {"paused", "cancelled"}, His!Put(j, His!Emitted([r EXCEPT !.status = u, !.current = FALSE]))
        PROVE  \E s : Kept(r, s) /\ His!Put(j, His!Emitted(s))
    <3>1. Kept(r, [r EXCEPT !.status = u, !.current = FALSE])
      BY <1>1, <1>2, <2>2
    <3> QED BY <2>2, <3>1
  <2>3. CASE His!Put(j, His!Emitted([r EXCEPT !.task = "pending", !.status = "pending"]))
    BY <1>1, <1>2, <2>3
  <2>4. CASE His!Put(j, His!Emitted(r))
    BY <1>0, <2>4
  <2> QED BY <2>1, <2>2, <2>3, <2>4 DEF His!Control, His!Resolve
<1> QED BY <1>0, <1>3, EmittedRow

LEMMA NewRow ==
  ASSUME LifecycleAssumption, HistoryInv, NEW s \in Stages, NEW p \in 0 .. Len(rows), p = 0 \/ s \in His!MainStages,
         NEW r, r = His!Fresh(s, p) \/ \E u \in {"succeeded", "failed"} : r = His!Receipt(s, p, u)
  PROVE  Newborn(r)
<1>1. p \in Nat /\ p <= Len(rows)
  BY DEF HistoryInv
<1>2. RowInv(r) /\ r.stage = s /\ r.parent = p
  BY <1>1, FreshRow, ReceiptRow
<1> QED BY <1>1, <1>2 DEF Newborn, His!Main

LEMMA EnqueueStep ==
  ASSUME LifecycleAssumption, HistoryInv, NEW s \in Startable, His!Enqueue(s)
  PROVE  Stepped
<1>1. PICK r : rows' = Append(rows, r) /\ (r = His!Fresh(s, 0) \/ \E u \in {"succeeded", "failed"} : r = His!Receipt(s, 0, u))
  BY DEF His!Enqueue
<1>2. s \in Stages /\ 0 \in 0 .. Len(rows) /\ rows \in Seq(Row)
  BY Constants DEF HistoryInv
<1>3. Newborn(r)
  BY <1>1, <1>2, NewRow
<1>4. Len(rows) < MaxRows /\ deleted' \in BOOLEAN
  BY <1>2, Constants DEF His!Enqueue, His!Room, HistoryInv
<1>5. rows \in [1 .. Len(rows) -> Row]
  BY <1>2
<1>6. \A k \in 1 .. Len(rows) : RowStep(rows[k], rows[k])
  BY RowItself DEF HistoryInv
<1> DEFINE g == rows
<1> HIDE DEF g
<1> QED BY <1>1, <1>3, <1>4, <1>5, <1>6, MappedRows

LEMMA LeastNatural ==
  ASSUME NEW T, T \subseteq Nat, T # {}
  PROVE  \E x \in T : \A y \in T : x <= y
<1> DEFINE R == {ss \in Nat \X Nat : ss[1] < ss[2]}
<1>1. IsWellFoundedOn(R, Nat)
  BY NatLessThanWellFounded DEF OpToRel
<1> HIDE DEF R
<1>2. PICK x \in T : \A y \in T : ~ (<<y, x>> \in R)
  BY <1>1, WFMin
<1>3. ASSUME NEW y \in T PROVE x <= y
  <2>1. ~(y < x)
    BY <1>2, <1>3 DEF R
  <2> QED BY <2>1
<1> QED BY <1>3

LEMMA LatestIs ==
  ASSUME HistoryInv
  PROVE  His!Latest \in 0 .. Len(rows)
<1>0. Len(rows) \in Nat /\ His!Paid \subseteq 1 .. Len(rows)
  BY DEF HistoryInv, His!Paid, His!Ids
<1>1. CASE His!Paid = {}
  BY <1>0, <1>1 DEF His!Latest
<1>2. CASE His!Paid # {}
  <2> DEFINE T == {Len(rows) - k : k \in His!Paid}
  <2>1. T \subseteq Nat /\ T # {}
    <3>1. \A k \in His!Paid : Len(rows) - k \in Nat
      <4> SUFFICES ASSUME NEW k \in His!Paid PROVE Len(rows) - k \in Nat
        OBVIOUS
      <4>1. k \in 1 .. Len(rows)
        BY <1>0
      <4> QED BY <1>0, <4>1
    <3> QED BY <1>2, <3>1
  <2>2. PICK x \in T : \A y \in T : x <= y
    <3> HIDE DEF T
    <3> QED BY <2>1, LeastNatural
  <2>3. PICK k \in His!Paid : x = Len(rows) - k
    BY <2>2
  <2>4. \A i \in His!Paid : i <= k
    <3> SUFFICES ASSUME NEW i \in His!Paid PROVE i <= k
      OBVIOUS
    <3>1. Len(rows) - k <= Len(rows) - i
      BY <2>2, <2>3
    <3> QED BY <1>0, <3>1
  <2>5. His!Latest \in His!Paid
    BY <1>2, <2>4 DEF His!Latest
  <2> QED BY <1>0, <2>5
<1> QED BY <1>1, <1>2

LEMMA ContinueStep ==
  ASSUME LifecycleAssumption, HistoryInv, His!Continue
  PROVE  Stepped
<1> DEFINE g == [j \in His!Ids |-> IF j \in His!Paid /\ rows[j].status = "waiting_config"
                                THEN His!Emitted([rows[j] EXCEPT !.status = "cancelled", !.current = FALSE]) ELSE rows[j]]
           r == His!Fresh("translate", His!Latest)
<1>0. rows \in Seq(Row) /\ His!Ids = 1 .. Len(rows)
  BY DEF HistoryInv, His!Ids
<1>1. rows' = Append(g, r) /\ Len(rows) < MaxRows /\ deleted' \in BOOLEAN
  <2>1. rows' = Append(g, r)
    BY DEF His!Continue
  <2>2. His!Room(1) /\ deleted' = deleted
    BY DEF His!Continue
  <2>3. Len(rows) \in Nat /\ MaxRows \in Nat
    BY <1>0, Constants
  <2>4. Len(rows) < MaxRows /\ deleted' \in BOOLEAN
    BY <2>2, <2>3 DEF His!Room, HistoryInv
  <2> HIDE DEF g, r
  <2> QED BY <2>1, <2>4
<1>2. Newborn(r)
  BY LatestIs, NewRow DEF Stages, His!MainStages
<1>3. \A k \in 1 .. Len(rows) : RowStep(rows[k], g[k])
  <2> SUFFICES ASSUME NEW k \in 1 .. Len(rows) PROVE RowStep(rows[k], g[k])
    OBVIOUS
  <2> DEFINE s == [rows[k] EXCEPT !.status = "cancelled", !.current = FALSE]
  <2>1. g[k] = His!Emitted(s) \/ g[k] = rows[k]
    BY <1>0
  <2> HIDE DEF g
  <2>2. RowInv(rows[k]) /\ Kept(rows[k], s)
    <3>1. RowInv(rows[k]) /\ Sound(rows[k]) /\ "cancelled" \in StatusSet /\ FALSE \in BOOLEAN /\ "pending" \in TaskStates
      BY <1>0, RowIsSound DEF StatusSet, TaskStates
    <3> QED BY <3>1, StatusKept
  <2> HIDE DEF s
  <2>3. RowStep(rows[k], His!Emitted(s))
    BY <2>2, KeptIsSound, EmittedKept, KeptTrans, KeptUnmarked
  <2> QED BY <2>1, <2>2, <2>3, RowItself
<1>4. g \in [1 .. Len(rows) -> Row]
  <2>1. \A k \in 1 .. Len(rows) : g[k] \in Row
    BY <1>3 DEF RowStep, RowInv
  <2> QED BY <1>0, <2>1
<1> HIDE DEF g, r
<1> QED BY <1>1, <1>2, <1>3, <1>4, MappedRows

LEMMA SupersededStep == ASSUME NEW r, RowInv(r) PROVE RowStep(r, His!Superseded(r))
<1>0. Sound(r) /\ r \in Row
  BY InvIsSound DEF RowInv
<1>1. PICK u : u \in StatusSet /\ (His!Superseded(r) = r
            \/ His!Superseded(r) = His!Emitted([r EXCEPT !.current = FALSE, !.superseded = TRUE, !.status = u]))
  <2> DEFINE v == IF r.status = "outcome_unknown" THEN r.status ELSE "cancelled"
  <2>1. v \in StatusSet
    BY <1>0 DEF StatusSet
  <2>2. His!Superseded(r) = r \/ His!Superseded(r) = His!Emitted([r EXCEPT !.current = FALSE, !.superseded = TRUE, !.status = v])
    BY DEF His!Superseded
  <2> QED BY <2>1, <2>2
<1>2. Kept(r, [r EXCEPT !.current = FALSE, !.superseded = TRUE, !.status = u])
  <2>1. "pending" \in TaskStates /\ FALSE \in BOOLEAN /\ TRUE \in BOOLEAN
    BY DEF TaskStates
  <2> QED BY <1>0, <1>1, <2>1, StatusKept
<1>3. RowStep(r, His!Emitted([r EXCEPT !.current = FALSE, !.superseded = TRUE, !.status = u]))
  BY <1>2, KeptIsSound, EmittedKept, KeptTrans, KeptUnmarked
<1> QED BY <1>1, <1>3, RowItself

LEMMA TombstonedStep ==
  ASSUME NEW r, RowInv(r)
  PROVE  RowStep(r, His!Tombstoned(r)) /\ His!Visible(His!Tombstoned(r)) = His!Visible(r)
<1> DEFINE u == IF r.status \in His!Terminal THEN r.status ELSE "cancelled"
           s == His!Tombstoned(r)
           m == ~His!Visible(r)
<1>0. r \in Row /\ Sound(r) /\ r.model \in Int /\ r.model <= r.fence /\ m \in BOOLEAN
  BY InvIsSound DEF RowInv, Row, His!Visible
<1>1. u \in StatusSet
  BY <1>0 DEF Row, StatusSet
<1>2. s = [r EXCEPT !.current = FALSE, !.status = u, !.cleared = m]
  BY DEF His!Tombstoned
<1>3. m => r.cleared /\ His!Finished(r) /\ His!Over(r)
  BY <1>0, FinishedIsOver DEF His!Visible
<1> HIDE DEF m, u, s
<1>4. /\ s \in Row /\ s.stage = r.stage /\ s.parent = r.parent /\ s.model = r.model /\ s.fence = r.fence
      /\ s.calls = r.calls /\ s.task = r.task /\ s.status = u /\ s.cleared = m
  BY <1>0, <1>1, <1>2 DEF Row
<1>5. m => His!Finished(s)
  BY <1>3, <1>4 DEF His!Finished, His!Unsettled, u
<1>6. RowInv(s)
  BY <1>0, <1>4, <1>5, FinishedIsOver DEF RowInv, Sound
<1>7. RowStep(r, s)
  BY <1>0, <1>3, <1>4, <1>6 DEF RowStep
<1>8. His!Visible(s) = His!Visible(r)
  BY <1>4, <1>5 DEF His!Visible, m
<1> QED BY <1>7, <1>8 DEF s

LEMMA MaintainedStep == ASSUME NEW r, RowInv(r) PROVE RowStep(r, His!Maintained(r))
<1> DEFINE g == [f \in His!Fences |-> IF r.calls[f].permit = "reserved" THEN [r.calls[f] EXCEPT !.permit = "unknown"] ELSE r.calls[f]]
           q == [r EXCEPT !.task = "outcome_unknown", !.status = "outcome_unknown", !.current = FALSE]
           s == [q EXCEPT !.calls = g]
<1>0. r \in Row /\ Sound(r)
  BY InvIsSound DEF RowInv
<1>1. His!Maintained(r) = r \/ His!Maintained(r) = His!Emitted(s)
  <2>1. q.calls = r.calls
    BY <1>0 DEF Row
  <2> QED BY <2>1 DEF His!Maintained
<1>2. g \in [1 .. MaxFence -> CallRow] /\ \A f \in 1 .. MaxFence : Owed(g[f])
  <2> SUFFICES ASSUME NEW f \in 1 .. MaxFence PROVE g[f] \in CallRow /\ Owed(g[f])
    BY RowsAre
  <2>1. r.calls[f] \in CallRow /\ Owed(r.calls[f])
    BY <1>0 DEF Row, Sound
  <2>2. g[f] = IF r.calls[f].permit = "reserved" THEN [r.calls[f] EXCEPT !.permit = "unknown"] ELSE r.calls[f]
    BY RowsAre
  <2> HIDE DEF g
  <2> QED BY <2>1, <2>2 DEF CallRow, Owed, Permits
<1>3. Kept(r, q)
  BY <1>0, StatusKept, TRUE \in BOOLEAN, FALSE \in BOOLEAN DEF TaskStates, StatusSet
<1> HIDE DEF g, q
<1>4. s \in Row /\ s.stage = q.stage /\ s.parent = q.parent /\ s.model = q.model /\ s.fence = q.fence /\ s.calls = g
  <2>1. q \in Row
    BY <1>3 DEF Kept
  <2> QED BY <1>2, <2>1 DEF Row
<1>5. Kept(r, s)
  BY <1>2, <1>3, <1>4 DEF Kept
<1> HIDE DEF s
<1>6. RowStep(r, His!Emitted(s))
  BY <1>5, KeptIsSound, EmittedKept, KeptTrans, KeptUnmarked
<1> QED BY <1>1, <1>6, RowItself

LEMMA ClearedStep ==
  ASSUME NEW r, RowInv(r), His!Clearable(r)
  PROVE  RowStep(r, [r EXCEPT !.cleared = TRUE])
<1> DEFINE s == [r EXCEPT !.cleared = TRUE]
<1>0. r \in Row /\ Sound(r) /\ r.model \in Int /\ r.model <= r.fence
  BY InvIsSound DEF RowInv, Row
<1>1. His!Over(r)
  BY <1>0, FinishedIsOver DEF His!Clearable
<1>2. /\ s \in Row /\ s.stage = r.stage /\ s.parent = r.parent /\ s.model = r.model /\ s.fence = r.fence
      /\ s.calls = r.calls /\ s.task = r.task /\ s.status = r.status
  BY <1>0 DEF Row
<1> HIDE DEF s
<1>3. His!Over(s)
  BY <1>1, <1>2 DEF His!Over
<1> QED BY <1>0, <1>1, <1>2, <1>3 DEF RowStep, RowInv, Sound, s

LEMMA DeleteStep ==
  ASSUME LifecycleAssumption, HistoryInv, His!Delete
  PROVE  Stepped /\ \A k \in His!Ids : k \in DOMAIN rows' /\ His!Visible(rows'[k]) = His!Visible(rows[k])
<1> DEFINE g == [k \in His!Ids |-> His!Tombstoned(rows[k])]
           r == His!Fresh("cleanup", 0)
<1>0. rows \in Seq(Row) /\ His!Ids = 1 .. Len(rows) /\ Len(rows) \in Nat
  BY DEF HistoryInv, His!Ids
<1>1. rows' = Append(g, r)
  BY DEF His!Delete
<1>2. Len(rows) < MaxRows /\ deleted' \in BOOLEAN
  <2>1. His!Room(1) /\ deleted' = TRUE
    BY DEF His!Delete
  <2>2. MaxRows \in Nat
    BY Constants
  <2> QED BY <1>0, <2>1, <2>2 DEF His!Room
<1>3. Newborn(r)
  <2>1. "cleanup" \in Stages /\ "cleanup" \in His!MainStages /\ 0 \in 0 .. Len(rows)
    BY <1>0 DEF Stages, His!MainStages
  <2> QED BY <2>1, NewRow
<1>4. \A k \in 1 .. Len(rows) : RowStep(rows[k], g[k]) /\ His!Visible(g[k]) = His!Visible(rows[k])
  <2> SUFFICES ASSUME NEW k \in 1 .. Len(rows) PROVE RowStep(rows[k], g[k]) /\ His!Visible(g[k]) = His!Visible(rows[k])
    OBVIOUS
  <2>1. g[k] = His!Tombstoned(rows[k]) /\ RowInv(rows[k])
    BY <1>0, RowIsSound
  <2> HIDE DEF g
  <2> QED BY <2>1, TombstonedStep
<1>5. g \in [1 .. Len(rows) -> Row]
  <2>1. \A k \in 1 .. Len(rows) : g[k] \in Row
    BY <1>4 DEF RowStep, RowInv
  <2> QED BY <1>0, <2>1
<1> HIDE DEF g
<1>6. g \in Seq(Row) /\ Len(g) = Len(rows) /\ r \in Row
  BY <1>0, <1>3, <1>5 DEF Newborn, RowInv
<1> HIDE DEF r
<1>7. Stepped
  BY <1>1, <1>2, <1>3, <1>4, <1>5, MappedRows
<1>8. \A k \in 1 .. Len(rows) : k \in DOMAIN rows' /\ rows'[k] = g[k]
  BY <1>0, <1>1, <1>6
<1> QED BY <1>0, <1>4, <1>7, <1>8

LEMMA ReplaceStep ==
  ASSUME LifecycleAssumption, HistoryInv, His!ReplaceSource
  PROVE  Stepped
<1> DEFINE g == [k \in His!Ids |-> His!Superseded(rows[k])]
           r == His!Fresh("parse", 0)
<1>0. rows \in Seq(Row) /\ His!Ids = 1 .. Len(rows) /\ Len(rows) \in Nat /\ MaxRows \in Nat /\ deleted' \in BOOLEAN
  BY Constants DEF HistoryInv, His!Ids, His!ReplaceSource
<1>1. PICK parses \in {<<>>, <<r>>} : His!Room(Len(parses)) /\ rows' = g \o parses
  BY DEF His!ReplaceSource
<1>2. Newborn(r)
  <2>1. "parse" \in Stages /\ "parse" \in His!MainStages /\ 0 \in 0 .. Len(rows)
    BY <1>0 DEF Stages, His!MainStages
  <2> QED BY <2>1, NewRow
<1>3. \A k \in 1 .. Len(rows) : RowStep(rows[k], g[k]) /\ g[k] \in Row
  <2> SUFFICES ASSUME NEW k \in 1 .. Len(rows) PROVE RowStep(rows[k], g[k]) /\ g[k] \in Row
    OBVIOUS
  <2>1. g[k] = His!Superseded(rows[k]) /\ RowInv(rows[k])
    BY <1>0, RowIsSound
  <2> HIDE DEF g
  <2>2. RowStep(rows[k], g[k])
    BY <2>1, SupersededStep
  <2> QED BY <2>2 DEF RowStep, RowInv
<1>4. g \in [1 .. Len(rows) -> Row]
  BY <1>0, <1>3
<1> HIDE DEF g
<1>5. g \in Seq(Row) /\ Len(g) = Len(rows) /\ r \in Row
  BY <1>0, <1>2, <1>4 DEF Newborn, RowInv
<1> HIDE DEF r
<1>6. CASE parses = <<>>
  <2>1. rows' = g
    BY <1>1, <1>5, <1>6, ConcatEmptySeq
  <2> QED BY <1>0, <1>3, <1>4, <2>1, MappedRows
<1>7. CASE parses = <<r>>
  <2>1. rows' = Append(g, r)
    BY <1>1, <1>5, <1>7, AppendIsConcat
  <2>2. Len(parses) = 1
    BY <1>7
  <2>3. Len(rows) < MaxRows
    BY <1>0, <1>1, <2>2 DEF His!Room
  <2> QED BY <1>0, <1>2, <1>3, <1>4, <2>1, <2>3, MappedRows
<1> QED BY <1>1, <1>6, <1>7

LEMMA SweepSteps ==
  ASSUME LifecycleAssumption, HistoryInv, His!Maintain \/ His!Clear
  PROVE  Stepped
<1>0. rows \in Seq(Row) /\ His!Ids = 1 .. Len(rows) /\ deleted' \in BOOLEAN
  BY DEF HistoryInv, His!Ids, His!Maintain, His!Clear
<1>1. \A k \in 1 .. Len(rows) : RowInv(rows[k]) /\ RowStep(rows[k], rows[k])
  BY RowItself DEF HistoryInv
<1>2. CASE His!Maintain
  <2> DEFINE g == [k \in His!Ids |-> His!Maintained(rows[k])]
  <2>1. \A k \in 1 .. Len(rows) : RowStep(rows[k], g[k]) /\ g[k] \in Row
    <3> SUFFICES ASSUME NEW k \in 1 .. Len(rows) PROVE RowStep(rows[k], g[k]) /\ g[k] \in Row
      OBVIOUS
    <3>1. g[k] = His!Maintained(rows[k])
      BY <1>0
    <3> HIDE DEF g
    <3> QED BY <1>1, <3>1, MaintainedStep DEF RowStep, RowInv
  <2>2. rows' = g /\ g \in [1 .. Len(rows) -> Row]
    BY <1>0, <1>2, <2>1 DEF His!Maintain
  <2> HIDE DEF g
  <2> QED BY <1>0, <2>1, <2>2, MappedRows
<1>3. CASE His!Clear
  <2> DEFINE clears(k) == His!Clearable(rows[k]) /\ \E r \in His!Clearing : k \in His!Family(r)
             g == [k \in His!Ids |-> IF clears(k) THEN [rows[k] EXCEPT !.cleared = TRUE] ELSE rows[k]]
  <2>1. \A k \in 1 .. Len(rows) : RowStep(rows[k], g[k]) /\ g[k] \in Row
    <3> SUFFICES ASSUME NEW k \in 1 .. Len(rows) PROVE RowStep(rows[k], g[k]) /\ g[k] \in Row
      OBVIOUS
    <3>1. g[k] = rows[k] \/ (His!Clearable(rows[k]) /\ g[k] = [rows[k] EXCEPT !.cleared = TRUE])
      BY <1>0
    <3> HIDE DEF g
    <3>2. RowStep(rows[k], g[k])
      BY <1>1, <3>1, ClearedStep
    <3> QED BY <3>2 DEF RowStep, RowInv
  <2>2. rows' = g /\ g \in [1 .. Len(rows) -> Row]
    BY <1>0, <1>3, <2>1 DEF His!Clear
  <2> HIDE DEF g
  <2> QED BY <1>0, <2>1, <2>2, MappedRows
<1> QED BY <1>2, <1>3

LEMMA HistoryStep == ASSUME LifecycleAssumption, HistoryInv, His!Next PROVE Stepped
BY EnqueueStep, ClaimStep, ModelSteps, MoneySteps, FinishStep, PostponeStep, LeaseEndSteps, ControlSteps, RetryOrStopStep,
   ContinueStep, ReplaceStep, DeleteStep, SweepSteps DEF His!Next

LEMMA HistoryInit == ASSUME LifecycleAssumption, His!Init PROVE HistoryInv
<1>1. rows = <<>> /\ deleted = FALSE
  BY DEF His!Init
<1>2. rows \in Seq(Row) /\ Len(rows) = 0 /\ MaxRows \in Nat
  <2>1. rows \in Seq(Row) /\ Len(rows) = 0
    BY <1>1, EmptySeq
  <2> QED BY <2>1, Constants
<1>3. \A k \in 1 .. Len(rows) : FALSE
  BY <1>2
<1>4. Len(rows) <= MaxRows
  BY <1>2
<1>5. deleted \in BOOLEAN
  BY <1>1
<1>6. Below(Len(rows), rows)
  BY <1>3 DEF Below
<1> QED BY <1>2, <1>3, <1>4, <1>5, <1>6 DEF HistoryInv

--------------------------------------------------------------------------------
(* Operations: the closure over steps is one step deep, because a step     *)
(* always has an operation as its parent.                                  *)

\* What the invariant says of a row and of the row it came from.
LEMMA RowOf ==
  ASSUME HistoryInv, NEW k \in His!Ids
  PROVE  /\ rows[k] \in Row /\ k \in Nat /\ k > 0 /\ rows[k].parent \in Nat /\ rows[k].parent < k
         /\ ~His!Main(rows[k]) =>
              /\ rows[k].parent \in His!Ids /\ rows[k].stage \in His!Steps
              /\ His!Main(rows[rows[k].parent])
         /\ rows[k].stage \in His!Steps /\ rows[k].parent # 0 => ~His!Main(rows[k])
<1>1. rows[k] \in Row /\ His!Ids = 1 .. Len(rows) /\ Len(rows) \in Nat
  BY RowIsSound DEF HistoryInv, His!Ids
<1>2. rows[k].parent \in Nat /\ rows[k].stage \in Stages
  BY <1>1 DEF Row
<1>3. rows[k].parent < k /\ (~His!Main(rows[k]) => His!Main(rows[rows[k].parent]))
  BY <1>1 DEF HistoryInv, Below
<1>4. ~His!Main(rows[k]) => rows[k].parent # 0 /\ rows[k].stage \in His!Steps
  BY <1>2 DEF His!Main, His!Steps, His!MainStages, Stages
<1>5. rows[k].stage \in His!Steps /\ rows[k].parent # 0 => ~His!Main(rows[k])
  BY DEF His!Main, His!Steps, His!MainStages
<1>6. rows[k].parent # 0 => rows[k].parent \in His!Ids
  BY <1>1, <1>2, <1>3
<1> QED BY <1>1, <1>2, <1>3, <1>4, <1>5, <1>6

LEMMA FamilyIs ==
  ASSUME HistoryInv, NEW r \in His!Roots
  PROVE  His!Family(r) = His!Operation(r)
<1>0. r \in His!Ids /\ His!Main(rows[r])
  BY DEF His!Roots
<1>1. ASSUME NEW j \in His!Operation(r)
      PROVE  j \in His!Family(r)
  <2>1. j \in His!Ids /\ (j = r \/ (rows[j].parent = r /\ rows[j].stage \in His!Steps))
    BY <1>1 DEF His!Operation
  <2>2. r # 0
    BY <1>0, RowOf
  <2>3. j = r \/ (rows[j].parent = r /\ ~His!Main(rows[j]))
    BY <2>1, <2>2, RowOf
  <2> QED BY <2>1, <2>3 DEF His!Family, His!StepOf
<1>2. ASSUME NEW j \in His!Family(r)
      PROVE  j \in His!Operation(r)
  <2> DEFINE S == His!Operation(r)
  <2>1. S \in SUBSET His!Ids /\ r \in S
    BY <1>0 DEF His!Operation
  <2>2. ASSUME NEW k \in His!Ids, His!StepOf(k, S)
        PROVE  k \in S
    <3> DEFINE p == rows[k].parent
    <3>1. ~His!Main(rows[k]) /\ p \in S
      BY <2>2 DEF His!StepOf
    <3>2. p \in His!Ids /\ rows[k].stage \in His!Steps /\ His!Main(rows[p])
      BY <3>1, RowOf
    <3>3. p = r \/ (rows[p].parent = r /\ rows[p].stage \in His!Steps)
      BY <3>1 DEF His!Operation
    <3>4. rows[p].parent = r /\ rows[p].stage \in His!Steps => ~His!Main(rows[p])
      BY <1>0, <3>2, RowOf
    <3> QED BY <3>2, <3>3, <3>4 DEF His!Operation
  <2>3. \A T \in SUBSET His!Ids : (r \in T /\ \A k \in His!Ids : His!StepOf(k, T) => k \in T) => j \in T
    BY <1>2 DEF His!Family
  <2> HIDE DEF S
  <2>4. j \in S
    BY <2>1, <2>2, <2>3
  <2> QED BY <2>4 DEF S
<1> QED BY <1>1, <1>2

LEMMA OneOperation == ASSUME HistoryInv PROVE His!OneOperationEach
<1> SUFFICES ASSUME NEW j \in His!Ids
             PROVE  \E r \in His!Roots : j \in His!Family(r) /\ \A q \in His!Roots : j \in His!Family(q) => q = r
  BY DEF His!OneOperationEach
<1>1. \A q \in His!Roots : q \in His!Ids /\ His!Main(rows[q]) /\ q # 0
  BY RowOf DEF His!Roots
<1>2. \A q \in His!Roots : j \in His!Family(q) <=> (j = q \/ (rows[j].parent = q /\ rows[j].stage \in His!Steps))
  BY FamilyIs DEF His!Operation
<1>3. CASE His!Main(rows[j])
  <2>1. j \in His!Roots
    BY <1>3 DEF His!Roots
  <2>2. \A q \in His!Roots : ~(rows[j].parent = q /\ rows[j].stage \in His!Steps)
    BY <1>1, <1>3, RowOf
  <2> QED BY <1>2, <2>1, <2>2
<1>4. CASE ~His!Main(rows[j])
  <2>1. rows[j].parent \in His!Ids /\ rows[j].stage \in His!Steps /\ His!Main(rows[rows[j].parent])
    BY <1>4, RowOf
  <2>2. rows[j].parent \in His!Roots
    BY <2>1 DEF His!Roots
  <2>3. \A q \in His!Roots : j # q
    BY <1>1, <1>4
  <2> QED BY <1>2, <2>1, <2>2, <2>3
<1> QED BY <1>3, <1>4

--------------------------------------------------------------------------------
(* What an operation is shown as.                                          *)
As(j, r) ==
  LET job == rows[j]
  IN  IF His!Unknown(job) THEN "outcome_unknown"
      ELSE IF His!Reserved(job) \/ job.task = "leased" THEN "running"
      ELSE IF j # r /\ job.stage \in {"quality_check", "metadata_lookup"} /\ job.status = "failed"
           THEN "completed_with_warnings"
      ELSE job.status

LEMMA Ranks ==
  /\ DOMAIN His!Statuses = 1 .. 11
  /\ \A u \in StatusSet : \E n \in 1 .. 11 : His!Statuses[n] = u
  /\ \A n \in 1 .. 11 : His!Statuses[n] = "outcome_unknown" => n = 1
  /\ \A n \in 1 .. 11 : His!Statuses[n] \in StatusSet \ His!Terminal => n <= 7
  /\ \A n \in 1 .. 7 : His!Group(His!Statuses[n]) \in {"active", "attention"}
  /\ \A n \in 1 .. 11 : His!Group(His!Statuses[n]) = "active" => His!Statuses[n] \in {"pending", "running"}
<1> DEFINE s == His!Statuses
<1>1. /\ DOMAIN s = 1 .. 11 /\ s[1] = "outcome_unknown" /\ s[2] = "failed" /\ s[3] = "waiting_config"
      /\ s[4] = "needs_review" /\ s[5] = "paused" /\ s[6] = "running" /\ s[7] = "pending"
      /\ s[8] = "partially_completed" /\ s[9] = "completed_with_warnings" /\ s[10] = "cancelled"
      /\ s[11] = "succeeded"
  BY DEF His!Statuses
<1> HIDE DEF s
<1>2. \A n \in 1 .. 11 : n \in {1, 2, 3, 4, 5, 6, 7, 8, 9, 10, 11}
  OBVIOUS
<1>3. \A u \in StatusSet : \E n \in 1 .. 11 : s[n] = u
  BY <1>1 DEF StatusSet
<1>4. \A n \in 1 .. 11 : s[n] = "outcome_unknown" => n = 1
  BY <1>1, <1>2
<1>5. \A n \in 1 .. 11 : s[n] \in StatusSet \ His!Terminal => n <= 7
  <2>1. \A n \in {8, 9, 10, 11} : s[n] \in His!Terminal
    BY <1>1 DEF His!Terminal, His!Completed
  <2> QED BY <1>2, <2>1
<1>6. \A n \in 1 .. 7 : n \in {1, 2, 3, 4, 5, 6, 7}
  OBVIOUS
<1>7. \A n \in 1 .. 7 : His!Group(s[n]) \in {"active", "attention"}
  BY <1>1, <1>6 DEF His!Group, His!Completed
<1>8. \A n \in 1 .. 11 : His!Group(s[n]) = "active" => s[n] \in {"pending", "running"}
  BY <1>1, <1>2 DEF His!Group, His!Completed
<1> QED BY <1>1, <1>3, <1>4, <1>5, <1>7, <1>8 DEF s

LEMMA PriorityIs ==
  ASSUME HistoryInv, NEW j \in His!Ids, NEW r
  PROVE  /\ His!Priority(j, r) \in 1 .. 11 /\ His!Statuses[His!Priority(j, r)] = As(j, r)
<1>1. As(j, r) \in StatusSet
  <2>1. rows[j].status \in StatusSet
    BY RowOf DEF Row
  <2> QED BY <2>1 DEF As, StatusSet
<1>2. \E n \in DOMAIN His!Statuses : His!Statuses[n] = As(j, r)
  BY <1>1, Ranks
<1>3. His!Priority(j, r) = CHOOSE n \in DOMAIN His!Statuses : His!Statuses[n] = As(j, r)
  BY DEF His!Priority, As
<1> QED BY <1>2, <1>3, Ranks

LEMMA OpenRanks ==
  ASSUME HistoryInv, NEW j \in His!Ids, NEW r
  PROVE  /\ His!Unknown(rows[j]) => As(j, r) = "outcome_unknown"
         /\ As(j, r) \in {"pending", "running"} => ~His!Over(rows[j])
         /\ ~His!Over(rows[j]) => As(j, r) \in StatusSet \ His!Terminal
<1> DEFINE row == rows[j]
<1>0. row \in Row /\ row.status \in StatusSet
  BY RowOf DEF Row
<1>1. His!Over(row) <=> row.status \in His!Terminal /\ ~His!Unsettled(row) /\ row.task # "leased"
  BY <1>0, FinishedIsOver DEF His!Finished
<1>2. His!Unsettled(row) <=> His!Unknown(row) \/ His!Reserved(row)
  BY DEF His!Unsettled, His!Unknown, His!Reserved
<1>3. As(j, r) = IF His!Unknown(row) THEN "outcome_unknown"
                 ELSE IF His!Reserved(row) \/ row.task = "leased" THEN "running"
                 ELSE IF j # r /\ row.stage \in {"quality_check", "metadata_lookup"} /\ row.status = "failed"
                      THEN "completed_with_warnings"
                 ELSE row.status
  BY DEF As
<1>4. {"outcome_unknown", "running", "pending"} \subseteq StatusSet \ His!Terminal /\ "failed" \in His!Terminal
  BY DEF StatusSet, His!Terminal, His!Completed
<1> HIDE DEF row
<1>5. As(j, r) \in {"pending", "running"} => ~His!Over(row)
  BY <1>1, <1>2, <1>3, <1>4
<1>6. ~His!Over(row) => As(j, r) \in StatusSet \ His!Terminal
  BY <1>0, <1>1, <1>2, <1>3, <1>4
<1> QED BY <1>3, <1>5, <1>6 DEF row

LEMMA OperationIsShown == ASSUME HistoryInv PROVE His!OperationShowsItsSteps
<1> SUFFICES ASSUME NEW r \in His!Roots
             PROVE  LET shown == His!Shown(r)
                        open == \E j \in His!Operation(r) : ~His!Over(rows[j])
                    IN  /\ (\E j \in His!Operation(r) : His!Unknown(rows[j])) => shown = "outcome_unknown"
                        /\ His!Group(shown) = "active" => open
                        /\ open => His!Group(shown) \in {"active", "attention"}
  BY DEF His!OperationShowsItsSteps
<1> DEFINE ranks == {His!Priority(j, r) : j \in His!Operation(r)}
           m == CHOOSE n \in ranks : \A i \in ranks : n <= i
<1>1. His!Operation(r) \subseteq His!Ids /\ r \in His!Operation(r)
  BY DEF His!Operation, His!Roots
<1>2. His!Shown(r) = His!Statuses[m]
  BY FamilyIs DEF His!Shown
<1>3. \A j \in His!Operation(r) : His!Priority(j, r) \in 1 .. 11 /\ His!Statuses[His!Priority(j, r)] = As(j, r)
  BY <1>1, PriorityIs
<1>4. ranks \subseteq Nat /\ ranks # {}
  BY <1>1, <1>3
<1>5. m \in ranks /\ \A i \in ranks : m <= i
  <2> HIDE DEF ranks
  <2>1. \E n \in ranks : \A i \in ranks : n <= i
    BY <1>4, LeastNatural
  <2> QED BY <2>1
<1> HIDE DEF m
<1>6. PICK k \in His!Operation(r) : m = His!Priority(k, r)
  BY <1>5
<1>7. m \in 1 .. 11 /\ His!Statuses[m] = As(k, r)
  BY <1>3, <1>6
<1>8. \A j \in His!Operation(r) : m <= His!Priority(j, r)
  BY <1>5
<1> HIDE DEF ranks
<1>9. ASSUME NEW j \in His!Operation(r), His!Unknown(rows[j])
      PROVE  His!Shown(r) = "outcome_unknown"
  <2>1. His!Priority(j, r) = 1
    BY <1>1, <1>3, <1>9, OpenRanks, Ranks
  <2>2. m = 1
    BY <1>7, <1>8, <2>1
  <2> QED BY <1>2, <1>3, <1>9, <1>1, <2>1, <2>2, OpenRanks
<1>10. His!Group(His!Shown(r)) = "active" => \E j \in His!Operation(r) : ~His!Over(rows[j])
  BY <1>1, <1>2, <1>6, <1>7, OpenRanks, Ranks
<1>11. ASSUME NEW j \in His!Operation(r), ~His!Over(rows[j])
       PROVE  His!Group(His!Shown(r)) \in {"active", "attention"}
  <2>1. His!Priority(j, r) <= 7
    BY <1>1, <1>3, <1>11, OpenRanks, Ranks
  <2>2. m \in 1 .. 7
    BY <1>3, <1>7, <1>8, <2>1
  <2> QED BY <1>2, <2>2, Ranks
<1> QED BY <1>9, <1>10, <1>11

LEMMA HistoryInvIsEnough ==
  ASSUME LifecycleAssumption, HistoryInv
  PROVE  His!TypeOK /\ His!HiddenIsOver /\ His!OneOperationEach /\ His!OperationShowsItsSteps
<1>1. rows \in Seq(His!JobRows) /\ Len(rows) <= MaxRows /\ deleted \in BOOLEAN
  BY RowsAre DEF HistoryInv
<1>2. \A j \in His!Ids : rows[j].parent < j
  BY RowOf
<1>3. His!HiddenIsOver
  BY RowIsSound DEF RowInv, His!HiddenIsOver
<1> QED BY <1>1, <1>2, <1>3, OneOperation, OperationIsShown DEF His!TypeOK

--------------------------------------------------------------------------------
(* What a step may never do to the list.                                   *)
LEMMA OpenOperationsStay ==
  ASSUME HistoryInv, Stepped, NEW r \in His!Roots, NEW j \in His!Operation(r), ~His!Over(rows[j])
  PROVE  His!Listed(r)'
<1>1. j \in 1 .. Len(rows) /\ r \in 1 .. Len(rows) /\ (j = r \/ (rows[j].parent = r /\ rows[j].stage \in His!Steps))
  BY DEF His!Operation, His!Roots, His!Ids, HistoryInv
<1>2. RowStep(rows[j], rows'[j])
  BY <1>1 DEF Stepped
<1>3. j \in His!Ids'
  BY <1>1 DEF Stepped, HistoryInv, His!Ids
<1>4. His!Visible(rows'[j])
  BY <1>2 DEF RowStep, His!Visible
<1>5. j = r \/ (rows'[j].parent = r /\ ~His!Main(rows'[j]))
  <2>1. j \in His!Ids /\ r # 0
    BY <1>1 DEF HistoryInv, His!Ids
  <2>2. j = r \/ (rows[j].parent = r /\ ~His!Main(rows[j]))
    BY <1>1, <2>1, RowOf
  <2> QED BY <1>2, <2>2, MainStays DEF RowStep
<1>6. j \in His!Family(r)'
  BY <1>3, <1>5 DEF His!Family, His!StepOf
<1> QED BY <1>3, <1>4, <1>6 DEF His!Listed

LEMMA OnlyDeleteDeletes == ASSUME His!Next PROVE His!Delete \/ deleted' = deleted
BY DEF His!Next, His!Enqueue, His!Claim, His!ReportModel, His!Dispatch, His!Finish, His!Postpone, His!Raise, His!Expire,
       His!Control, His!RecordModel, His!Settle, His!RetryOrStop, His!Resolve, His!Continue, His!ReplaceSource,
       His!Maintain, His!Clear

LEMMA ListSteps ==
  ASSUME LifecycleAssumption, HistoryInv, His!Next
  PROVE  /\ \A r \in His!Roots : (\E j \in His!Operation(r) : ~His!Over(rows[j])) => His!Listed(r)'
         /\ deleted' # deleted => \A j \in His!Ids : His!Visible(rows'[j]) = His!Visible(rows[j])
         /\ \A j \in His!Ids : rows'[j].model >= rows[j].model
<1>1. Stepped
  BY HistoryStep
<1>2. \A r \in His!Roots : (\E j \in His!Operation(r) : ~His!Over(rows[j])) => His!Listed(r)'
  BY <1>1, OpenOperationsStay
<1>3. deleted' # deleted => \A j \in His!Ids : His!Visible(rows'[j]) = His!Visible(rows[j])
  BY OnlyDeleteDeletes, DeleteStep
<1>4. \A j \in His!Ids : rows'[j].model >= rows[j].model
  BY <1>1 DEF Stepped, RowStep, His!Ids, HistoryInv
<1> QED BY <1>2, <1>3, <1>4

LEMMA ListNext == LifecycleAssumption /\ HistoryInv /\ [Next]_vars => (His!Next /\ Stepped) \/ UNCHANGED listVars
<1> SUFFICES ASSUME LifecycleAssumption, HistoryInv, [Next]_vars, ~UNCHANGED listVars PROVE His!Next /\ Stepped
  OBVIOUS
<1>1. His!Next
  BY DEF Next, vars
<1> QED BY <1>1, HistoryStep

LEMMA HistoryNext == LifecycleAssumption /\ HistoryInv /\ [Next]_vars => HistoryInv'
<1> SUFFICES ASSUME LifecycleAssumption, HistoryInv, [Next]_vars PROVE HistoryInv'
  OBVIOUS
<1>1. CASE UNCHANGED listVars
  BY <1>1 DEF listVars, HistoryInv
<1> QED BY <1>1, ListNext DEF Stepped

(* jobs/visibility.py, hierarchy.py: what is cleared from the list is over *)
(* with no lease and no money owed, every job belongs to exactly one       *)
(* operation, and an operation shows an uncertain request and is listed as *)
(* under way until all of its steps are over: for any numbers of jobs and  *)
(* attempts and any stages started, however late workers and answers are.  *)
THEOREM TaskListSound == Spec => []TaskListIsSound
<1>1. Init => HistoryInv
  BY HistoryInit, LifecycleAssumption DEF Init
<1>2. HistoryInv /\ [Next]_vars => HistoryInv'
  BY HistoryNext, LifecycleAssumption
<1>3. HistoryInv => TaskListIsSound
  BY HistoryInvIsEnough, LifecycleAssumption DEF TaskListIsSound
<1> QED BY <1>1, <1>2, <1>3, PTL DEF Spec

OpenStay == \A r \in His!Roots : (\E j \in His!Operation(r) : ~His!Over(rows[j])) => His!Listed(r)'
DeletionKeeps == deleted' # deleted => \A j \in His!Ids : His!Visible(rows[j])' = His!Visible(rows[j])
ModelsForward == \A j \in His!Ids : rows'[j].model >= rows[j].model

(* jobs/visibility.py, history.py, api/library.py: no step takes an        *)
(* operation from the list while any of its steps is under way, deleting   *)
(* the document neither brings a cleared job back nor hides a listed one,  *)
(* and the model a job shows is never that of an earlier attempt.          *)
THEOREM TaskListForward == Spec => TaskListMovesForward
<1>1. Init => HistoryInv
  BY HistoryInit, LifecycleAssumption DEF Init
<1>2. HistoryInv /\ [Next]_vars => HistoryInv'
  BY HistoryNext, LifecycleAssumption
<1>3. HistoryInv /\ [Next]_vars => [OpenStay]_listVars /\ [DeletionKeeps]_listVars /\ [ModelsForward]_listVars
  <2> SUFFICES ASSUME HistoryInv, [Next]_vars, ~UNCHANGED listVars PROVE OpenStay /\ DeletionKeeps /\ ModelsForward
    OBVIOUS
  <2>1. His!Next
    BY ListNext, LifecycleAssumption
  <2> QED BY <2>1, ListSteps, LifecycleAssumption DEF OpenStay, DeletionKeeps, ModelsForward, His!Visible
<1>4. [][OpenStay]_listVars <=> His!OnlyFinishedOperationsLeave
  BY PTL DEF His!OnlyFinishedOperationsLeave, OpenStay, listVars, His!historyVars
<1>5. [][DeletionKeeps]_listVars <=> His!DeletionKeepsTheList
  BY PTL DEF His!DeletionKeepsTheList, DeletionKeeps, listVars, His!historyVars
<1>6. [][ModelsForward]_listVars <=> His!ModelMovesForward
  BY PTL DEF His!ModelMovesForward, ModelsForward, listVars, His!historyVars
<1> QED BY <1>1, <1>2, <1>3, <1>4, <1>5, <1>6, PTL DEF Spec, TaskListMovesForward
================================================================================
