----------------------------- MODULE Services_proofs -----------------------------
(***************************************************************************)
(* Proofs about Services, for any jobs, prices, charges, models and        *)
(* limits: the ledger stays within its budgets, the scheduler within the   *)
(* memory it was allowed, without favouring a job, a saved key with its    *)
(* endpoint, and inference undisturbed.  The library's induction takes an  *)
(* operator as a parameter; what is needed of sums over finite sets and of *)
(* histories is proved by looking at a smallest counterexample.            *)
(***************************************************************************)
EXTENDS Services, FiniteSetTheorems, SequenceTheorems, WellFoundedInduction, TLAPS

--------------------------------------------------------------------------------
(* Sums over finite sets.                                                  *)

IsSum(g, f, S) ==
  g = [s \in SUBSET S |-> IF s = {} THEN 0 ELSE f[CHOOSE x \in s : TRUE] + g[s \ {CHOOSE x \in s : TRUE}]]
SumOver(f, S) == (CHOOSE g : IsSum(g, f, S))[S]

LEMMA SmallestSubset ==
  ASSUME NEW S, IsFiniteSet(S), NEW T, T \subseteq SUBSET S, T # {}
  PROVE  \E x \in T : \A y \in T : y \subseteq x => y = x
<1>1. IsWellFoundedOn(StrictSubsetOrdering(S), SUBSET S)
  BY FS_StrictSubsetOrderingWellFounded, FS_FiniteSubsetsOfFinite
<1>2. \E x \in T : \A y \in T : ~ (<<y, x>> \in StrictSubsetOrdering(S))
  BY <1>1, WFMin
<1> QED BY <1>2 DEF StrictSubsetOrdering

\* Two sums agree where both are defined.
LEMMA SumsAgree ==
  ASSUME NEW f, NEW S, IsFiniteSet(S), NEW T, NEW g, IsSum(g, f, S), NEW h, IsSum(h, f, T)
  PROVE  \A s \in SUBSET (S \cap T) : g[s] = h[s]
<1> DEFINE bad == {s \in SUBSET (S \cap T) : g[s] # h[s]}
<1> SUFFICES ASSUME bad # {} PROVE FALSE
  OBVIOUS
<1>1. PICK s \in bad : \A t \in bad : t \subseteq s => t = s
  <2>1. bad \subseteq SUBSET S
    OBVIOUS
  <2> HIDE DEF bad
  <2> QED BY <2>1, SmallestSubset
<1> DEFINE x == CHOOSE y \in s : TRUE
<1>2. g[s] = IF s = {} THEN 0 ELSE f[x] + g[s \ {x}]
  BY DEF IsSum
<1>3. h[s] = IF s = {} THEN 0 ELSE f[x] + h[s \ {x}]
  BY DEF IsSum
<1>4. s # {}
  BY <1>2, <1>3
<1>5. x \in s
  BY <1>4
<1>6. g[s \ {x}] = h[s \ {x}]
  <2>1. s \ {x} \in SUBSET (S \cap T) /\ s \ {x} # s /\ s \ {x} \subseteq s
    BY <1>5
  <2> HIDE DEF x
  <2> QED BY <1>1, <2>1
<1> QED BY <1>2, <1>3, <1>4, <1>6

LEMMA SumExists ==
  ASSUME NEW f, NEW S, IsFiniteSet(S)
  PROVE  \E g : IsSum(g, f, S)
<1> DEFINE bad == {s \in SUBSET S : ~ \E g : IsSum(g, f, s)}
<1> SUFFICES ASSUME bad # {} PROVE FALSE
  OBVIOUS
<1>1. PICK s \in bad : \A t \in bad : t \subseteq s => t = s
  <2>1. bad \subseteq SUBSET S
    OBVIOUS
  <2> HIDE DEF bad
  <2> QED BY <2>1, SmallestSubset
<1> DEFINE part(t) == CHOOSE g : IsSum(g, f, t)
<1>2. \A t \in SUBSET s : t # s => IsSum(part(t), f, t)
  BY <1>1
<1> DEFINE pick(t) == CHOOSE y \in t : TRUE
           rest(t) == t \ {pick(t)}
           g == [t \in SUBSET s |-> IF t = {} THEN 0 ELSE f[pick(t)] + part(rest(t))[rest(t)]]
<1>3. \A t \in SUBSET s : t # {} => pick(t) \in t /\ rest(t) \in SUBSET s /\ rest(t) # s /\ rest(t) # t
  OBVIOUS
<1>4. \A t \in SUBSET s : t # {} => g[rest(t)] = part(rest(t))[rest(t)]
  <2> SUFFICES ASSUME NEW t \in SUBSET s, t # {} PROVE g[rest(t)] = part(rest(t))[rest(t)]
    OBVIOUS
  <2> DEFINE u == rest(t)
  <2>1. u \in SUBSET s /\ u # s
    BY <1>3
  <2>2. IsSum(part(u), f, u)
    BY <1>2, <2>1
  <2> HIDE DEF u, part
  <2>3. CASE u = {}
    <3>1. g[u] = 0
      BY <2>1, <2>3
    <3>2. part(u)[u] = 0
      BY <2>2, <2>3 DEF IsSum
    <3> QED BY <3>1, <3>2 DEF u
  <2>4. CASE u # {}
    <3> DEFINE v == rest(u)
    <3>1. part(u)[u] = f[pick(u)] + part(u)[v]
      BY <2>2, <2>4 DEF IsSum
    <3>2. g[u] = f[pick(u)] + part(v)[v]
      BY <2>1, <2>4
    <3>3. v \in SUBSET u /\ v \in SUBSET s /\ v # s
      BY <1>3, <2>1, <2>4
    <3>4. IsSum(part(v), f, v)
      BY <1>2, <3>3
    <3>5. IsFiniteSet(u)
      BY <2>1, <1>1, FS_Subset
    <3> HIDE DEF v
    <3>6. part(u)[v] = part(v)[v]
      BY <2>2, <3>3, <3>4, <3>5, SumsAgree
    <3> QED BY <3>1, <3>2, <3>6 DEF u
  <2> QED BY <2>3, <2>4
<1>5. IsSum(g, f, s)
  <2>1. \A t \in SUBSET s : g[t] = IF t = {} THEN 0 ELSE f[pick(t)] + g[rest(t)]
    <3>1. \A t \in SUBSET s : g[t] = IF t = {} THEN 0 ELSE f[pick(t)] + part(rest(t))[rest(t)]
      OBVIOUS
    <3> HIDE DEF g, pick, rest, part
    <3> QED BY <1>4, <3>1
  <2>2. g = [t \in SUBSET s |-> IF t = {} THEN 0 ELSE f[pick(t)] + g[rest(t)]]
    <3>1. g = [t \in SUBSET s |-> g[t]]
      OBVIOUS
    <3> HIDE DEF g, pick, rest
    <3> QED BY <2>1, <3>1
  <2> HIDE DEF g
  <2> QED BY <2>2 DEF IsSum
<1> QED BY <1>1, <1>5

LEMMA SumUnfolds ==
  ASSUME NEW f, NEW S, IsFiniteSet(S)
  PROVE  SumOver(f, S) = IF S = {} THEN 0 ELSE f[CHOOSE x \in S : TRUE] + SumOver(f, S \ {CHOOSE x \in S : TRUE})
<1> DEFINE g == CHOOSE h : IsSum(h, f, S)
           x == CHOOSE y \in S : TRUE
           T == S \ {x}
           k == CHOOSE h : IsSum(h, f, T)
<1>1. IsSum(g, f, S)
  BY SumExists
<1>2. IsFiniteSet(T) /\ T \in SUBSET S
  BY FS_Subset
<1>3. IsSum(k, f, T)
  <2> HIDE DEF T
  <2> QED BY <1>2, SumExists
<1>4. SumOver(f, S) = g[S] /\ SumOver(f, T) = k[T]
  BY DEF SumOver
<1>5. g[S] = IF S = {} THEN 0 ELSE f[x] + g[T]
  <2> HIDE DEF g
  <2> QED BY <1>1 DEF IsSum
<1>6. g[T] = k[T]
  <2> HIDE DEF g, k, T
  <2> QED BY <1>1, <1>2, <1>3, SumsAgree
<1> HIDE DEF g, k
<1> QED BY <1>4, <1>5, <1>6

LEMMA EmptySum == \A f : SumOver(f, {}) = 0
  BY SumUnfolds, FS_EmptySet

LEMMA SumType ==
  ASSUME NEW f, NEW S, IsFiniteSet(S), \A x \in S : f[x] \in Nat
  PROVE  SumOver(f, S) \in Nat
<1> DEFINE bad == {s \in SUBSET S : SumOver(f, s) \notin Nat}
<1> SUFFICES ASSUME bad # {} PROVE FALSE
  OBVIOUS
<1>1. PICK s \in bad : \A t \in bad : t \subseteq s => t = s
  <2>1. bad \subseteq SUBSET S
    OBVIOUS
  <2> HIDE DEF bad
  <2> QED BY <2>1, SmallestSubset
<1> DEFINE x == CHOOSE y \in s : TRUE
<1>2. SumOver(f, s) = IF s = {} THEN 0 ELSE f[x] + SumOver(f, s \ {x})
  BY SumUnfolds, FS_Subset
<1>3. CASE s = {}
  BY <1>2, <1>3
<1>4. CASE s # {}
  <2>1. x \in s
    BY <1>4
  <2> HIDE DEF x
  <2>2. s \ {x} \in SUBSET S /\ s \ {x} # s /\ s \ {x} \subseteq s /\ f[x] \in Nat
    BY <2>1
  <2>3. SumOver(f, s \ {x}) \in Nat
    BY <1>1, <2>2
  <2> QED BY <1>2, <1>4, <2>2, <2>3
<1> QED BY <1>3, <1>4

LEMMA SumRemove ==
  ASSUME NEW f, NEW S, IsFiniteSet(S), \A x \in S : f[x] \in Nat
  PROVE  \A x \in S : SumOver(f, S) = f[x] + SumOver(f, S \ {x})
<1> DEFINE bad == {s \in SUBSET S : \E x \in s : SumOver(f, s) # f[x] + SumOver(f, s \ {x})}
<1> SUFFICES ASSUME bad # {} PROVE FALSE
  OBVIOUS
<1>1. PICK s \in bad : \A t \in bad : t \subseteq s => t = s
  <2>1. bad \subseteq SUBSET S
    OBVIOUS
  <2> HIDE DEF bad
  <2> QED BY <2>1, SmallestSubset
<1>2. PICK x \in s : SumOver(f, s) # f[x] + SumOver(f, s \ {x})
  OBVIOUS
<1> DEFINE c == CHOOSE y \in s : TRUE
<1>3. SumOver(f, s) = f[c] + SumOver(f, s \ {c}) /\ c \in s
  BY <1>2, SumUnfolds, FS_Subset
<1> HIDE DEF c
<1>4. x # c
  BY <1>2, <1>3
<1>5. \A t \in SUBSET s : t # s => \A y \in t : SumOver(f, t) = f[y] + SumOver(f, t \ {y})
  BY <1>1
<1> DEFINE u == s \ {c}
           v == s \ {x}
           w == (s \ {c}) \ {x}
<1>6. u \in SUBSET s /\ u # s /\ x \in u /\ v \in SUBSET s /\ v # s /\ c \in v /\ u \ {x} = w /\ v \ {c} = w
  BY <1>2, <1>3, <1>4
<1>7. SumOver(f, w) \in Nat /\ f[x] \in Nat /\ f[c] \in Nat
  <2>1. IsFiniteSet(w) /\ w \subseteq S
    BY FS_Subset
  <2> HIDE DEF w
  <2> QED BY <1>2, <1>3, <2>1, SumType
<1>8. SumOver(f, u) = f[x] + SumOver(f, w) /\ SumOver(f, v) = f[c] + SumOver(f, w)
  <2> HIDE DEF u, v, w
  <2> QED BY <1>5, <1>6
<1> QED BY <1>2, <1>3, <1>7, <1>8

LEMMA SumMonotone ==
  ASSUME NEW f, NEW h, NEW S, IsFiniteSet(S), \A x \in S : f[x] \in Nat /\ h[x] \in Nat /\ f[x] <= h[x]
  PROVE  SumOver(f, S) <= SumOver(h, S)
<1> DEFINE bad == {s \in SUBSET S : ~(SumOver(f, s) <= SumOver(h, s))}
<1> SUFFICES ASSUME bad # {} PROVE FALSE
  OBVIOUS
<1>1. PICK s \in bad : \A t \in bad : t \subseteq s => t = s
  <2>1. bad \subseteq SUBSET S
    OBVIOUS
  <2> HIDE DEF bad
  <2> QED BY <2>1, SmallestSubset
<1>2. s # {}
  BY EmptySum
<1>3. PICK x \in s : TRUE
  BY <1>2
<1> DEFINE u == s \ {x}
<1>4. u \in SUBSET S /\ u # s /\ u \subseteq s
  OBVIOUS
<1>5. SumOver(f, u) <= SumOver(h, u)
  BY <1>1, <1>4
<1>6. IsFiniteSet(s) /\ IsFiniteSet(u)
  BY FS_Subset
<1>7. SumOver(f, s) = f[x] + SumOver(f, u) /\ SumOver(h, s) = h[x] + SumOver(h, u)
  BY <1>6, SumRemove
<1>8. SumOver(f, u) \in Nat /\ SumOver(h, u) \in Nat /\ f[x] \in Nat /\ h[x] \in Nat /\ f[x] <= h[x]
  <2> HIDE DEF u
  <2> QED BY <1>4, <1>6, SumType
<1> QED BY <1>5, <1>7, <1>8

LEMMA SumSame ==
  ASSUME NEW f, NEW h, NEW S, IsFiniteSet(S), \A x \in S : f[x] \in Nat /\ h[x] = f[x]
  PROVE  SumOver(f, S) = SumOver(h, S)
<1>1. SumOver(f, S) <= SumOver(h, S) /\ SumOver(h, S) <= SumOver(f, S)
  BY SumMonotone
<1>2. SumOver(f, S) \in Nat /\ SumOver(h, S) \in Nat
  BY SumType
<1> QED BY <1>1, <1>2

--------------------------------------------------------------------------------
(* The ledger.                                                             *)

LEMMA LedgerConstants ==
  ASSUME ServicesAssumption
  PROVE  /\ IsFiniteSet(Attempts) /\ Ldg!Instance \notin Jobs
         /\ AttemptJob \in [Attempts -> Jobs] /\ Controlled \subseteq Jobs
         /\ Reserve \in [Jobs -> Nat] /\ Charges \subseteq Nat /\ Budgets \subseteq Nat
<1>1. Ldg!IsFiniteSet(Attempts) <=> IsFiniteSet(Attempts)
  BY DEF Ldg!IsFiniteSet, IsFiniteSet
<1> QED BY <1>1 DEF ServicesAssumption, Ldg!LedgerAssumption, Ldg!Instance

SettledOf(c) == {a \in Ldg!Counted(c) : money[a] = "settled"}
aboves == [a \in Attempts |-> Ldg!Above(a)]
AtStake(c) == SumOver(micro, Ldg!Counted(c))
InExcess(c) == SumOver(aboves, SettledOf(c))

LEMMA CountedFinite ==
  ASSUME ServicesAssumption
  PROVE  \A c : /\ Ldg!Counted(c) \subseteq Attempts /\ IsFiniteSet(Ldg!Counted(c))
               /\ SettledOf(c) \subseteq Attempts /\ IsFiniteSet(SettledOf(c))
<1> TAKE c
<1>1. Ldg!Counted(c) \subseteq Attempts
  BY DEF Ldg!Counted
<1>2. SettledOf(c) \subseteq Attempts
  BY <1>1 DEF SettledOf
<1> QED BY <1>1, <1>2, FS_Subset, LedgerConstants

LEMMA TotalIsSum == \A c : Ldg!Total(c) = AtStake(c)
  BY DEF Ldg!Total, AtStake, SumOver, IsSum, Ldg!MapThenSumSet, Ldg!MapThenFoldSet

LEMMA ExcessIsSum == ASSUME ServicesAssumption PROVE \A c : Ldg!Excess(c) = InExcess(c)
<1> TAKE c
<1> DEFINE S == SettledOf(c)
           Iter(g) == g = [s \in SUBSET S |-> IF s = {} THEN 0
                            ELSE Ldg!Above(CHOOSE x \in s : TRUE) + g[s \ {CHOOSE x \in s : TRUE}]]
<1>1. Ldg!Excess(c) = (CHOOSE g : Iter(g))[S]
  BY DEF Ldg!Excess, SettledOf, Ldg!MapThenSumSet, Ldg!MapThenFoldSet
<1>2. S \subseteq Attempts /\ IsFiniteSet(S)
  BY CountedFinite
<1> HIDE DEF S
<1>3. \A g : Iter(g) <=> IsSum(g, aboves, S)
  <2> TAKE g
  <2>1. \A s \in SUBSET S : s # {} => aboves[CHOOSE x \in s : TRUE] = Ldg!Above(CHOOSE x \in s : TRUE)
    BY <1>2 DEF aboves
  <2>2. [s \in SUBSET S |-> IF s = {} THEN 0
                            ELSE Ldg!Above(CHOOSE x \in s : TRUE) + g[s \ {CHOOSE x \in s : TRUE}]]
        = [s \in SUBSET S |-> IF s = {} THEN 0
                            ELSE aboves[CHOOSE x \in s : TRUE] + g[s \ {CHOOSE x \in s : TRUE}]]
    BY <2>1
  <2> QED BY <2>2 DEF IsSum
<1> HIDE DEF Iter
<1>4. PICK k : IsSum(k, aboves, S)
  BY <1>2, SumExists
<1> DEFINE g == CHOOSE h : Iter(h)
           l == CHOOSE h : IsSum(h, aboves, S)
<1>5. IsSum(g, aboves, S) /\ IsSum(l, aboves, S)
  BY <1>3, <1>4
<1> HIDE DEF g, l
<1>6. g[S] = l[S]
  BY <1>2, <1>5, SumsAgree
<1> QED BY <1>1, <1>6 DEF InExcess, SumOver, S, g, l

\* While a request is out its reservation is what it may cost; nothing in
\* force is above what was allowed; an overrun keeps dispatch off.
HoldsReserve(a) == money[a] \in {"reserved", "unknown"} => micro[a] = Ldg!Amount(a, Reserve[AttemptJob[a]])
ReservesHeld == \A a \in Attempts : HoldsReserve(a)
BudgetsAllowed ==
  /\ instanceBudget <= allowed[Ldg!Instance]
  /\ \A j \in Jobs : jobBudget[j] <= allowed[j]
OverrunHolds == unanswered # {} => dispatchDisabled
LedgerInv == Ldg!TypeOK /\ ReservesHeld /\ BudgetsAllowed /\ OverrunHolds /\ Ldg!WithinBudget

Stakes(a, c) == IF a \in Ldg!Counted(c) THEN micro[a] ELSE 0
Exceeds(a, c) == IF a \in SettledOf(c) THEN Ldg!Above(a) ELSE 0

LEMMA LedgerTypes ==
  ASSUME ServicesAssumption, Ldg!TypeOK, NEW a \in Attempts
  PROVE  micro[a] \in Nat /\ aboves[a] = Ldg!Above(a) /\ aboves[a] \in Nat /\ Reserve[AttemptJob[a]] \in Nat
<1>1. micro[a] \in Nat /\ Reserve[AttemptJob[a]] \in Nat
  BY LedgerConstants DEF Ldg!TypeOK
<1> QED BY <1>1 DEF aboves, Ldg!Above, Ldg!Higher

\* What one attempt adds to an account.
LEMMA SumsOfOthers ==
  ASSUME ServicesAssumption, Ldg!TypeOK, NEW a \in Attempts, NEW c
  PROVE  /\ SumOver(micro, Ldg!Counted(c) \ {a}) \in Nat
         /\ AtStake(c) = SumOver(micro, Ldg!Counted(c) \ {a}) + Stakes(a, c)
         /\ SumOver(aboves, SettledOf(c) \ {a}) \in Nat
         /\ InExcess(c) = SumOver(aboves, SettledOf(c) \ {a}) + Exceeds(a, c)
<1> DEFINE S == Ldg!Counted(c)
           T == SettledOf(c)
<1>1. S \subseteq Attempts /\ IsFiniteSet(S) /\ T \subseteq Attempts /\ IsFiniteSet(T)
  BY CountedFinite
<1>2. \A b \in Attempts : micro[b] \in Nat /\ aboves[b] \in Nat /\ aboves[b] = Ldg!Above(b)
  BY LedgerTypes
<1> HIDE DEF S, T
<1>3. IsFiniteSet(S \ {a}) /\ IsFiniteSet(T \ {a})
  BY <1>1, FS_RemoveElement
<1>4. SumOver(micro, S \ {a}) \in Nat /\ SumOver(aboves, T \ {a}) \in Nat
  <2>1. \A b \in S \ {a} : micro[b] \in Nat
    BY <1>1, <1>2
  <2>2. \A b \in T \ {a} : aboves[b] \in Nat
    BY <1>1, <1>2
  <2> QED BY <1>3, <2>1, <2>2, SumType
<1>5. SumOver(micro, S) = SumOver(micro, S \ {a}) + IF a \in S THEN micro[a] ELSE 0
  <2>1. CASE a \in S
    <3>1. \A b \in S : micro[b] \in Nat
      BY <1>1, <1>2
    <3>2. SumOver(micro, S) = micro[a] + SumOver(micro, S \ {a})
      BY <1>1, <2>1, <3>1, SumRemove
    <3> QED BY <1>4, <2>1, <3>1, <3>2
  <2>2. CASE a \notin S
    <3>1. S \ {a} = S
      BY <2>2
    <3> QED BY <1>4, <2>2, <3>1
  <2> QED BY <2>1, <2>2
<1>6. SumOver(aboves, T) = SumOver(aboves, T \ {a}) + IF a \in T THEN aboves[a] ELSE 0
  <2>1. CASE a \in T
    <3>1. \A b \in T : aboves[b] \in Nat
      BY <1>1, <1>2
    <3>2. SumOver(aboves, T) = aboves[a] + SumOver(aboves, T \ {a})
      BY <1>1, <2>1, <3>1, SumRemove
    <3> QED BY <1>4, <2>1, <3>1, <3>2
  <2>2. CASE a \notin T
    <3>1. T \ {a} = T
      BY <2>2
    <3> QED BY <1>4, <2>2, <3>1
  <2> QED BY <2>1, <2>2
<1> QED BY <1>2, <1>4, <1>5, <1>6 DEF AtStake, InExcess, Stakes, Exceeds, S, T

Parted ==
  \A a \in Attempts : \A c :
    /\ SumOver(micro, Ldg!Counted(c) \ {a}) \in Nat
    /\ AtStake(c) = SumOver(micro, Ldg!Counted(c) \ {a}) + Stakes(a, c)
    /\ SumOver(aboves, SettledOf(c) \ {a}) \in Nat
    /\ InExcess(c) = SumOver(aboves, SettledOf(c) \ {a}) + Exceeds(a, c)
LEMMA SumsPart == Ldg!TypeOK => Parted
  BY SumsOfOthers, ServicesAssumption DEF Parted

\* A step that moves the permit of one attempt moves each account by what
\* that attempt adds to it.
OthersStay(a) == \A b \in Attempts \ {a} : money'[b] = money[b] /\ micro'[b] = micro[b]

LEMMA OneMoves ==
  ASSUME ServicesAssumption, Ldg!TypeOK, Ldg!TypeOK', NEW a \in Attempts, OthersStay(a), NEW c
  PROVE  \E m, n \in Nat : /\ AtStake(c) = m + Stakes(a, c) /\ AtStake(c)' = m + Stakes(a, c)'
                           /\ InExcess(c) = n + Exceeds(a, c) /\ InExcess(c)' = n + Exceeds(a, c)'
<1> DEFINE S == Ldg!Counted(c) \ {a}
           T == SettledOf(c) \ {a}
<1>1. /\ SumOver(micro, S) \in Nat /\ AtStake(c) = SumOver(micro, S) + Stakes(a, c)
      /\ SumOver(aboves, T) \in Nat /\ InExcess(c) = SumOver(aboves, T) + Exceeds(a, c)
  BY SumsPart DEF Parted
<1>2. Parted'
  BY SumsPart, PTL
<1>3. S' = S /\ T' = T
  BY DEF OthersStay, Ldg!Counted, SettledOf
<1>4. /\ AtStake(c)' = SumOver(micro', S') + Stakes(a, c)'
      /\ InExcess(c)' = SumOver(aboves', T') + Exceeds(a, c)'
  BY <1>2 DEF Parted
<1>5. IsFiniteSet(S) /\ IsFiniteSet(T) /\ S \subseteq Attempts \ {a} /\ T \subseteq Attempts \ {a}
  BY CountedFinite, FS_RemoveElement
<1>6. \A b \in Attempts \ {a} : micro[b] \in Nat /\ micro'[b] = micro[b] /\ aboves[b] \in Nat /\ aboves'[b] = aboves[b]
  <2> SUFFICES ASSUME NEW b \in Attempts \ {a}
               PROVE  micro[b] \in Nat /\ micro'[b] = micro[b] /\ aboves[b] \in Nat /\ aboves'[b] = aboves[b]
    OBVIOUS
  <2>1. micro[b] \in Nat /\ micro'[b] = micro[b] /\ aboves[b] \in Nat
    BY LedgerTypes DEF OthersStay
  <2>2. aboves'[b] = aboves[b]
    BY <2>1 DEF aboves, Ldg!Above
  <2> QED BY <2>1, <2>2
<1> HIDE DEF S, T
<1>7. SumOver(micro', S) = SumOver(micro, S)
  BY <1>5, <1>6, SumSame
<1>8. SumOver(aboves', T) = SumOver(aboves, T)
  BY <1>5, <1>6, SumSame
<1> QED BY <1>1, <1>3, <1>4, <1>7, <1>8

LEMMA NoneMoves ==
  ASSUME micro' = micro,
         \A a \in Attempts : /\ money'[a] \in {"reserved", "unknown", "settled"} <=> money[a] \in {"reserved", "unknown", "settled"}
                             /\ money'[a] = "settled" <=> money[a] = "settled"
  PROVE  \A c : AtStake(c)' = AtStake(c) /\ InExcess(c)' = InExcess(c)
<1> TAKE c
<1>1. Ldg!Counted(c)' = Ldg!Counted(c)
  BY DEF Ldg!Counted
<1>2. SettledOf(c)' = SettledOf(c)
  <2>1. SettledOf(c) = {a \in Attempts : a \in Ldg!Counted(c) /\ money[a] = "settled"}
    BY DEF SettledOf, Ldg!Counted
  <2>2. SettledOf(c)' = {a \in Attempts : a \in Ldg!Counted(c)' /\ money'[a] = "settled"}
    BY DEF SettledOf, Ldg!Counted
  <2> QED BY <1>1, <2>1, <2>2
<1>3. aboves' = aboves
  BY DEF aboves, Ldg!Above
<1> QED BY <1>1, <1>2, <1>3 DEF AtStake, InExcess

\* The budgets in terms of the sums.
Afforded == \A c \in Ldg!Accounts : (c = Ldg!Instance \/ c \in Controlled) => AtStake(c) <= allowed[c] + InExcess(c)
LEMMA WithinIsAfforded == Ldg!WithinBudget <=> Afforded
  BY TotalIsSum, ExcessIsSum, ServicesAssumption DEF Ldg!WithinBudget, Afforded

LEMMA SumTypes == Ldg!TypeOK => \A c : AtStake(c) \in Nat /\ InExcess(c) \in Nat
<1> SUFFICES ASSUME Ldg!TypeOK, NEW c PROVE AtStake(c) \in Nat /\ InExcess(c) \in Nat
  OBVIOUS
<1>1. \A a \in Attempts : micro[a] \in Nat /\ aboves[a] \in Nat
  BY LedgerTypes, ServicesAssumption
<1>2. IsFiniteSet(Ldg!Counted(c)) /\ \A a \in Ldg!Counted(c) : micro[a] \in Nat
  BY <1>1, CountedFinite, ServicesAssumption
<1>3. IsFiniteSet(SettledOf(c)) /\ \A a \in SettledOf(c) : aboves[a] \in Nat
  BY <1>1, CountedFinite, ServicesAssumption
<1> QED BY <1>2, <1>3, SumType DEF AtStake, InExcess

LEMMA LedgerInit == ServicesAssumption /\ Ldg!Init => LedgerInv
<1> SUFFICES ASSUME ServicesAssumption, Ldg!Init PROVE LedgerInv
  OBVIOUS
<1> USE DEF Ldg!Init
<1>1. Ldg!TypeOK
  BY LedgerConstants DEF Ldg!TypeOK, Ldg!SentStates, Ldg!MoneyStates, Ldg!Accounts
<1>2. ReservesHeld /\ OverrunHolds
  BY DEF ReservesHeld, HoldsReserve, OverrunHolds
<1>3. BudgetsAllowed
  BY <1>1, LedgerConstants DEF BudgetsAllowed, Ldg!Accounts, Ldg!TypeOK
<1>4. \A c : AtStake(c) = 0
  <2> TAKE c
  <2>1. Ldg!Counted(c) = {}
    BY DEF Ldg!Counted
  <2> QED BY <2>1, EmptySum DEF AtStake
<1>5. Afforded
  BY <1>1, <1>4, SumTypes DEF Afforded, Ldg!TypeOK
<1> QED BY <1>1, <1>2, <1>3, <1>5, WithinIsAfforded DEF LedgerInv

LEMMA LedgerTypeStep ==
  ASSUME ServicesAssumption, Ldg!TypeOK, Ldg!Next
  PROVE  Ldg!TypeOK'
<1> USE LedgerConstants DEF Ldg!TypeOK, Ldg!SentStates, Ldg!MoneyStates
<1>0. \A a \in Attempts, n \in Nat : AttemptJob[a] \in Jobs /\ Ldg!Amount(a, n) \in Nat
  BY DEF Ldg!Amount
<1>1. ASSUME NEW a \in Attempts, Ldg!Authorize(a) PROVE Ldg!TypeOK'
  BY <1>0, <1>1 DEF Ldg!Authorize
<1>2. ASSUME NEW a \in Attempts, Ldg!Refuse(a) PROVE Ldg!TypeOK'
  BY <1>2 DEF Ldg!Refuse
<1>3. ASSUME NEW a \in Attempts, Ldg!MarkUnknown(a) PROVE Ldg!TypeOK'
  BY <1>3 DEF Ldg!MarkUnknown
<1>4. ASSUME NEW a \in Attempts, Ldg!ReleaseUnsent(a) PROVE Ldg!TypeOK'
  BY <1>4 DEF Ldg!ReleaseUnsent
<1>5. ASSUME NEW a \in Attempts, NEW c \in Charges, Ldg!Settle(a, c) PROVE Ldg!TypeOK'
  <2>1. c \in Nat /\ (dispatchDisabled' \in BOOLEAN)
    BY <1>5 DEF Ldg!Settle, Ldg!Overruns, Ldg!IsControlled
  <2> QED BY <1>0, <1>5, <2>1 DEF Ldg!Settle
<1>6. ASSUME NEW a \in Attempts, NEW b \in Budgets, Ldg!RetryAcceptRisk(a, b) PROVE Ldg!TypeOK'
  <2>1. b \in Nat /\ AttemptJob[a] \in Jobs
    OBVIOUS
  <2>2. allowed[AttemptJob[a]] \in Nat /\ Ldg!Higher(allowed[AttemptJob[a]], b) \in Nat
    BY <2>1 DEF Ldg!Higher, Ldg!Accounts
  <2> QED BY <1>6, <2>1, <2>2 DEF Ldg!RetryAcceptRisk, Ldg!Accounts
<1>7. ASSUME Ldg!DisableDispatch PROVE Ldg!TypeOK'
  BY <1>7 DEF Ldg!DisableDispatch
<1>8. ASSUME NEW risk \in BOOLEAN, Ldg!EnableDispatch(risk) PROVE Ldg!TypeOK'
  BY <1>8 DEF Ldg!EnableDispatch
<1>9. ASSUME Ldg!EnterMaintenance PROVE Ldg!TypeOK'
  BY <1>9 DEF Ldg!EnterMaintenance
<1>10. ASSUME NEW b \in Budgets, Ldg!SetInstanceBudget(b) PROVE Ldg!TypeOK'
  <2>1. b \in Nat
    OBVIOUS
  <2>2. allowed[Ldg!Instance] \in Nat /\ Ldg!Higher(allowed[Ldg!Instance], b) \in Nat
    BY <2>1 DEF Ldg!Higher, Ldg!Accounts
  <2> QED BY <1>10, <2>1, <2>2 DEF Ldg!SetInstanceBudget, Ldg!Accounts
<1> QED BY <1>1, <1>2, <1>3, <1>4, <1>5, <1>6, <1>7, <1>8, <1>9, <1>10 DEF Ldg!Next

\* Steps that give or move the permit of attempt a keep the rest; what is at
\* stake and allowed for each account decides.
LEMMA MoveKeeps ==
  ASSUME ServicesAssumption, LedgerInv, Ldg!TypeOK', NEW a \in Attempts, OthersStay(a),
         UNCHANGED <<jobBudget, instanceBudget, allowed>>, HoldsReserve(a)', OverrunHolds',
         \A c \in Ldg!Accounts : c = Ldg!Instance \/ c \in Controlled =>
           /\ Stakes(a, c) \in Nat /\ Stakes(a, c)' \in Nat /\ Exceeds(a, c) \in Nat /\ Exceeds(a, c)' \in Nat
           /\ \/ Stakes(a, c)' - Exceeds(a, c)' <= Stakes(a, c) - Exceeds(a, c)
              \/ /\ AtStake(c) + Stakes(a, c)' <= allowed[c]
                 /\ Stakes(a, c) = 0 /\ Exceeds(a, c) = 0
  PROVE  LedgerInv'
<1>1. ReservesHeld'
  BY DEF LedgerInv, ReservesHeld, HoldsReserve, OthersStay, Ldg!Amount, Ldg!IsControlled
<1>2. BudgetsAllowed'
  BY DEF LedgerInv, BudgetsAllowed
<1>3. Afforded'
  <2> SUFFICES ASSUME NEW c \in Ldg!Accounts, c = Ldg!Instance \/ c \in Controlled
               PROVE  AtStake(c)' <= allowed'[c] + InExcess(c)'
    BY DEF Afforded, Ldg!Accounts
  <2>1. PICK m, n \in Nat : /\ AtStake(c) = m + Stakes(a, c) /\ AtStake(c)' = m + Stakes(a, c)'
                           /\ InExcess(c) = n + Exceeds(a, c) /\ InExcess(c)' = n + Exceeds(a, c)'
    BY OneMoves DEF LedgerInv
  <2>2. AtStake(c) <= allowed[c] + InExcess(c) /\ allowed' = allowed /\ allowed[c] \in Nat
    BY WithinIsAfforded DEF LedgerInv, Afforded, Ldg!TypeOK
  <2> QED BY <2>1, <2>2
<1>4. Ldg!WithinBudget'
  BY <1>3, WithinIsAfforded, PTL
<1> QED BY <1>1, <1>2, <1>4 DEF LedgerInv

\* Steps that move no amount.
LEMMA RestKeeps ==
  ASSUME ServicesAssumption, LedgerInv, Ldg!TypeOK', micro' = micro, BudgetsAllowed', OverrunHolds',
         \A a \in Attempts : /\ money'[a] \in {"reserved", "unknown"} <=> money[a] \in {"reserved", "unknown"}
                             /\ money'[a] = "settled" <=> money[a] = "settled",
         \A c \in Ldg!Accounts : allowed[c] <= allowed'[c]
  PROVE  LedgerInv'
<1>1. ReservesHeld'
  BY DEF LedgerInv, ReservesHeld, HoldsReserve, Ldg!Amount, Ldg!IsControlled
<1>2. Afforded'
  <2> SUFFICES ASSUME NEW c \in Ldg!Accounts, c = Ldg!Instance \/ c \in Controlled
               PROVE  AtStake(c)' <= allowed'[c] + InExcess(c)'
    BY DEF Afforded, Ldg!Accounts
  <2>1. AtStake(c)' = AtStake(c) /\ InExcess(c)' = InExcess(c)
    BY NoneMoves
  <2>2. AtStake(c) <= allowed[c] + InExcess(c) /\ allowed[c] \in Nat /\ allowed'[c] \in Nat
    BY WithinIsAfforded DEF LedgerInv, Afforded, Ldg!TypeOK, Ldg!Accounts
  <2>3. AtStake(c) \in Nat /\ InExcess(c) \in Nat
    BY SumTypes DEF LedgerInv
  <2> QED BY <2>1, <2>2, <2>3
<1>3. Ldg!WithinBudget'
  BY <1>2, WithinIsAfforded, PTL
<1> QED BY <1>1, <1>3 DEF LedgerInv

LEMMA AuthorizeStep ==
  ASSUME ServicesAssumption, LedgerInv, Ldg!TypeOK', NEW a \in Attempts, Ldg!Authorize(a)
  PROVE  LedgerInv' /\ unanswered = {}
<1> DEFINE j == AttemptJob[a]
           R == Reserve[j]
<1>1. money[a] = "none" /\ Ldg!MayDispatch(a) /\ ~dispatchDisabled /\ unanswered = {}
  BY DEF Ldg!Authorize, Ldg!MayDispatch, LedgerInv, OverrunHolds
<1>2. /\ money' = [money EXCEPT ![a] = "reserved"] /\ micro' = [micro EXCEPT ![a] = Ldg!Amount(a, R)]
      /\ UNCHANGED <<jobBudget, instanceBudget, dispatchDisabled, unanswered, allowed>>
  BY DEF Ldg!Authorize
<1>3. Ldg!TypeOK /\ j \in Jobs /\ R \in Nat
  BY LedgerConstants DEF LedgerInv
<1>4. OthersStay(a) /\ money'[a] = "reserved" /\ micro'[a] = Ldg!Amount(a, R)
  BY <1>2, <1>3 DEF OthersStay, Ldg!TypeOK
<1>5. HoldsReserve(a)' /\ OverrunHolds'
  BY <1>1, <1>2, <1>4 DEF HoldsReserve, OverrunHolds, Ldg!Amount, Ldg!IsControlled
<1>6. ASSUME NEW c \in Ldg!Accounts, c = Ldg!Instance \/ c \in Controlled
      PROVE  /\ Stakes(a, c) = 0 /\ Exceeds(a, c) = 0 /\ Exceeds(a, c)' = 0
             /\ Stakes(a, c)' \in Nat
             /\ Stakes(a, c)' = 0 \/ AtStake(c) + Stakes(a, c)' <= allowed[c]
  <2>1. Stakes(a, c) = 0 /\ Exceeds(a, c) = 0
    BY <1>1 DEF Stakes, Exceeds, SettledOf, Ldg!Counted
  <2>2. Exceeds(a, c)' = 0
    BY <1>4 DEF Exceeds, SettledOf, Ldg!Counted
  <2>3. CASE Ldg!IsControlled(a) /\ c \in {j, Ldg!Instance}
    <3>1. Stakes(a, c)' = R
      BY <1>4, <2>3 DEF Stakes, Ldg!Counted, Ldg!IsControlled, Ldg!Amount
    <3>2. instanceBudget - AtStake(Ldg!Instance) >= R /\ jobBudget[j] - AtStake(j) >= R
      BY <1>1, <2>3, TotalIsSum DEF Ldg!MayDispatch, Ldg!FitsBudgets
    <3>3. /\ instanceBudget <= allowed[Ldg!Instance] /\ jobBudget[j] <= allowed[j]
          /\ instanceBudget \in Nat /\ jobBudget[j] \in Nat /\ allowed[c] \in Nat /\ AtStake(c) \in Nat
      BY <1>3, SumTypes DEF LedgerInv, BudgetsAllowed, Ldg!TypeOK
    <3> QED BY <1>3, <2>1, <2>2, <2>3, <3>1, <3>2, <3>3
  <2>4. CASE ~(Ldg!IsControlled(a) /\ c \in {j, Ldg!Instance})
    <3>1. Stakes(a, c)' = 0
      BY <2>4 DEF Stakes, Ldg!Counted, Ldg!IsControlled
    <3> QED BY <2>1, <2>2, <3>1
  <2> QED BY <2>3, <2>4
<1>7. \A c \in Ldg!Accounts : c = Ldg!Instance \/ c \in Controlled =>
           /\ Stakes(a, c) \in Nat /\ Stakes(a, c)' \in Nat /\ Exceeds(a, c) \in Nat /\ Exceeds(a, c)' \in Nat
           /\ \/ Stakes(a, c)' - Exceeds(a, c)' <= Stakes(a, c) - Exceeds(a, c)
              \/ /\ AtStake(c) + Stakes(a, c)' <= allowed[c]
                 /\ Stakes(a, c) = 0 /\ Exceeds(a, c) = 0
  BY <1>6
<1> HIDE DEF j, R
<1> QED BY <1>1, <1>2, <1>4, <1>5, <1>7, MoveKeeps

LEMMA SettleStep ==
  ASSUME ServicesAssumption, LedgerInv, Ldg!TypeOK', NEW a \in Attempts, NEW cost \in Charges, Ldg!Settle(a, cost)
  PROVE  LedgerInv'
<1> DEFINE R == Reserve[AttemptJob[a]]
<1>1. /\ money[a] \in {"reserved", "unknown"}
      /\ money' = [money EXCEPT ![a] = "settled"] /\ micro' = [micro EXCEPT ![a] = Ldg!Amount(a, cost)]
      /\ UNCHANGED <<jobBudget, instanceBudget, allowed>>
  BY DEF Ldg!Settle
<1>2. Ldg!TypeOK /\ R \in Nat /\ cost \in Nat /\ micro[a] = Ldg!Amount(a, R)
  BY <1>1, LedgerConstants DEF LedgerInv, ReservesHeld, HoldsReserve
<1>3. OthersStay(a) /\ money'[a] = "settled" /\ micro'[a] = Ldg!Amount(a, cost)
  BY <1>1, <1>2 DEF OthersStay, Ldg!TypeOK
<1>4. HoldsReserve(a)'
  BY <1>3 DEF HoldsReserve
<1>5. OverrunHolds'
  <2>1. dispatchDisabled' = (dispatchDisabled \/ Ldg!Overruns(a, cost))
    BY DEF Ldg!Settle
  <2>2. unanswered' = IF Ldg!IsControlled(a) /\ cost > R THEN unanswered \cup {a} ELSE unanswered
    BY DEF Ldg!Settle
  <2>3. Ldg!IsControlled(a) /\ cost > R => Ldg!Overruns(a, cost)
    BY <1>2 DEF Ldg!Overruns, Ldg!Amount
  <2> QED BY <2>1, <2>2, <2>3 DEF LedgerInv, OverrunHolds
<1>6. ASSUME NEW c \in Ldg!Accounts
      PROVE  /\ Stakes(a, c) \in Nat /\ Stakes(a, c)' \in Nat /\ Exceeds(a, c) = 0 /\ Exceeds(a, c)' \in Nat
             /\ Stakes(a, c)' - Exceeds(a, c)' <= Stakes(a, c)
  <2>1. Exceeds(a, c) = 0
    BY <1>1 DEF Exceeds, SettledOf
  <2>2. CASE Ldg!IsControlled(a) /\ c \in {AttemptJob[a], Ldg!Instance}
    <3>1. Stakes(a, c) = R
      BY <1>1, <1>2, <2>2 DEF Stakes, Ldg!Counted, Ldg!IsControlled, Ldg!Amount
    <3>2. Stakes(a, c)' = cost
      BY <1>3, <2>2 DEF Stakes, Ldg!Counted, Ldg!IsControlled, Ldg!Amount
    <3>3. Exceeds(a, c)' = Ldg!Higher(cost, R) - R
      BY <1>3, <2>2 DEF Exceeds, SettledOf, Ldg!Counted, Ldg!IsControlled, Ldg!Amount, Ldg!Above
    <3> QED BY <1>2, <2>1, <3>1, <3>2, <3>3 DEF Ldg!Higher
  <2>3. CASE ~(Ldg!IsControlled(a) /\ c \in {AttemptJob[a], Ldg!Instance})
    <3>1. Stakes(a, c) = 0
      BY <2>3 DEF Stakes, Ldg!Counted, Ldg!IsControlled
    <3>2. Stakes(a, c)' = 0 /\ Exceeds(a, c)' = 0
      BY <2>3 DEF Stakes, Exceeds, SettledOf, Ldg!Counted, Ldg!IsControlled
    <3> QED BY <2>1, <3>1, <3>2
  <2> QED BY <2>2, <2>3
<1>7. \A c \in Ldg!Accounts : c = Ldg!Instance \/ c \in Controlled =>
           /\ Stakes(a, c) \in Nat /\ Stakes(a, c)' \in Nat /\ Exceeds(a, c) \in Nat /\ Exceeds(a, c)' \in Nat
           /\ \/ Stakes(a, c)' - Exceeds(a, c)' <= Stakes(a, c) - Exceeds(a, c)
              \/ /\ AtStake(c) + Stakes(a, c)' <= allowed[c]
                 /\ Stakes(a, c) = 0 /\ Exceeds(a, c) = 0
  BY <1>6
<1> HIDE DEF R
<1> QED BY <1>1, <1>3, <1>4, <1>5, <1>7, MoveKeeps

LEMMA ReleaseStep ==
  ASSUME ServicesAssumption, LedgerInv, Ldg!TypeOK', NEW a \in Attempts, Ldg!ReleaseUnsent(a)
  PROVE  LedgerInv'
<1>1. /\ money[a] = "reserved" /\ money' = [money EXCEPT ![a] = "released"]
      /\ UNCHANGED <<micro, jobBudget, instanceBudget, dispatchDisabled, unanswered, allowed>>
  BY DEF Ldg!ReleaseUnsent
<1>2. Ldg!TypeOK /\ micro[a] \in Nat
  BY LedgerTypes DEF LedgerInv
<1>3. OthersStay(a) /\ money'[a] = "released"
  BY <1>1, <1>2 DEF OthersStay, Ldg!TypeOK
<1>4. HoldsReserve(a)' /\ OverrunHolds'
  BY <1>1, <1>3 DEF HoldsReserve, LedgerInv, OverrunHolds
<1>5. \A c \in Ldg!Accounts : c = Ldg!Instance \/ c \in Controlled =>
           /\ Stakes(a, c) \in Nat /\ Stakes(a, c)' \in Nat /\ Exceeds(a, c) \in Nat /\ Exceeds(a, c)' \in Nat
           /\ \/ Stakes(a, c)' - Exceeds(a, c)' <= Stakes(a, c) - Exceeds(a, c)
              \/ /\ AtStake(c) + Stakes(a, c)' <= allowed[c]
                 /\ Stakes(a, c) = 0 /\ Exceeds(a, c) = 0
  <2> TAKE c \in Ldg!Accounts
  <2>1. Stakes(a, c)' = 0 /\ Exceeds(a, c)' = 0 /\ Exceeds(a, c) = 0
    BY <1>1, <1>3 DEF Stakes, Exceeds, SettledOf, Ldg!Counted
  <2>2. Stakes(a, c) \in Nat
    BY <1>2 DEF Stakes
  <2> QED BY <2>1, <2>2
<1> QED BY <1>1, <1>3, <1>4, <1>5, MoveKeeps

LEMMA LedgerNext ==
  ASSUME ServicesAssumption, LedgerInv, Ldg!Next \/ UNCHANGED ledgerVars
  PROVE  LedgerInv'
<1>0. Ldg!TypeOK'
  <2>1. CASE UNCHANGED ledgerVars
    BY <2>1 DEF ledgerVars, LedgerInv, Ldg!TypeOK
  <2> QED BY <2>1, LedgerTypeStep DEF LedgerInv
<1> DEFINE Kept == /\ micro' = micro /\ BudgetsAllowed' /\ OverrunHolds'
                   /\ \A a \in Attempts : /\ money'[a] \in {"reserved", "unknown"} <=> money[a] \in {"reserved", "unknown"}
                                          /\ money'[a] = "settled" <=> money[a] = "settled"
                   /\ \A c \in Ldg!Accounts : allowed[c] <= allowed'[c]
<1>1. Ldg!TypeOK /\ BudgetsAllowed /\ OverrunHolds
  BY DEF LedgerInv
<1>2. \A c \in Ldg!Accounts : allowed[c] \in Nat
  BY <1>1 DEF Ldg!TypeOK
<1>3. ASSUME UNCHANGED <<money, micro, jobBudget, instanceBudget, allowed>>,
             dispatchDisabled' \/ UNCHANGED <<dispatchDisabled, unanswered>> \/ unanswered' = {}
      PROVE  Kept
  BY <1>1, <1>2, <1>3 DEF BudgetsAllowed, OverrunHolds
<1>4. ASSUME NEW a \in Attempts, Ldg!Refuse(a) PROVE Kept
  BY <1>3, <1>4 DEF Ldg!Refuse
<1>5. ASSUME NEW a \in Attempts, Ldg!MarkUnknown(a) PROVE Kept
  BY <1>1, <1>2, <1>5 DEF Ldg!MarkUnknown, BudgetsAllowed, OverrunHolds, Ldg!TypeOK
<1>6. ASSUME Ldg!DisableDispatch PROVE Kept
  BY <1>3, <1>6 DEF Ldg!DisableDispatch
<1>7. ASSUME NEW risk \in BOOLEAN, Ldg!EnableDispatch(risk) PROVE Kept
  BY <1>3, <1>7 DEF Ldg!EnableDispatch
<1>8. ASSUME Ldg!EnterMaintenance PROVE Kept
  BY <1>1, <1>2, <1>8 DEF Ldg!EnterMaintenance, BudgetsAllowed, OverrunHolds, Ldg!TypeOK, Ldg!InFlight
<1>9. ASSUME NEW b \in Budgets, Ldg!SetInstanceBudget(b) PROVE Kept
  <2>1. /\ instanceBudget' = b /\ allowed' = [allowed EXCEPT ![Ldg!Instance] = Ldg!Higher(allowed[Ldg!Instance], b)]
        /\ UNCHANGED <<money, micro, jobBudget, dispatchDisabled, unanswered>>
    BY <1>9 DEF Ldg!SetInstanceBudget
  <2>2. b \in Nat /\ Ldg!Instance \in Ldg!Accounts /\ \A j \in Jobs : j \in Ldg!Accounts /\ j # Ldg!Instance
    BY LedgerConstants DEF Ldg!Accounts
  <2>3. /\ \A c \in Ldg!Accounts : allowed[c] <= allowed'[c] /\ (c # Ldg!Instance => allowed'[c] = allowed[c])
        /\ b <= allowed'[Ldg!Instance]
    BY <1>1, <1>2, <2>1, <2>2 DEF Ldg!Higher, Ldg!TypeOK
  <2>4. BudgetsAllowed'
    BY <1>1, <2>1, <2>2, <2>3 DEF BudgetsAllowed
  <2>5. OverrunHolds'
    BY <1>1, <2>1 DEF OverrunHolds
  <2> QED BY <2>1, <2>3, <2>4, <2>5
<1>10. ASSUME NEW a \in Attempts, NEW b \in Budgets, Ldg!RetryAcceptRisk(a, b) PROVE Kept
  <2> DEFINE i == AttemptJob[a]
  <2>1. /\ jobBudget' = [jobBudget EXCEPT ![i] = b] /\ allowed' = [allowed EXCEPT ![i] = Ldg!Higher(allowed[i], b)]
        /\ UNCHANGED <<money, micro, instanceBudget, dispatchDisabled, unanswered>>
    BY <1>10 DEF Ldg!RetryAcceptRisk
  <2>2. b \in Nat /\ i \in Jobs /\ Ldg!Instance # i /\ \A j \in Jobs : j \in Ldg!Accounts
    BY LedgerConstants DEF Ldg!Accounts
  <2> HIDE DEF i
  <2>3. /\ \A c \in Ldg!Accounts : allowed[c] <= allowed'[c] /\ (c # i => allowed'[c] = allowed[c])
        /\ b <= allowed'[i]
    BY <1>1, <1>2, <2>1, <2>2 DEF Ldg!Higher, Ldg!TypeOK
  <2>4. \A j \in Jobs : jobBudget'[j] = IF j = i THEN b ELSE jobBudget[j]
    BY <1>1, <2>1 DEF Ldg!TypeOK
  <2>5. BudgetsAllowed'
    BY <1>1, <2>1, <2>2, <2>3, <2>4 DEF BudgetsAllowed, Ldg!Accounts
  <2>6. OverrunHolds'
    BY <1>1, <2>1 DEF OverrunHolds
  <2> QED BY <2>1, <2>3, <2>5, <2>6
<1>11. ASSUME UNCHANGED ledgerVars PROVE Kept
  BY <1>3, <1>11 DEF ledgerVars
<1>12. Kept => LedgerInv'
  BY <1>0, RestKeeps
<1> HIDE DEF Kept
<1> QED BY <1>0, <1>4, <1>5, <1>6, <1>7, <1>8, <1>9, <1>10, <1>11, <1>12, AuthorizeStep, SettleStep, ReleaseStep DEF Ldg!Next

\* Only Authorize gives a permit.
LEMMA PermitsAreAuthorized ==
  ASSUME ServicesAssumption, LedgerInv, Ldg!Next, NEW a \in Attempts, money[a] = "none", money'[a] = "reserved"
  PROVE  Ldg!Authorize(a)
<1>0. Ldg!TypeOK
  BY DEF LedgerInv
<1>1. ASSUME NEW b \in Attempts, Ldg!Authorize(b) PROVE b = a
  BY <1>0, <1>1 DEF Ldg!Authorize, Ldg!TypeOK
<1>2. ASSUME NEW b \in Attempts, Ldg!Refuse(b) PROVE FALSE
  BY <1>2 DEF Ldg!Refuse
<1>3. ASSUME NEW b \in Attempts, Ldg!MarkUnknown(b) PROVE FALSE
  BY <1>0, <1>3 DEF Ldg!MarkUnknown, Ldg!TypeOK
<1>4. ASSUME NEW b \in Attempts, Ldg!ReleaseUnsent(b) PROVE FALSE
  BY <1>0, <1>4 DEF Ldg!ReleaseUnsent, Ldg!TypeOK
<1>5. ASSUME NEW b \in Attempts, NEW c \in Charges, Ldg!Settle(b, c) PROVE FALSE
  BY <1>0, <1>5 DEF Ldg!Settle, Ldg!TypeOK
<1>6. ASSUME NEW b \in Attempts, NEW n \in Budgets, Ldg!RetryAcceptRisk(b, n) PROVE FALSE
  BY <1>6 DEF Ldg!RetryAcceptRisk
<1>7. ASSUME Ldg!DisableDispatch PROVE FALSE
  BY <1>7 DEF Ldg!DisableDispatch
<1>8. ASSUME NEW risk \in BOOLEAN, Ldg!EnableDispatch(risk) PROVE FALSE
  BY <1>8 DEF Ldg!EnableDispatch
<1>9. ASSUME Ldg!EnterMaintenance PROVE FALSE
  BY <1>9 DEF Ldg!EnterMaintenance, Ldg!InFlight
<1>10. ASSUME NEW b \in Budgets, Ldg!SetInstanceBudget(b) PROVE FALSE
  BY <1>10 DEF Ldg!SetInstanceBudget
<1> QED BY <1>1, <1>2, <1>3, <1>4, <1>5, <1>6, <1>7, <1>8, <1>9, <1>10 DEF Ldg!Next

NoPermitAfterOverrun == \A a \in Attempts : money[a] = "none" /\ money'[a] = "reserved" => unanswered = {}

(* Spending is bounded (billing/ledger.py): for any attempts, jobs, prices *)
(* and charges, what a job or the instance has at stake never exceeds the  *)
(* highest budget it was allowed by more than the provider charged above   *)
(* reservations, and after such a charge no permit is given until an       *)
(* operator has switched dispatch on again.                                *)
THEOREM SpendingWithinBudgets == Spec => SpendingIsBounded
<1>1. Init => LedgerInv
  BY LedgerInit, ServicesAssumption DEF Init
<1>2. LedgerInv /\ [Next]_vars => LedgerInv' /\ [NoPermitAfterOverrun]_ledgerVars
  <2> SUFFICES ASSUME LedgerInv, [Next]_vars PROVE LedgerInv' /\ [NoPermitAfterOverrun]_ledgerVars
    OBVIOUS
  <2>1. Ldg!Next \/ UNCHANGED ledgerVars
    BY DEF Next, vars
  <2>2. LedgerInv'
    BY <2>1, LedgerNext, ServicesAssumption
  <2>3. CASE Ldg!Next
    <3> SUFFICES ASSUME NEW a \in Attempts, money[a] = "none", money'[a] = "reserved" PROVE unanswered = {}
      BY <2>2 DEF NoPermitAfterOverrun
    <3>1. Ldg!Authorize(a)
      BY <2>3, PermitsAreAuthorized, ServicesAssumption
    <3> QED BY <2>2, <3>1, AuthorizeStep, ServicesAssumption DEF LedgerInv
  <2> QED BY <2>1, <2>2, <2>3
<1>3. LedgerInv => Ldg!TypeOK /\ Ldg!WithinBudget
  BY DEF LedgerInv
<1>4. [][NoPermitAfterOverrun]_ledgerVars <=> Ldg!OverrunStopsDispatch
  BY PTL DEF Ldg!OverrunStopsDispatch, NoPermitAfterOverrun, ledgerVars, Ldg!ledgerVars
<1> QED BY <1>1, <1>2, <1>3, <1>4, PTL DEF Spec, SpendingIsBounded

--------------------------------------------------------------------------------
(* The admission scheduler.                                                *)

LEMMA SumUnion ==
  ASSUME NEW f, NEW A, IsFiniteSet(A), NEW B, IsFiniteSet(B), A \cap B = {}, \A x \in A \cup B : f[x] \in Nat
  PROVE  SumOver(f, A \cup B) = SumOver(f, A) + SumOver(f, B)
<1> DEFINE bad == {s \in SUBSET B : SumOver(f, A \cup s) # SumOver(f, A) + SumOver(f, s)}
<1> SUFFICES ASSUME bad # {} PROVE FALSE
  OBVIOUS
<1>1. PICK s \in bad : \A t \in bad : t \subseteq s => t = s
  <2>1. bad \subseteq SUBSET B
    OBVIOUS
  <2> HIDE DEF bad
  <2> QED BY <2>1, SmallestSubset
<1>2. SumOver(f, A) \in Nat
  BY SumType
<1>3. CASE s = {}
  <2>1. A \cup s = A
    BY <1>3
  <2> QED BY <1>2, <1>3, <2>1, EmptySum
<1>4. CASE s # {}
  <2>1. PICK x \in s : TRUE
    BY <1>4
  <2> DEFINE t == s \ {x}
  <2>2. IsFiniteSet(s) /\ s \subseteq B
    BY FS_Subset
  <2>3. IsFiniteSet(A \cup s) /\ IsFiniteSet(t)
    BY <2>2, FS_Union, FS_RemoveElement
  <2>4. (A \cup s) \ {x} = A \cup t /\ x \in A \cup s
    BY <2>1, <2>2
  <2>5. SumOver(f, A \cup s) = f[x] + SumOver(f, (A \cup s) \ {x})
    <3>1. \A y \in A \cup s : f[y] \in Nat
      BY <2>2
    <3> QED BY <2>3, <2>4, <3>1, SumRemove
  <2>6. SumOver(f, s) = f[x] + SumOver(f, t)
    BY <2>1, <2>2, SumRemove
  <2>7. SumOver(f, A \cup t) = SumOver(f, A) + SumOver(f, t)
    <3>1. t \in SUBSET B /\ t # s /\ t \subseteq s
      BY <2>1
    <3> HIDE DEF t
    <3> QED BY <1>1, <3>1
  <2>8. SumOver(f, t) \in Nat /\ f[x] \in Nat
    BY <2>1, <2>2, <2>3, SumType
  <2> QED BY <1>1, <1>2, <2>4, <2>5, <2>6, <2>7, <2>8
<1> QED BY <1>3, <1>4

LEMMA SumSubset ==
  ASSUME NEW f, NEW A, NEW B, IsFiniteSet(B), A \subseteq B, \A x \in B : f[x] \in Nat
  PROVE  SumOver(f, A) <= SumOver(f, B)
<1>1. IsFiniteSet(A) /\ IsFiniteSet(B \ A) /\ A \cap (B \ A) = {} /\ A \cup (B \ A) = B
  BY FS_Subset
<1>2. SumOver(f, B) = SumOver(f, A) + SumOver(f, B \ A)
  BY <1>1, SumUnion
<1>3. SumOver(f, A) \in Nat /\ SumOver(f, B \ A) \in Nat
  BY <1>1, SumType
<1> QED BY <1>2, <1>3

LEMMA SchedulerConstants ==
  ASSUME ServicesAssumption
  PROVE  /\ IsFiniteSet(Sch!AllJobs) /\ IsFiniteSet(Sch!AllModels)
         /\ ModelSize \in [Sch!AllModels -> Nat]
         /\ RamTotal \in Nat \ {0} /\ Percents \subseteq 1 .. 100 /\ OtherUse \subseteq Nat /\ MaxTasks \in Nat
<1>1. /\ Sch!IsFiniteSet(Sch!AllJobs)
      /\ ModelSize \in [Sch!AllModels -> Nat]
      /\ RamTotal \in Nat \ {0} /\ Percents \subseteq 1 .. 100 /\ OtherUse \subseteq Nat /\ MaxTasks \in Nat
  BY DEF ServicesAssumption, Sch!SchedulerAssumption
<1>2. IsFiniteSet(Sch!AllJobs)
  BY <1>1 DEF Sch!IsFiniteSet, IsFiniteSet
<1> DEFINE f == [j \in Sch!AllJobs |-> JobModel[j]]
           T == {JobModel[j] : j \in Sch!AllJobs}
<1>3. f \in Surjection(Sch!AllJobs, T)
  BY DEF Surjection
<1>4. IsFiniteSet(T)
  <2> HIDE DEF f, T
  <2> QED BY <1>2, <1>3, FS_Surjection
<1>5. IsFiniteSet(Sch!AllModels)
  BY <1>4, FS_Subset DEF Sch!AllModels
<1> QED BY <1>1, <1>2, <1>5

LEMMA SizeIsSum == \A models : Sch!SizeOf(models) = SumOver(ModelSize, models)
  BY DEF Sch!SizeOf, SumOver, IsSum, Sch!MapThenSumSet, Sch!MapThenFoldSet

LEMMA SizeGrows ==
  ASSUME ServicesAssumption, NEW A, NEW B, A \subseteq B, B \subseteq Sch!AllModels
  PROVE  Sch!SizeOf(A) \in Nat /\ Sch!SizeOf(A) <= Sch!SizeOf(B)
<1>1. IsFiniteSet(B) /\ \A m \in B : ModelSize[m] \in Nat
  BY SchedulerConstants, FS_Subset
<1>2. IsFiniteSet(A) /\ \A m \in A : ModelSize[m] \in Nat
  BY <1>1, FS_Subset
<1> QED BY <1>1, <1>2, SumType, SumSubset, SizeIsSum

LEMMA SizeParts ==
  ASSUME ServicesAssumption, NEW A, NEW B, A \subseteq Sch!AllModels, B \subseteq Sch!AllModels
  PROVE  Sch!SizeOf(A) <= Sch!SizeOf(B) + Sch!SizeOf(A \ B)
<1>1. IsFiniteSet(B) /\ IsFiniteSet(A \ B) /\ \A m \in B \cup (A \ B) : ModelSize[m] \in Nat
  <2>1. A \ B \subseteq Sch!AllModels
    OBVIOUS
  <2> QED BY <2>1, SchedulerConstants, FS_Subset
<1>2. SumOver(ModelSize, B \cup (A \ B)) = SumOver(ModelSize, B) + SumOver(ModelSize, A \ B)
  <2>1. B \cap (A \ B) = {}
    OBVIOUS
  <2> QED BY <1>1, <2>1, SumUnion
<1>3. Sch!SizeOf(A) <= Sch!SizeOf(B \cup (A \ B))
  <2>1. A \subseteq B \cup (A \ B) /\ B \cup (A \ B) \subseteq Sch!AllModels
    OBVIOUS
  <2> QED BY <2>1, SizeGrows
<1> QED BY <1>2, <1>3, SizeIsSum

\* The working memory of tasks is a number.
LEMMA ScratchIsNat ==
  ASSUME ServicesAssumption, NEW tasks \in [Sch!AllJobs -> Nat]
  PROVE  Sch!MapThenSumSet(LAMBDA j : tasks[j] * Sch!Scratch(j), Sch!AllJobs) \in Nat
<1> DEFINE S == Sch!AllJobs
           w == [j \in S |-> tasks[j] * Sch!Scratch(j)]
           Iter(g) == g = [s \in SUBSET S |-> IF s = {} THEN 0
                            ELSE tasks[CHOOSE x \in s : TRUE] * Sch!Scratch(CHOOSE x \in s : TRUE) + g[s \ {CHOOSE x \in s : TRUE}]]
<1>1. Sch!MapThenSumSet(LAMBDA j : tasks[j] * Sch!Scratch(j), S) = (CHOOSE g : Iter(g))[S]
  BY DEF Sch!MapThenSumSet, Sch!MapThenFoldSet
<1>2. IsFiniteSet(S) /\ \A j \in S : w[j] \in Nat /\ tasks[j] \in Nat /\ w[j] = tasks[j] * Sch!Scratch(j)
  BY SchedulerConstants DEF Sch!Scratch
<1> HIDE DEF S, w
<1>3. \A g : Iter(g) <=> IsSum(g, w, S)
  <2> TAKE g
  <2>1. \A s \in SUBSET S : s # {} =>
          w[CHOOSE x \in s : TRUE] = tasks[CHOOSE x \in s : TRUE] * Sch!Scratch(CHOOSE x \in s : TRUE)
    BY <1>2
  <2>2. [s \in SUBSET S |-> IF s = {} THEN 0
           ELSE tasks[CHOOSE x \in s : TRUE] * Sch!Scratch(CHOOSE x \in s : TRUE) + g[s \ {CHOOSE x \in s : TRUE}]]
        = [s \in SUBSET S |-> IF s = {} THEN 0
                            ELSE w[CHOOSE x \in s : TRUE] + g[s \ {CHOOSE x \in s : TRUE}]]
    BY <2>1
  <2> QED BY <2>2 DEF IsSum
<1> HIDE DEF Iter
<1>4. PICK k : IsSum(k, w, S)
  BY <1>2, SumExists
<1> DEFINE g == CHOOSE h : Iter(h)
           l == CHOOSE h : IsSum(h, w, S)
<1>5. IsSum(g, w, S) /\ IsSum(l, w, S)
  BY <1>3, <1>4
<1> HIDE DEF g, l
<1>6. g[S] = l[S]
  BY <1>2, <1>5, SumsAgree
<1>7. l[S] \in Nat
  BY <1>2, SumType DEF SumOver, l
<1> QED BY <1>1, <1>6, <1>7 DEF S, g

\* The jobs in some order, each once.
InOrder(s) ==
  /\ s \in Seq(Sch!AllJobs) /\ Len(s) = Cardinality(Sch!AllJobs)
  /\ \A p, q \in 1 .. Len(s) : s[p] = s[q] => p = q
Before(s, k, l) == \E p, q \in 1 .. Len(s) : p < q /\ s[p] = k /\ s[q] = l

LEMMA SameCardinality == \A S : Sch!Cardinality(S) = Cardinality(S)
  BY DEF Sch!Cardinality, Cardinality

LEMMA OrdersAreSeqs == \A s : s \in Sch!SetToSeqs(Sch!AllJobs) <=> InOrder(s)
<1> DEFINE N == Cardinality(Sch!AllJobs)
<1>1. N \in Nat
  BY SchedulerConstants, ServicesAssumption, FS_CardinalityType
<1>2. Sch!SetToSeqs(Sch!AllJobs) = {s \in [1 .. N -> Sch!AllJobs] : \A i, j \in 1 .. N : i # j => s[i] # s[j]}
  BY SameCardinality DEF Sch!SetToSeqs
<1> HIDE DEF N
<1>3. \A s : s \in [1 .. N -> Sch!AllJobs] <=> s \in Seq(Sch!AllJobs) /\ Len(s) = N
  BY <1>1
<1> QED BY <1>1, <1>2, <1>3 DEF InOrder, N

LEMMA FirstOrder == InOrder(Sch!SetToSeq(Sch!AllJobs))
<1> DEFINE S == Sch!AllJobs
           N == Cardinality(S)
           f == CHOOSE g \in [1 .. N -> S] : Sch!IsInjective(g)
<1>1. N \in Nat /\ ExistsBijection(1 .. N, S)
  BY SchedulerConstants, ServicesAssumption, FS_CardinalityType
<1>2. Sch!SetToSeq(S) = f
  BY SameCardinality DEF Sch!SetToSeq
<1>3. \E g \in [1 .. N -> S] : Sch!IsInjective(g)
  BY <1>1 DEF ExistsBijection, Bijection, Injection, IsInjective, Sch!IsInjective
<1>4. f \in [1 .. N -> S] /\ Sch!IsInjective(f)
  BY <1>3
<1> HIDE DEF f, N
<1>5. f \in Seq(S) /\ Len(f) = N
  BY <1>1, <1>4
<1> QED BY <1>2, <1>4, <1>5 DEF InOrder, Sch!IsInjective, N

\* The job at place i goes to the end; the others keep their order.
LEMMA MovedToEnd ==
  ASSUME NEW s, InOrder(s), NEW i \in 1 .. Len(s)
  PROVE  /\ Len(Sch!MoveToEnd(s, i)) = Len(s)
         /\ \A p \in 1 .. Len(s) : Sch!MoveToEnd(s, i)[p] = IF p < i THEN s[p] ELSE IF p = Len(s) THEN s[i] ELSE s[p + 1]
         /\ InOrder(Sch!MoveToEnd(s, i))
<1> DEFINE n == Len(s)
           front == SubSeq(s, 1, i - 1)
           back == SubSeq(s, i + 1, n)
           rest == front \o back
           moved == Append(rest, s[i])
<1>1. Sch!MoveToEnd(s, i) = moved
  BY DEF Sch!MoveToEnd, Sch!RemoveAt
<1>2. s \in Seq(Sch!AllJobs) /\ n \in Nat /\ i \in 1 .. n /\ n = Cardinality(Sch!AllJobs)
  BY DEF InOrder
<1>3. front \in Seq(Sch!AllJobs) /\ Len(front) = i - 1 /\ \A p \in 1 .. i - 1 : front[p] = s[p]
  BY <1>2
<1>4. back \in Seq(Sch!AllJobs) /\ Len(back) = n - i /\ \A p \in 1 .. n - i : back[p] = s[p + i]
  BY <1>2
<1>5. s[i] \in Sch!AllJobs
  BY <1>2
<1>10. Len(s) = n
  OBVIOUS
<1> HIDE DEF front, back, n
<1>6. /\ rest \in Seq(Sch!AllJobs) /\ Len(rest) = n - 1
      /\ \A p \in 1 .. n - 1 : rest[p] = IF p < i THEN s[p] ELSE s[p + 1]
  <2>1. /\ rest \in Seq(Sch!AllJobs) /\ Len(rest) = Len(front) + Len(back)
        /\ \A p \in 1 .. Len(front) + Len(back) :
             rest[p] = IF p <= Len(front) THEN front[p] ELSE back[p - Len(front)]
    BY <1>3, <1>4, ConcatProperties
  <2> HIDE DEF rest
  <2>2. Len(rest) = n - 1
    BY <1>2, <1>3, <1>4, <2>1
  <2>3. ASSUME NEW p \in 1 .. n - 1 PROVE rest[p] = IF p < i THEN s[p] ELSE s[p + 1]
    <3>1. p \in Int /\ i \in Int /\ p \in 1 .. Len(front) + Len(back)
      BY <1>2, <1>3, <1>4
    <3>2. CASE p < i
      BY <1>2, <1>3, <2>1, <3>1, <3>2
    <3>3. CASE ~(p < i)
      <4>1. rest[p] = back[p - (i - 1)]
        BY <1>2, <1>3, <2>1, <3>1, <3>3
      <4>2. p - (i - 1) \in 1 .. n - i /\ (p - (i - 1)) + i = p + 1
        BY <1>2, <3>1, <3>3
      <4> QED BY <1>4, <4>1, <4>2, <3>3
    <3> QED BY <3>2, <3>3
  <2> QED BY <2>1, <2>2, <2>3
<1> HIDE DEF rest
<1>7. /\ moved \in Seq(Sch!AllJobs) /\ Len(moved) = n
      /\ \A p \in 1 .. n : moved[p] = IF p < i THEN s[p] ELSE IF p = n THEN s[i] ELSE s[p + 1]
  BY <1>2, <1>5, <1>6
<1> HIDE DEF moved
<1>8. \A p, q \in 1 .. n : s[p] = s[q] => p = q
  BY <1>10 DEF InOrder
<1>9. \A p, q \in 1 .. n : moved[p] = moved[q] => p = q
  <2> SUFFICES ASSUME NEW p \in 1 .. n, NEW q \in 1 .. n, moved[p] = moved[q] PROVE p = q
    OBVIOUS
  <2> DEFINE from(r) == IF r < i THEN r ELSE IF r = n THEN i ELSE r + 1
  <2>1. from(p) \in 1 .. n /\ from(q) \in 1 .. n /\ moved[p] = s[from(p)] /\ moved[q] = s[from(q)]
    BY <1>2, <1>7
  <2>2. from(p) = from(q)
    <3> HIDE DEF from
    <3> QED BY <1>8, <2>1
  <2> QED BY <1>2, <2>2
<1> QED BY <1>1, <1>2, <1>7, <1>9, <1>10 DEF InOrder

LEMMA OrderKept ==
  ASSUME NEW s, InOrder(s), NEW i \in 1 .. Len(s), NEW k \in Sch!AllJobs, NEW l \in Sch!AllJobs,
         k # s[i], l = s[i] \/ Before(s, k, l)
  PROVE  (l = s[i] => \E p \in 1 .. Len(s) : s[p] = k) => Before(Sch!MoveToEnd(s, i), k, l)
<1> SUFFICES ASSUME l = s[i] => \E p \in 1 .. Len(s) : s[p] = k PROVE Before(Sch!MoveToEnd(s, i), k, l)
  OBVIOUS
<1> DEFINE n == Len(s)
           moved == Sch!MoveToEnd(s, i)
<1>1. n \in Nat /\ Len(moved) = n /\ \A p \in 1 .. n : moved[p] = IF p < i THEN s[p] ELSE IF p = n THEN s[i] ELSE s[p + 1]
  BY MovedToEnd DEF InOrder
<1> DEFINE to(p) == IF p < i THEN p ELSE p - 1
<1>2. \A p \in 1 .. n : p # i => to(p) \in 1 .. n /\ to(p) < n /\ moved[to(p)] = s[p]
  <2> SUFFICES ASSUME NEW p \in 1 .. n, p # i PROVE to(p) \in 1 .. n /\ to(p) < n /\ moved[to(p)] = s[p]
    OBVIOUS
  <2> HIDE DEF moved
  <2> QED BY <1>1
<1>3. moved[n] = s[i] /\ n \in 1 .. n
  <2> HIDE DEF moved
  <2> QED BY <1>1
<1> HIDE DEF moved
<1>4. CASE l = s[i]
  <2>1. PICK p \in 1 .. n : s[p] = k
    BY <1>4
  <2>2. p # i
    BY <2>1
  <2> HIDE DEF to
  <2>3. to(p) \in 1 .. n /\ to(p) < n /\ moved[to(p)] = k /\ moved[n] = l /\ n \in 1 .. n
    BY <1>2, <1>3, <1>4, <2>1, <2>2
  <2> QED BY <1>1, <2>3 DEF Before, moved
<1>5. CASE l # s[i]
  <2>1. PICK p, q \in 1 .. n : p < q /\ s[p] = k /\ s[q] = l
    BY <1>5 DEF Before
  <2>2. p # i /\ q # i
    BY <1>5, <2>1
  <2>3. to(p) < to(q)
    BY <1>1, <2>1, <2>2
  <2> HIDE DEF to
  <2>4. to(p) \in 1 .. n /\ to(q) \in 1 .. n /\ moved[to(p)] = k /\ moved[to(q)] = l
    BY <1>2, <2>1, <2>2
  <2> QED BY <1>1, <2>3, <2>4 DEF Before, moved
<1> QED BY <1>4, <1>5

\* Every job has its place.
LEMMA EveryJobInOrder ==
  ASSUME ServicesAssumption, NEW s, InOrder(s), NEW k \in Sch!AllJobs
  PROVE  \E p \in 1 .. Len(s) : s[p] = k
<1> DEFINE n == Len(s)
           T == {s[p] : p \in 1 .. n}
           f == [p \in 1 .. n |-> s[p]]
<1>1. n \in Nat /\ n = Cardinality(Sch!AllJobs) /\ T \subseteq Sch!AllJobs /\ IsFiniteSet(Sch!AllJobs)
  BY SchedulerConstants DEF InOrder
<1>2. f \in Bijection(1 .. n, T)
  BY DEF InOrder, Bijection, Injection, Surjection, IsInjective
<1>3. IsFiniteSet(1 .. n) /\ Cardinality(1 .. n) = n
  <2> HIDE DEF n
  <2> QED BY <1>1, FS_Interval
<1>4. Cardinality(T) = n
  <2> HIDE DEF n, T, f
  <2> QED BY <1>2, <1>3, FS_Bijection DEF ExistsBijection
<1>5. T = Sch!AllJobs
  <2> HIDE DEF n, T
  <2> QED BY <1>1, <1>4, FS_Subset
<1> QED BY <1>5

(* The inductive invariant.  Typing and the bound on the demand are not    *)
(* enough: that a job is claimed at most once before another one that      *)
(* waits holds because it then stands behind it in the order of claims.    *)
SchedTypes ==
  /\ InOrder(order)
  /\ ready \in [Sch!AllJobs -> Nat] /\ left \in [Sch!AllJobs -> Nat] /\ running \in [Sch!AllJobs -> Nat]
  /\ resident \subseteq Sch!AllModels /\ percent \in Percents /\ otherUse \in Nat
  /\ overtaken \in [Sch!AllJobs -> [Sch!AllJobs -> {0, 1}]]
  /\ admitted \in [needs : Int, budget : Int]
DemandAllowed == admitted.budget > 0 => 100 * Sch!SizeOf(Sch!ModelsOf(running)) <= admitted.budget
WaitsBehind == \A k, l \in Sch!AllJobs : overtaken[k][l] = 1 => Before(order, k, l)
SchedInv == SchedTypes /\ DemandAllowed /\ WaitsBehind

LEMMA SchedulerInit == ServicesAssumption /\ Sch!Init => SchedInv
<1> SUFFICES ASSUME ServicesAssumption, Sch!Init PROVE SchedInv
  OBVIOUS
<1>1. SchedTypes
  BY SchedulerConstants, FirstOrder DEF Sch!Init, SchedTypes
<1>2. DemandAllowed /\ WaitsBehind
  BY DEF Sch!Init, DemandAllowed, WaitsBehind
<1> QED BY <1>1, <1>2 DEF SchedInv

LEMMA ModelsAreKnown == \A tasks : Sch!ModelsOf(tasks) \subseteq Sch!AllModels
  BY DEF Sch!ModelsOf, Sch!AllModels

\* What is admitted fits, and so do the models alone.
LEMMA AdmittedFits ==
  ASSUME ServicesAssumption, SchedTypes, NEW j \in Sch!AllJobs, Sch!Admissible(j)
  PROVE  /\ 100 * (Sch!Used + Sch!Extra(Sch!With(j))) \in Int /\ Sch!Budget \in Int
         /\ 100 * Sch!SizeOf(Sch!ModelsOf(Sch!With(j))) <= Sch!Budget
<1> DEFINE tasks == Sch!With(j)
           needed == Sch!ModelsOf(tasks)
           scratch == Sch!MapThenSumSet(LAMBDA l : tasks[l] * Sch!Scratch(l), Sch!AllJobs)
           all == Sch!SizeOf(needed)
           loaded == Sch!SizeOf(resident)
           extra == Sch!SizeOf(needed \ resident)
<1>1. tasks \in [Sch!AllJobs -> Nat]
  BY DEF SchedTypes, Sch!With
<1>2. scratch \in Nat
  <2> HIDE DEF tasks
  <2> QED BY <1>1, ScratchIsNat
<1>3. needed \subseteq Sch!AllModels /\ needed \ resident \subseteq Sch!AllModels /\ resident \subseteq Sch!AllModels
  BY ModelsAreKnown DEF SchedTypes
<1>4. all \in Nat /\ loaded \in Nat /\ extra \in Nat /\ all <= loaded + extra
  <2> HIDE DEF needed
  <2> QED BY <1>3, SizeGrows, SizeParts
<1>5. Sch!Used = otherUse + loaded /\ Sch!Extra(tasks) = scratch + extra
  BY DEF Sch!Used, Sch!Extra
<1>6. 100 * (Sch!Used + Sch!Extra(tasks)) <= Sch!Budget
  BY DEF Sch!Admissible
<1>7. Sch!Budget \in Int /\ otherUse \in Nat
  <2>1. RamTotal \in Int /\ percent \in Int /\ otherUse \in Nat
    BY SchedulerConstants DEF SchedTypes
  <2>2. RamTotal * percent \in Int
    BY ONLY <2>1
  <2> QED BY <2>1, <2>2 DEF Sch!Budget
<1> HIDE DEF tasks, scratch, all, loaded, extra
<1>8. 100 * (Sch!Used + Sch!Extra(tasks)) \in Int
  BY <1>2, <1>4, <1>5, <1>7
<1>9. 100 * all <= Sch!Budget
  BY <1>2, <1>4, <1>5, <1>6, <1>7, <1>8
<1> QED BY <1>7, <1>8, <1>9 DEF tasks, all

\* A claim puts the job behind those that could have been claimed.
LEMMA ClaimStep == ServicesAssumption /\ SchedInv /\ Sch!Claim => SchedInv'
<1> SUFFICES ASSUME ServicesAssumption, SchedInv, Sch!Claim PROVE SchedInv'
  OBVIOUS
<1>0. SchedTypes /\ WaitsBehind /\ InOrder(order)
  BY DEF SchedInv, SchedTypes
<1>1. PICK i \in DOMAIN order :
        /\ Sch!Claimable(order[i])
        /\ \A k \in 1 .. i - 1 : ~Sch!Claimable(order[k])
        /\ ready' = [ready EXCEPT ![order[i]] = @ - 1]
        /\ running' = Sch!With(order[i])
        /\ order' = Sch!MoveToEnd(order, i)
        /\ overtaken' = Sch!Overtakes(order[i])
        /\ admitted' = [needs |-> 100 * (Sch!Used + Sch!Extra(Sch!With(order[i]))), budget |-> Sch!Budget]
        /\ UNCHANGED <<left, resident, percent, otherUse>>
  BY DEF Sch!Claim
<1> DEFINE j == order[i]
<1>2. i \in 1 .. Len(order) /\ j \in Sch!AllJobs /\ Len(order) \in Nat
  BY <1>0 DEF InOrder
<1>3. Sch!Admissible(j) /\ ready[j] > 0
  BY <1>1 DEF Sch!Claimable
<1> HIDE DEF j
<1>4. InOrder(order')
  BY <1>0, <1>1, <1>2, MovedToEnd
<1>5. /\ admitted' \in [needs : Int, budget : Int]
      /\ 100 * Sch!SizeOf(Sch!ModelsOf(running')) <= admitted'.budget
  <2>1. /\ 100 * (Sch!Used + Sch!Extra(Sch!With(j))) \in Int /\ Sch!Budget \in Int
        /\ 100 * Sch!SizeOf(Sch!ModelsOf(Sch!With(j))) <= Sch!Budget
    BY <1>0, <1>2, <1>3, AdmittedFits
  <2>2. admitted' = [needs |-> 100 * (Sch!Used + Sch!Extra(Sch!With(j))), budget |-> Sch!Budget] /\ running' = Sch!With(j)
    BY <1>1 DEF j
  <2> QED BY <2>1, <2>2
<1>6. ASSUME NEW k \in Sch!AllJobs, NEW l \in Sch!AllJobs
      PROVE  overtaken'[k][l] \in {0, 1} /\ (overtaken'[k][l] = 1 => Before(order', k, l))
  <2>1. overtaken'[k][l] = IF k = j \/ ~Sch!Claimable(k) THEN 0 ELSE overtaken[k][l] + (IF l = j THEN 1 ELSE 0)
    BY <1>1 DEF Sch!Overtakes, j
  <2>2. overtaken[k][l] \in {0, 1} /\ (overtaken[k][l] = 1 => Before(order, k, l))
    BY <1>0 DEF SchedTypes, WaitsBehind
  <2>3. CASE k = j \/ ~Sch!Claimable(k)
    BY <2>1, <2>3
  <2>4. CASE ~(k = j \/ ~Sch!Claimable(k))
    <3>1. \A p \in 1 .. Len(order) : order[p] = k => p > i
      BY <1>1, <1>2, <2>4 DEF j
    <3>2. \E p \in 1 .. Len(order) : order[p] = k
      BY <1>0, EveryJobInOrder
    <3>3. CASE l = j
      <4>1. ~Before(order, k, l)
        <5> SUFFICES ASSUME NEW p \in 1 .. Len(order), NEW q \in 1 .. Len(order), p < q, order[p] = k, order[q] = j
                     PROVE  FALSE
          BY <3>3 DEF Before
        <5>1. q = i
          BY <1>0, <1>2 DEF InOrder, j
        <5> QED BY <3>1, <5>1, <1>2
      <4>2. Before(order', k, l)
        BY <1>0, <1>1, <1>2, <2>4, <3>2, <3>3, OrderKept DEF j
      <4> QED BY <2>1, <2>2, <2>4, <3>3, <4>1, <4>2
    <3>4. CASE l # j
      <4>1. overtaken'[k][l] = overtaken[k][l]
        BY <2>1, <2>2, <2>4, <3>4
      <4>2. Before(order, k, l) => Before(order', k, l)
        BY <1>0, <1>1, <1>2, <2>4, <3>2, <3>4, OrderKept DEF j
      <4> QED BY <2>2, <4>1, <4>2
    <3> QED BY <3>3, <3>4
  <2> QED BY <2>3, <2>4
<1>7. overtaken' \in [Sch!AllJobs -> [Sch!AllJobs -> {0, 1}]]
  <2>1. overtaken' = [k \in Sch!AllJobs |-> [l \in Sch!AllJobs |-> overtaken'[k][l]]]
    BY <1>1 DEF Sch!Overtakes
  <2> QED BY <1>6, <2>1
<1>8. SchedTypes'
  <2>1. ready' \in [Sch!AllJobs -> Nat] /\ running' \in [Sch!AllJobs -> Nat]
    BY <1>0, <1>1, <1>2, <1>3 DEF SchedTypes, Sch!With, j
  <2>2. left' \in [Sch!AllJobs -> Nat] /\ resident' \subseteq Sch!AllModels /\ percent' \in Percents /\ otherUse' \in Nat
    BY <1>0, <1>1 DEF SchedTypes
  <2> QED BY <1>4, <1>5, <1>7, <2>1, <2>2 DEF SchedTypes, InOrder
<1>9. DemandAllowed'
  BY <1>5 DEF DemandAllowed, Sch!SizeOf, Sch!ModelsOf, Sch!MapThenSumSet, Sch!MapThenFoldSet
<1>10. WaitsBehind'
  BY <1>6 DEF WaitsBehind, Before
<1> QED BY <1>8, <1>9, <1>10 DEF SchedInv

\* Fewer tasks need no more memory.
LEMMA ReleaseTaskStep ==
  ASSUME ServicesAssumption, SchedInv, NEW j \in Sch!AllJobs, Sch!Release(j)
  PROVE  SchedInv'
<1>1. SchedTypes'
  BY DEF SchedInv, SchedTypes, Sch!Release, InOrder
<1>2. WaitsBehind'
  BY DEF SchedInv, WaitsBehind, Sch!Release, Before
<1>3. Sch!ModelsOf(running') \subseteq Sch!ModelsOf(running)
  BY DEF SchedInv, SchedTypes, Sch!Release, Sch!ModelsOf
<1>4. /\ Sch!SizeOf(Sch!ModelsOf(running')) <= Sch!SizeOf(Sch!ModelsOf(running))
      /\ Sch!SizeOf(Sch!ModelsOf(running')) \in Nat /\ Sch!SizeOf(Sch!ModelsOf(running)) \in Nat
  <2> DEFINE A == Sch!ModelsOf(running')
             B == Sch!ModelsOf(running)
  <2>1. A \subseteq B /\ B \subseteq B /\ B \subseteq Sch!AllModels
    BY <1>3, ModelsAreKnown
  <2> HIDE DEF A, B
  <2>2. Sch!SizeOf(A) \in Nat /\ Sch!SizeOf(A) <= Sch!SizeOf(B) /\ Sch!SizeOf(B) \in Nat
    BY <2>1, SizeGrows
  <2> QED BY <2>2 DEF A, B
<1>5. admitted' = admitted /\ admitted.budget \in Int /\ DemandAllowed
  BY DEF SchedInv, SchedTypes, Sch!Release
<1>6. admitted'.budget > 0 => 100 * Sch!SizeOf(Sch!ModelsOf(running')) <= admitted'.budget
  <2> DEFINE a == Sch!SizeOf(Sch!ModelsOf(running'))
             b == Sch!SizeOf(Sch!ModelsOf(running))
  <2>1. a <= b /\ a \in Nat /\ b \in Nat /\ (admitted.budget > 0 => 100 * b <= admitted.budget)
    BY <1>4, <1>5 DEF DemandAllowed
  <2> HIDE DEF a, b
  <2>2. admitted.budget > 0 => 100 * a <= admitted.budget
    BY <1>5, <2>1
  <2> QED BY <1>5, <2>2 DEF a
<1>7. DemandAllowed'
  BY <1>6 DEF DemandAllowed, Sch!SizeOf, Sch!ModelsOf, Sch!MapThenSumSet, Sch!MapThenFoldSet
<1> QED BY <1>1, <1>2, <1>7 DEF SchedInv

\* The other steps change neither the order nor what runs.
LEMMA OtherSteps ==
  ASSUME SchedInv, UNCHANGED <<order, running, overtaken, admitted>>,
         ready' \in [Sch!AllJobs -> Nat], left' \in [Sch!AllJobs -> Nat],
         resident' \subseteq Sch!AllModels, percent' \in Percents, otherUse' \in Nat
  PROVE  SchedInv'
<1>1. SchedTypes'
  BY DEF SchedInv, SchedTypes, InOrder
<1>2. WaitsBehind'
  <2>1. order' = order /\ overtaken' = overtaken
    OBVIOUS
  <2>2. ASSUME NEW k \in Sch!AllJobs, NEW l \in Sch!AllJobs, overtaken'[k][l] = 1
        PROVE  Before(order', k, l)
    <3>1. Before(order, k, l)
      BY <2>1, <2>2 DEF SchedInv, WaitsBehind
    <3> QED BY <2>1, <3>1
  <2>3. \A k, l \in Sch!AllJobs : overtaken'[k][l] = 1 =>
          \E p, q \in 1 .. Len(order') : p < q /\ order'[p] = k /\ order'[q] = l
    BY <2>2 DEF Before
  <2> QED BY ONLY <2>3 DEF WaitsBehind, Before
<1>3. DemandAllowed'
  BY DEF SchedInv, DemandAllowed, Sch!SizeOf, Sch!ModelsOf, Sch!MapThenSumSet, Sch!MapThenFoldSet
<1> QED BY <1>1, <1>2, <1>3 DEF SchedInv

LEMMA SchedulerNext == ServicesAssumption /\ SchedInv /\ (Sch!Next \/ UNCHANGED schedVars) => SchedInv'
<1> SUFFICES ASSUME ServicesAssumption, SchedInv, Sch!Next \/ UNCHANGED schedVars PROVE SchedInv'
  OBVIOUS
<1>0. SchedTypes
  BY DEF SchedInv
<1>1. ASSUME Sch!Claim PROVE SchedInv'
  BY <1>1, ClaimStep
<1>2. ASSUME NEW j \in Sch!AllJobs, Sch!Release(j) PROVE SchedInv'
  BY <1>2, ReleaseTaskStep
<1>3. ASSUME NEW j \in Sch!AllJobs, Sch!NewTask(j) PROVE SchedInv'
  BY <1>0, <1>3, OtherSteps DEF Sch!NewTask, SchedTypes
<1>4. ASSUME NEW m \in Sch!AllModels, Sch!LoadModel(m) PROVE SchedInv'
  BY <1>0, <1>4, OtherSteps DEF Sch!LoadModel, SchedTypes
<1>5. ASSUME NEW m \in Sch!AllModels, Sch!UnloadModel(m) PROVE SchedInv'
  BY <1>0, <1>5, OtherSteps DEF Sch!UnloadModel, SchedTypes
<1>6. ASSUME NEW p \in Percents, Sch!ChangePolicy(p) PROVE SchedInv'
  BY <1>0, <1>6, OtherSteps DEF Sch!ChangePolicy, SchedTypes
<1>7. ASSUME NEW u \in OtherUse, Sch!OthersUse(u) PROVE SchedInv'
  BY <1>0, <1>7, OtherSteps, SchedulerConstants DEF Sch!OthersUse, SchedTypes
<1>8. CASE UNCHANGED schedVars
  BY <1>0, <1>8, OtherSteps DEF schedVars, SchedTypes
<1> QED BY <1>1, <1>2, <1>3, <1>4, <1>5, <1>6, <1>7, <1>8 DEF Sch!Next

(* Admission is fair and bounded (resources/scheduler.py, jobs/queue.py):  *)
(* for any jobs, models, sizes and limits, loading the models of all that  *)
(* runs never needs more memory than was allowed when the last task was    *)
(* admitted, and no job is claimed twice before another one that could be  *)
(* claimed all the while.                                                  *)
THEOREM FairAdmission == Spec => []AdmissionIsFair
<1>1. Init => SchedInv
  BY SchedulerInit, ServicesAssumption DEF Init
<1>2. SchedInv /\ [Next]_vars => SchedInv'
  <2> SUFFICES ASSUME SchedInv, [Next]_vars PROVE SchedInv'
    OBVIOUS
  <2>1. Sch!Next \/ UNCHANGED schedVars
    BY DEF Next, vars
  <2> QED BY <2>1, SchedulerNext, ServicesAssumption
<1>3. SchedInv => AdmissionIsFair
  <2> SUFFICES ASSUME SchedInv PROVE AdmissionIsFair
    OBVIOUS
  <2>1. Sch!TypeOK
    BY OrdersAreSeqs DEF SchedInv, SchedTypes, Sch!TypeOK
  <2>2. Sch!DemandWithinBudget
    BY DEF SchedInv, DemandAllowed, Sch!DemandWithinBudget
  <2>3. Sch!NoMonopoly
    <3> SUFFICES ASSUME NEW k \in Sch!AllJobs, NEW l \in Sch!AllJobs PROVE overtaken[k][l] <= 1
      BY DEF Sch!NoMonopoly
    <3>1. overtaken[k][l] \in {0, 1}
      BY DEF SchedInv, SchedTypes
    <3> QED BY <3>1
  <2> QED BY <2>1, <2>2, <2>3 DEF AdmissionIsFair
<1> QED BY <1>1, <1>2, <1>3, PTL DEF Spec

--------------------------------------------------------------------------------
(* The provider configuration.                                             *)

LEMMA LeastNatural ==
  ASSUME NEW T, T \subseteq Nat, T # {}
  PROVE  \E x \in T : \A y \in T : x <= y
<1> DEFINE R == {ss \in Nat \X Nat : ss[1] < ss[2]}
<1>1. IsWellFoundedOn(R, Nat)
  BY NatLessThanWellFounded DEF OpToRel
<1> HIDE DEF R
<1>2. PICK x \in T : \A y \in T : ~ (<<y, x>> \in R)
  BY <1>1, WFMin
<1>3. ASSUME NEW y \in T PROVE x <= y
  <2>1. x \in Nat /\ y \in Nat
    OBVIOUS
  <2>2. ~(y < x)
    BY <1>2, <2>1 DEF R
  <2> QED BY <2>1, <2>2
<1> QED BY <1>3

LEMMA GreatestNatural ==
  ASSUME NEW n \in Nat, NEW T, T \subseteq 0 .. n, T # {}
  PROVE  Cfg!Max(T) \in T /\ \A y \in T : y <= Cfg!Max(T)
<1> DEFINE U == {u \in Nat : \A y \in T : y <= u}
<1>1. n \in U
  OBVIOUS
<1>2. PICK u \in U : \A v \in U : u <= v
  <2>1. U \subseteq Nat /\ U # {}
    BY <1>1
  <2> HIDE DEF U
  <2> QED BY <2>1, LeastNatural
<1>3. u \in T
  <2> SUFFICES ASSUME u \notin T PROVE FALSE
    OBVIOUS
  <2>1. PICK t \in T : TRUE
    OBVIOUS
  <2>2. \A y \in T : y <= u - 1 /\ y \in Nat
    BY <1>2
  <2>3. u - 1 \in U
    BY <1>2, <2>1, <2>2
  <2> QED BY <1>2, <2>3
<1>4. u \in T /\ \A y \in T : u >= y
  BY <1>2, <1>3
<1>5. Cfg!Max(T) = CHOOSE x \in T : \A y \in T : x >= y
  BY DEF Cfg!Max
<1>6. Cfg!Max(T) \in T /\ \A y \in T : Cfg!Max(T) >= y
  <2> DEFINE P(x) == \A y \in T : x >= y
  <2>1. \E x \in T : P(x)
    BY <1>4
  <2>2. Cfg!Max(T) = CHOOSE x \in T : P(x)
    BY <1>5
  <2> HIDE DEF P
  <2>3. Cfg!Max(T) \in T /\ P(Cfg!Max(T))
    BY <2>1, <2>2
  <2> QED BY <2>3 DEF P
<1> QED BY <1>6

\* The history of a revision, for any list in which each names an earlier one.
IsChain(g, revs) ==
  g = [r \in 0 .. Len(revs) |-> IF r = 0 THEN {} ELSE {r} \cup g[revs[r].previous]]
ChainIn(revs) == CHOOSE g : IsChain(g, revs)
Linked(revs) ==
  /\ Len(revs) \in Nat
  /\ \A r \in 1 .. Len(revs) : revs[r].previous \in Nat /\ revs[r].previous < r

LEMMA ChainIsChainIn == Cfg!Chain = ChainIn(revisions)
  BY DEF Cfg!Chain, ChainIn, IsChain

\* What g is up to m.
UpTo(g, revs, m) ==
  g = [r \in 0 .. m |-> IF r = 0 THEN {} ELSE {r} \cup g[revs[r].previous]]

LEMMA ChainUpTo ==
  ASSUME NEW revs, Linked(revs)
  PROVE  \A m \in 0 .. Len(revs) : \E g : UpTo(g, revs, m)
<1> DEFINE bad == {m \in 0 .. Len(revs) : ~ \E g : UpTo(g, revs, m)}
<1> SUFFICES ASSUME bad # {} PROVE FALSE
  OBVIOUS
<1>0. Len(revs) \in Nat
  BY DEF Linked
<1>1. PICK m \in bad : \A k \in bad : m <= k
  <2>1. bad \subseteq Nat
    BY <1>0
  <2> HIDE DEF bad
  <2> QED BY <2>1, LeastNatural
<1>2. m \in 0 .. Len(revs) /\ ~ \E g : UpTo(g, revs, m)
  OBVIOUS
<1>3. CASE m = 0
  <2> DEFINE g == [r \in 0 .. 0 |-> {}]
  <2>1. UpTo(g, revs, 0)
    BY DEF UpTo
  <2> QED BY <1>2, <1>3, <2>1
<1>4. CASE m # 0
  <2>1. m - 1 \in 0 .. Len(revs) /\ m - 1 \notin bad
    BY <1>0, <1>1, <1>2, <1>4
  <2>2. PICK h : UpTo(h, revs, m - 1)
    BY <2>1
  <2> DEFINE g == [r \in 0 .. m |-> IF r = m THEN {m} \cup h[revs[m].previous] ELSE h[r]]
  <2>3. revs[m].previous \in 0 .. m - 1
    BY <1>0, <1>2, <1>4 DEF Linked
  <2>4. \A r \in 0 .. m - 1 : g[r] = h[r]
    BY <1>0, <1>2
  <2>5. g[m] = {m} \cup g[revs[m].previous]
    BY <1>0, <1>2, <2>3
  <2>6. ASSUME NEW r \in 0 .. m PROVE g[r] = IF r = 0 THEN {} ELSE {r} \cup g[revs[r].previous]
    <3>1. CASE r = m
      BY <1>4, <2>5, <3>1
    <3>2. CASE r # m
      <4>1. r \in 0 .. m - 1
        BY <1>0, <1>2, <3>2
      <4>2. g[r] = IF r = 0 THEN {} ELSE {r} \cup h[revs[r].previous]
        BY <2>2, <2>4, <4>1 DEF UpTo
      <4>3. r # 0 => revs[r].previous \in 0 .. m - 1
        BY <1>0, <1>2, <4>1 DEF Linked
      <4> QED BY <2>4, <4>2, <4>3
    <3> QED BY <3>1, <3>2
  <2>7. UpTo(g, revs, m)
    <3>1. g = [r \in 0 .. m |-> g[r]]
      OBVIOUS
    <3> HIDE DEF g
    <3> QED BY <2>6, <3>1 DEF UpTo
  <2> QED BY <1>2, <2>7
<1> QED BY <1>3, <1>4

LEMMA ChainUnfolds ==
  ASSUME NEW revs, Linked(revs)
  PROVE  \A r \in 0 .. Len(revs) :
           ChainIn(revs)[r] = IF r = 0 THEN {} ELSE {r} \cup ChainIn(revs)[revs[r].previous]
<1> DEFINE c == ChainIn(revs)
<1>1. \E g : IsChain(g, revs)
  <2>1. Len(revs) \in 0 .. Len(revs)
    BY DEF Linked
  <2> QED BY <2>1, ChainUpTo DEF UpTo, IsChain
<1>2. IsChain(c, revs)
  BY <1>1 DEF ChainIn
<1> HIDE DEF c
<1>3. \A r \in 0 .. Len(revs) : c[r] = IF r = 0 THEN {} ELSE {r} \cup c[revs[r].previous]
  BY <1>2 DEF IsChain
<1> QED BY <1>3 DEF c

\* The history of a revision holds what is not later than it.
LEMMA ChainBelow ==
  ASSUME NEW revs, Linked(revs)
  PROVE  \A r \in 0 .. Len(revs) : ChainIn(revs)[r] \subseteq 1 .. r
<1> DEFINE c == ChainIn(revs)
           bad == {r \in 0 .. Len(revs) : ~(c[r] \subseteq 1 .. r)}
<1> SUFFICES ASSUME bad # {} PROVE FALSE
  OBVIOUS
<1>0. Len(revs) \in Nat
  BY DEF Linked
<1>1. PICK m \in bad : \A k \in bad : m <= k
  <2>1. bad \subseteq Nat
    BY <1>0
  <2> HIDE DEF bad
  <2> QED BY <2>1, LeastNatural
<1>2. c[m] = IF m = 0 THEN {} ELSE {m} \cup c[revs[m].previous]
  BY ChainUnfolds
<1> HIDE DEF c
<1>3. m \in 0 .. Len(revs) /\ m # 0
  BY <1>2
<1>4. revs[m].previous \in 0 .. Len(revs) /\ revs[m].previous < m
  BY <1>0, <1>3 DEF Linked
<1>5. c[revs[m].previous] \subseteq 1 .. revs[m].previous
  BY <1>0, <1>1, <1>3, <1>4
<1>6. c[m] \subseteq 1 .. m
  BY <1>0, <1>2, <1>3, <1>4, <1>5
<1> QED BY <1>6

\* Up to one of its revisions a history is that revision's history.
LEMMA ChainPrefix ==
  ASSUME NEW revs, Linked(revs)
  PROVE  \A r \in 0 .. Len(revs) : \A m \in ChainIn(revs)[r] :
           ChainIn(revs)[m] = {x \in ChainIn(revs)[r] : x <= m}
<1> DEFINE c == ChainIn(revs)
           bad == {r \in 0 .. Len(revs) : ~ \A m \in c[r] : c[m] = {x \in c[r] : x <= m}}
<1> SUFFICES ASSUME bad # {} PROVE FALSE
  OBVIOUS
<1>0. Len(revs) \in Nat
  BY DEF Linked
<1>1. PICK r \in bad : \A k \in bad : r <= k
  <2>1. bad \subseteq Nat
    BY <1>0
  <2> HIDE DEF bad
  <2> QED BY <2>1, LeastNatural
<1>2. PICK m \in c[r] : c[m] # {x \in c[r] : x <= m}
  OBVIOUS
<1>3. c[r] = IF r = 0 THEN {} ELSE {r} \cup c[revs[r].previous]
  BY ChainUnfolds
<1>4. \A k \in 0 .. Len(revs) : c[k] \subseteq 1 .. k
  BY ChainBelow
<1> HIDE DEF c
<1>5. r \in 0 .. Len(revs) /\ r # 0
  BY <1>2, <1>3
<1> DEFINE s == revs[r].previous
<1>6. s \in 0 .. Len(revs) /\ s < r
  BY <1>0, <1>5 DEF Linked
<1> HIDE DEF s
<1>7. c[r] = {r} \cup c[s] /\ c[s] \subseteq 1 .. s /\ c[r] \subseteq 1 .. r
  BY <1>3, <1>4, <1>5, <1>6 DEF s
<1>8. CASE m = r
  <2>1. \A x \in c[r] : x <= r
    BY <1>0, <1>5, <1>7
  <2> QED BY <1>2, <1>8, <2>1
<1>9. CASE m # r
  <2>1. m \in c[s]
    BY <1>2, <1>7, <1>9
  <2>2. c[m] = {x \in c[s] : x <= m}
    <3>1. s \notin bad
      BY <1>0, <1>1, <1>5, <1>6
    <3> QED BY <1>6, <2>1, <3>1
  <2>3. m <= s /\ m \in Nat /\ ~(r <= m)
    BY <1>0, <1>5, <1>6, <1>7, <2>1
  <2>4. {x \in c[s] : x <= m} = {x \in c[r] : x <= m}
    BY <1>7, <2>3
  <2> QED BY <1>2, <2>2, <2>4
<1> QED BY <1>8, <1>9

\* A new revision leaves the histories of the others alone.
LEMMA ChainsAgree ==
  ASSUME NEW old, Linked(old), NEW new, Linked(new), Len(old) <= Len(new),
         \A r \in 1 .. Len(old) : new[r].previous = old[r].previous
  PROVE  \A r \in 0 .. Len(old) : ChainIn(new)[r] = ChainIn(old)[r]
<1> DEFINE c == ChainIn(old)
           d == ChainIn(new)
           bad == {r \in 0 .. Len(old) : d[r] # c[r]}
<1> SUFFICES ASSUME bad # {} PROVE FALSE
  OBVIOUS
<1>0. Len(old) \in Nat /\ Len(new) \in Nat
  BY DEF Linked
<1>1. PICK m \in bad : \A k \in bad : m <= k
  <2>1. bad \subseteq Nat
    BY <1>0
  <2> HIDE DEF bad
  <2> QED BY <2>1, LeastNatural
<1>2. /\ c[m] = IF m = 0 THEN {} ELSE {m} \cup c[old[m].previous]
      /\ d[m] = IF m = 0 THEN {} ELSE {m} \cup d[new[m].previous]
  <2>1. m \in 0 .. Len(old) /\ m \in 0 .. Len(new)
    BY <1>0
  <2> QED BY <2>1, ChainUnfolds
<1> HIDE DEF c, d
<1>3. m \in 1 .. Len(old)
  BY <1>0, <1>2
<1>4. old[m].previous \in 0 .. Len(old) /\ old[m].previous < m /\ new[m].previous = old[m].previous
  BY <1>0, <1>3 DEF Linked
<1>5. d[old[m].previous] = c[old[m].previous]
  BY <1>0, <1>1, <1>3, <1>4
<1> QED BY <1>2, <1>3, <1>4, <1>5

Revision == [binding : Bindings, key : Keys \cup {NoKey}, idem : Nat,
             generation : Nat, previous : Nat, typed : BOOLEAN, cleared : BOOLEAN]
History == Cfg!Chain[current]

(* The inductive invariant: besides what the properties say, what a test   *)
(* in progress has frozen is a revision, and a prepared one holds its key. *)
ConfigTypes ==
  /\ revisions \in Seq(Revision) /\ current \in 0 .. Len(revisions)
  /\ \A r \in 1 .. Len(revisions) : revisions[r].previous < r
  /\ test \in [Tests -> Cfg!Active \cup {"none", "succeeded", "failed", "outcome_unknown"}]
  /\ frozen \in [Tests -> 0 .. Len(revisions)] /\ held \in [Tests -> Keys \cup {NoKey}]
TestsHold == \A t \in Tests :
  /\ test[t] \in Cfg!Active \cup {"outcome_unknown"} => frozen[t] # 0
  /\ test[t] = "prepared" => held[t] = revisions[frozen[t]].key
ConfigInv == ConfigTypes /\ TestsHold /\ Cfg!KeyStaysWithEndpoint /\ Cfg!SavedOnce

LEMMA ConfigLinked == ConfigTypes => Linked(revisions) /\ Len(revisions) \in Nat
<1>1. \A x \in Revision : x.previous \in Nat
  BY DEF Revision
<1>2. revisions \in Seq(Revision) => Len(revisions) \in Nat /\ \A r \in 1 .. Len(revisions) : revisions[r] \in Revision
  OBVIOUS
<1> QED BY <1>1, <1>2 DEF ConfigTypes, Linked

\* The words said in a history on a protocol.
Said(revs, history, p) ==
  {s \in {r \in history : Protocol[revs[r].binding] = p} : revs[s].typed \/ revs[s].cleared}
SourceAt(revs, said) ==
  IF said = {} THEN [binding |-> LegacyBinding, key |-> LegacyKey]
  ELSE [binding |-> revs[Cfg!Max(said)].binding, key |-> revs[Cfg!Max(said)].key]
SourceOf(revs, r) == [binding |-> revs[r].binding, key |-> revs[r].key]
KeyKept(revs, r) ==
  revs[r].key # NoKey => SourceOf(revs, r) = SourceAt(revs, Said(revs, ChainIn(revs)[r], Protocol[revs[r].binding]))

LEMMA KeysAreKept == ConfigTypes => (Cfg!KeyStaysWithEndpoint <=> \A r \in 1 .. Len(revisions) : KeyKept(revisions, r))
<1> SUFFICES ASSUME ConfigTypes
             PROVE  Cfg!KeyStaysWithEndpoint <=> \A r \in 1 .. Len(revisions) : KeyKept(revisions, r)
  OBVIOUS
<1>1. DOMAIN revisions = 1 .. Len(revisions)
  BY DEF ConfigTypes
<1>2. ASSUME NEW r \in 1 .. Len(revisions)
      PROVE  (revisions[r].key # NoKey => LET s == Cfg!LastWord(r)
                IN Cfg!RevisionSource(r) = IF s = 0 THEN Cfg!Source(LegacyBinding, LegacyKey) ELSE Cfg!RevisionSource(s))
             <=> KeyKept(revisions, r)
  <2> DEFINE said == Said(revisions, ChainIn(revisions)[r], Protocol[revisions[r].binding])
  <2>1. Cfg!LastWord(r) = IF said = {} THEN 0 ELSE Cfg!Max(said)
    BY ChainIsChainIn DEF Cfg!LastWord, Cfg!OfProtocol, Said
  <2>2. said # {} => Cfg!Max(said) # 0
    <3>1. said \subseteq 1 .. r /\ r \in Nat
      BY ConfigLinked, ChainBelow DEF Said
    <3> HIDE DEF said
    <3>2. said \subseteq 0 .. r
      BY <3>1
    <3>3. said # {} => Cfg!Max(said) \in said
      BY <3>1, <3>2, GreatestNatural
    <3> QED BY <3>1, <3>3
  <2> HIDE DEF said
  <2>3. Cfg!RevisionSource(r) = SourceOf(revisions, r)
    BY DEF Cfg!RevisionSource, Cfg!Source, SourceOf
  <2>4. (LET s == Cfg!LastWord(r) IN IF s = 0 THEN Cfg!Source(LegacyBinding, LegacyKey) ELSE Cfg!RevisionSource(s))
        = SourceAt(revisions, said)
    BY <2>1, <2>2 DEF Cfg!RevisionSource, Cfg!Source, SourceAt
  <2> QED BY <2>3, <2>4 DEF KeyKept, said
<1> QED BY <1>1, <1>2 DEF Cfg!KeyStaysWithEndpoint

LEMMA ConfigInit == ServicesAssumption /\ Cfg!Init => ConfigInv
<1> SUFFICES ASSUME ServicesAssumption, Cfg!Init PROVE ConfigInv
  OBVIOUS
<1>1. ConfigTypes
  BY DEF Cfg!Init, ConfigTypes, Cfg!Active
<1>2. TestsHold /\ Cfg!KeyStaysWithEndpoint
  BY DEF Cfg!Init, TestsHold, Cfg!Active, Cfg!KeyStaysWithEndpoint
<1>3. Cfg!Chain[current] = {}
  <2>1. Len(revisions) = 0 /\ current = 0
    BY DEF Cfg!Init
  <2>2. ChainIn(revisions)[0] \subseteq 1 .. 0
    BY <1>1, <2>1, ConfigLinked, ChainBelow
  <2> QED BY <2>1, <2>2, ChainIsChainIn
<1>4. Cfg!SavedOnce
  BY <1>3 DEF Cfg!SavedOnce
<1> QED BY <1>1, <1>2, <1>4 DEF ConfigInv

\* The key a save takes along stands for the last word on its protocol.
LEMMA CarriedIsLastWord ==
  ASSUME ServicesAssumption, ConfigInv, NEW q \in Requests, Cfg!CarriesKey(q), Cfg!KeyAllowed(q),
         Cfg!KeySource(q.binding).key # NoKey
  PROVE  /\ Cfg!KeySource(q.binding).binding = q.binding
         /\ Cfg!KeySource(q.binding) =
              SourceAt(revisions, Said(revisions, ChainIn(revisions)[current], Protocol[q.binding]))
<1> DEFINE c == ChainIn(revisions)
           source == Cfg!KeySource(q.binding)
           p == Protocol[q.binding]
           said == Said(revisions, c[current], p)
<1>0. ConfigTypes /\ Linked(revisions) /\ Len(revisions) \in Nat /\ current \in 0 .. Len(revisions)
  BY ConfigLinked DEF ConfigInv, ConfigTypes
<1>1. source.binding = q.binding
  BY DEF Cfg!KeyAllowed, Cfg!SameBinding
<1>2. Cfg!Chain[current] = c[current]
  BY ChainIsChainIn
<1>3. \A r \in 1 .. Len(revisions) : KeyKept(revisions, r)
  BY <1>0, KeysAreKept DEF ConfigInv
<1>4. c[current] \subseteq 1 .. current /\ (current # 0 => current \in c[current])
  <2>1. c[current] \subseteq 1 .. current
    BY <1>0, ChainBelow
  <2>2. c[current] = IF current = 0 THEN {} ELSE {current} \cup c[revisions[current].previous]
    BY <1>0, ChainUnfolds
  <2> HIDE DEF c
  <2> QED BY <2>1, <2>2
<1>5. CASE current = 0
  <2>1. said = {}
    <3> HIDE DEF c
    <3> QED BY <1>4, <1>5 DEF Said
  <2>2. source = [binding |-> LegacyBinding, key |-> LegacyKey]
    BY <1>5 DEF Cfg!KeySource, Cfg!Old, Cfg!Source
  <2> HIDE DEF said, source
  <2> QED BY <1>1, <2>1, <2>2 DEF SourceAt, source, said
<1>6. CASE current # 0 /\ Protocol[Cfg!Old.binding] = p
  <2>1. source = SourceOf(revisions, current)
    BY <1>6 DEF Cfg!KeySource, Cfg!Old, Cfg!RevisionSource, Cfg!Source, SourceOf
  <2>2. KeyKept(revisions, current)
    BY <1>0, <1>3, <1>6
  <2>3. Protocol[revisions[current].binding] = p
    BY <1>6 DEF Cfg!Old, Cfg!RevisionSource, Cfg!Source
  <2>4. revisions[current].key # NoKey
    BY <2>1 DEF SourceOf
  <2> HIDE DEF source, c, p
  <2> QED BY <1>1, <2>1, <2>2, <2>3, <2>4 DEF KeyKept, source, c, p
<1>7. CASE current # 0 /\ Protocol[Cfg!Old.binding] # p
  <2> DEFINE saved == {r \in c[current] : Protocol[revisions[r].binding] = p}
  <2>1. source = IF saved # {} THEN SourceOf(revisions, Cfg!Max(saved))
                 ELSE IF Cfg!LegacyConfigured /\ Protocol[LegacyBinding] = p
                        THEN [binding |-> LegacyBinding, key |-> LegacyKey]
                 ELSE SourceOf(revisions, current)
    BY <1>2, <1>7 DEF Cfg!KeySource, Cfg!SavedProfile, Cfg!OfProtocol, Cfg!Old, Cfg!RevisionSource, Cfg!Source, SourceOf
  <2>2. Protocol[revisions[current].binding] # p
    BY <1>7 DEF Cfg!Old, Cfg!RevisionSource, Cfg!Source
  <2>3. CASE saved = {}
    <3>1. said = {}
      BY <2>3 DEF Said
    <3>2. source # SourceOf(revisions, current)
      <4>1. Protocol[source.binding] = p
        BY <1>1
      <4> HIDE DEF source
      <4> QED BY <2>2, <4>1 DEF SourceOf
    <3>3. source = [binding |-> LegacyBinding, key |-> LegacyKey]
      <4> HIDE DEF source, saved
      <4> QED BY <2>1, <2>3, <3>2
    <3> HIDE DEF source, said
    <3> QED BY <1>1, <3>1, <3>3 DEF SourceAt, source, said
  <2>4. CASE saved # {}
    <3> DEFINE m == Cfg!Max(saved)
    <3>1. m \in saved /\ \A y \in saved : y <= m
      <4>1. saved \subseteq 0 .. current /\ current \in Nat
        <5> HIDE DEF c
        <5> QED BY <1>0, <1>4
      <4> HIDE DEF saved
      <4> QED BY <2>4, <4>1, GreatestNatural
    <3> HIDE DEF m
    <3>2. m \in c[current] /\ Protocol[revisions[m].binding] = p /\ m \in 1 .. Len(revisions)
      <4>1. m \in c[current] /\ Protocol[revisions[m].binding] = p
        BY <3>1
      <4> HIDE DEF c
      <4> QED BY <1>0, <1>4, <4>1
    <3>3. c[m] = {x \in c[current] : x <= m}
      BY <1>0, <3>2, ChainPrefix
    <3>4. Said(revisions, c[m], p) = said
      <4>1. \A x \in c[current] : Protocol[revisions[x].binding] = p => x <= m
        BY <3>1
      <4> HIDE DEF c, saved, p
      <4> QED BY <3>3, <4>1 DEF Said
    <3>5. source = SourceOf(revisions, m)
      <4> HIDE DEF source, saved
      <4> QED BY <2>1, <2>4 DEF m
    <3>6. revisions[m].key # NoKey
      <4>1. source.key # NoKey
        OBVIOUS
      <4> HIDE DEF source
      <4> QED BY <3>5, <4>1 DEF SourceOf
    <3>7. SourceOf(revisions, m) = SourceAt(revisions, Said(revisions, c[m], p))
      <4> HIDE DEF c, p
      <4> QED BY <1>3, <3>2, <3>6 DEF KeyKept, c
    <3> HIDE DEF said, source, c, p
    <3> QED BY <1>1, <3>4, <3>5, <3>7 DEF source, said, c, p
  <2> QED BY <2>3, <2>4
<1> QED BY <1>5, <1>6, <1>7

\* A new directory keeps the histories of all others, and its own follows
\* that of the revision that is current.
LEMMA NewDirectory ==
  ASSUME ServicesAssumption, ConfigInv, NEW q \in Requests, Cfg!WriteRevision(q)
  PROVE  /\ revisions' = Append(revisions, Cfg!NewRevision(q))
         /\ Cfg!NewRevision(q) \in Revision /\ Len(revisions') = Len(revisions) + 1
         /\ Linked(revisions')
         /\ \A r \in 1 .. Len(revisions) : revisions'[r] = revisions[r]
         /\ revisions'[Len(revisions) + 1] = Cfg!NewRevision(q)
         /\ \A r \in 0 .. Len(revisions) : ChainIn(revisions')[r] = ChainIn(revisions)[r]
         /\ ChainIn(revisions')[Len(revisions) + 1] = {Len(revisions) + 1} \cup ChainIn(revisions)[current]
<1> DEFINE n == Len(revisions)
           x == Cfg!NewRevision(q)
<1>0. ConfigTypes /\ Linked(revisions) /\ n \in Nat /\ current \in 0 .. n /\ revisions \in Seq(Revision)
  BY ConfigLinked DEF ConfigInv, ConfigTypes
<1>1. /\ LegacyKey \in Keys \cup {NoKey} /\ Requests \subseteq [idem : Nat, binding : Bindings, key : Keys \cup {NoKey}, clear : BOOLEAN]
  BY DEF ServicesAssumption, Cfg!ProviderConfigAssumption
<1>2. \A r \in 1 .. n : revisions[r] \in Revision
  BY <1>0
<1>3. Cfg!Generation \in Nat
  <2>1. \A r \in 1 .. n : revisions[r].generation \in Nat
    BY <1>2 DEF Revision
  <2> QED BY <1>0, <2>1 DEF Cfg!Generation
<1>4. Cfg!NewKey(q) \in Keys \cup {NoKey}
  <2>1. \A r \in 1 .. n : revisions[r].key \in Keys \cup {NoKey}
    BY <1>2 DEF Revision
  <2>2. Cfg!Old.key \in Keys \cup {NoKey}
    BY <1>0, <1>1, <2>1 DEF Cfg!Old, Cfg!RevisionSource, Cfg!Source
  <2>3. ASSUME NEW p PROVE Cfg!SavedProfile(p).key \in Keys \cup {NoKey}
    <3> DEFINE saved == Cfg!OfProtocol(Cfg!Chain[current], p)
    <3>1. saved \subseteq 1 .. n /\ saved \subseteq 0 .. n
      <4>1. Cfg!Chain[current] \subseteq 1 .. n
        BY <1>0, ChainBelow, ChainIsChainIn
      <4> QED BY <4>1 DEF Cfg!OfProtocol
    <3>2. Cfg!SavedProfile(p) = IF saved # {} THEN [binding |-> revisions[Cfg!Max(saved)].binding, key |-> revisions[Cfg!Max(saved)].key]
            ELSE IF Cfg!LegacyConfigured /\ Protocol[LegacyBinding] = p
              THEN [binding |-> LegacyBinding, key |-> LegacyKey] ELSE Cfg!Old
      BY DEF Cfg!SavedProfile, Cfg!RevisionSource, Cfg!Source
    <3> HIDE DEF saved
    <3>3. saved # {} => Cfg!Max(saved) \in 1 .. n
      BY <1>0, <3>1, GreatestNatural
    <3> QED BY <1>1, <2>1, <2>2, <3>2, <3>3
  <2>4. Cfg!KeySource(q.binding).key \in Keys \cup {NoKey}
    BY <2>2, <2>3 DEF Cfg!KeySource
  <2> QED BY <1>1, <2>4 DEF Cfg!NewKey
<1>5. x \in Revision /\ x.previous = current
  <2>1. q \in [idem : Nat, binding : Bindings, key : Keys \cup {NoKey}, clear : BOOLEAN]
    BY <1>1
  <2>2. q.idem \in Nat /\ q.binding \in Bindings /\ q.clear \in BOOLEAN /\ (q.key # NoKey) \in BOOLEAN
    BY <2>1
  <2>3. Cfg!Generation + 1 \in Nat /\ current \in Nat
    BY <1>0, <1>3
  <2>4. x = [binding |-> q.binding, key |-> Cfg!NewKey(q), idem |-> q.idem,
             generation |-> Cfg!Generation + 1, previous |-> current,
             typed |-> q.key # NoKey, cleared |-> q.clear]
    BY DEF Cfg!NewRevision
  <2> HIDE DEF x
  <2> QED BY <1>4, <2>2, <2>3, <2>4 DEF Revision
<1> HIDE DEF x
<1>6. revisions' = Append(revisions, x)
  BY DEF Cfg!WriteRevision, x
<1>7. /\ Len(revisions') = n + 1 /\ revisions'[n + 1] = x
      /\ \A r \in 1 .. n : revisions'[r] = revisions[r]
  BY <1>0, <1>5, <1>6
<1>8. Linked(revisions')
  <2>1. \A r \in 1 .. n : revisions'[r].previous \in Nat /\ revisions'[r].previous < r
    BY <1>0, <1>7 DEF Linked
  <2>2. revisions'[n + 1].previous \in Nat /\ revisions'[n + 1].previous < n + 1
    BY <1>0, <1>5, <1>7
  <2> HIDE DEF n
  <2> QED BY <1>0, <1>7, <2>1, <2>2 DEF Linked
<1>9. \A r \in 0 .. n : ChainIn(revisions')[r] = ChainIn(revisions)[r]
  <2>1. \A r \in 1 .. n : revisions'[r].previous = revisions[r].previous
    BY <1>7
  <2>2. n <= Len(revisions')
    BY <1>0, <1>7
  <2> QED BY <1>0, <1>8, <2>1, <2>2, ChainsAgree
<1>10. ChainIn(revisions')[n + 1] = {n + 1} \cup ChainIn(revisions)[current]
  <2>1. n + 1 \in 0 .. Len(revisions') /\ n + 1 # 0
    BY <1>0, <1>7
  <2>2. ChainIn(revisions')[n + 1] = {n + 1} \cup ChainIn(revisions')[revisions'[n + 1].previous]
    BY <1>8, <2>1, ChainUnfolds
  <2> QED BY <1>0, <1>5, <1>7, <1>9, <2>2
<1> QED BY <1>5, <1>6, <1>7, <1>8, <1>9, <1>10 DEF x

LEMMA KeptWherever ==
  ASSUME ServicesAssumption, ConfigInv, NEW q \in Requests, Cfg!WriteRevision(q)
  PROVE  \A r \in 1 .. Len(revisions') : KeyKept(revisions', r)
<1> DEFINE n == Len(revisions)
           x == Cfg!NewRevision(q)
           c == ChainIn(revisions)
           d == ChainIn(revisions')
<1>0. /\ ConfigTypes /\ Linked(revisions) /\ n \in Nat /\ current \in 0 .. n
      /\ \A r \in 1 .. n : KeyKept(revisions, r)
  BY ConfigLinked, KeysAreKept DEF ConfigInv, ConfigTypes
<1>1. /\ Len(revisions') = n + 1 /\ Linked(revisions')
      /\ \A r \in 1 .. n : revisions'[r] = revisions[r]
      /\ revisions'[n + 1] = x
      /\ \A r \in 0 .. n : d[r] = c[r]
      /\ d[n + 1] = {n + 1} \cup c[current]
  BY NewDirectory
<1>2. \A r \in 0 .. n : c[r] \subseteq 1 .. r
  BY <1>0, ChainBelow
<1> HIDE DEF c, d
<1>3. ASSUME NEW r \in 0 .. n, NEW p
      PROVE  /\ Said(revisions', d[r], p) = Said(revisions, c[r], p)
             /\ SourceAt(revisions', Said(revisions, c[r], p)) = SourceAt(revisions, Said(revisions, c[r], p))
  <2>1. d[r] = c[r] /\ \A s \in c[r] : revisions'[s] = revisions[s]
    BY <1>0, <1>1, <1>2
  <2>2. Said(revisions', d[r], p) = Said(revisions, c[r], p)
    BY <2>1 DEF Said
  <2> DEFINE said == Said(revisions, c[r], p)
  <2>3. said \subseteq c[r]
    BY DEF Said
  <2> HIDE DEF said
  <2>4. said # {} => Cfg!Max(said) \in c[r]
    <3>1. said \subseteq 0 .. n
      BY <1>0, <1>2, <2>3
    <3> QED BY <1>0, <2>3, <3>1, GreatestNatural
  <2>5. SourceAt(revisions', said) = SourceAt(revisions, said)
    BY <2>1, <2>4 DEF SourceAt
  <2> QED BY <2>2, <2>5 DEF said
<1>4. ASSUME NEW r \in 1 .. n PROVE KeyKept(revisions', r)
  <2>1. KeyKept(revisions, r) /\ revisions'[r] = revisions[r] /\ r \in 0 .. n
    BY <1>0, <1>1
  <2> QED BY <1>3, <2>1 DEF KeyKept, SourceOf, c, d
<1>5. KeyKept(revisions', n + 1)
  <2> DEFINE p == Protocol[q.binding]
             said == Said(revisions', d[n + 1], p)
             before == Said(revisions, c[current], p)
  <2>1. /\ x.binding = q.binding /\ x.key = Cfg!NewKey(q)
        /\ x.typed = (q.key # NoKey) /\ x.cleared = q.clear
    BY DEF Cfg!NewRevision
  <2>2. Cfg!ValidRequest(q) /\ Cfg!KeyAllowed(q)
    BY DEF Cfg!WriteRevision
  <2> HIDE DEF x
  <2> SUFFICES ASSUME x.key # NoKey PROVE SourceOf(revisions', n + 1) = SourceAt(revisions', said)
    BY <1>1, <2>1 DEF KeyKept, d
  <2>3. SourceOf(revisions', n + 1) = [binding |-> q.binding, key |-> x.key]
    BY <1>1, <2>1 DEF SourceOf
  <2>4. CASE q.key # NoKey
    <3>1. n + 1 \in said
      BY <1>1, <2>1, <2>4 DEF Said
    <3>2. said \subseteq 0 .. n + 1
      <4>1. said \subseteq d[n + 1]
        BY DEF Said
      <4>2. d[n + 1] \subseteq 0 .. n + 1
        BY <1>0, <1>1, <1>2
      <4> QED BY <4>1, <4>2
    <3> HIDE DEF said
    <3>3. Cfg!Max(said) = n + 1
      <4>1. n + 1 \in Nat /\ said # {}
        BY <1>0, <3>1
      <4>2. Cfg!Max(said) \in said /\ \A y \in said : y <= Cfg!Max(said)
        BY <3>2, <4>1, GreatestNatural
      <4>3. n + 1 <= Cfg!Max(said) /\ Cfg!Max(said) \in 0 .. n + 1
        BY <3>1, <3>2, <4>2
      <4> QED BY <1>0, <4>3
    <3> QED BY <1>1, <3>1, <3>3 DEF SourceAt, SourceOf
  <2>5. CASE q.key = NoKey
    <3>1. Cfg!CarriesKey(q) /\ x.key = Cfg!KeySource(q.binding).key
      BY <2>1, <2>5 DEF Cfg!NewKey
    <3>2. ~q.clear
      BY <3>1 DEF Cfg!CarriesKey
    <3>3. said = before
      <4>1. n + 1 \notin c[current] /\ \A s \in c[current] : revisions'[s] = revisions[s]
        BY <1>0, <1>1, <1>2
      <4>2. ~(revisions'[n + 1].typed \/ revisions'[n + 1].cleared)
        BY <1>1, <2>1, <2>5, <3>2
      <4> QED BY <1>1, <4>1, <4>2 DEF Said
    <3>4. Cfg!KeySource(q.binding).binding = q.binding /\ Cfg!KeySource(q.binding) = SourceAt(revisions, before)
      BY <2>2, <3>1, CarriedIsLastWord DEF c
    <3>5. SourceAt(revisions', before) = SourceAt(revisions, before)
      BY <1>0, <1>3
    <3>6. SourceAt(revisions, before) = [binding |-> SourceAt(revisions, before).binding, key |-> SourceAt(revisions, before).key]
      BY DEF SourceAt
    <3> HIDE DEF said, before
    <3> QED BY <2>3, <3>1, <3>3, <3>4, <3>5, <3>6
  <2> QED BY <2>4, <2>5
<1>6. ASSUME NEW r \in 1 .. n + 1, r \notin 1 .. n PROVE r = n + 1
  BY <1>0, <1>6
<1> QED BY <1>1, <1>4, <1>5, <1>6

LEMMA SaveStep ==
  ASSUME ServicesAssumption, ConfigInv, NEW q \in Requests, Cfg!WriteRevision(q),
         current' = Len(revisions') \/ UNCHANGED current
  PROVE  ConfigInv'
<1> DEFINE n == Len(revisions)
           x == Cfg!NewRevision(q)
           c == ChainIn(revisions)
<1>0. /\ ConfigTypes /\ Linked(revisions) /\ n \in Nat /\ current \in 0 .. n
      /\ revisions \in Seq(Revision) /\ Cfg!SavedOnce /\ TestsHold
  BY ConfigLinked DEF ConfigInv, ConfigTypes
<1>1. /\ revisions' = Append(revisions, x) /\ x \in Revision
      /\ Len(revisions') = n + 1 /\ Linked(revisions')
      /\ \A r \in 1 .. n : revisions'[r] = revisions[r]
      /\ revisions'[n + 1] = x
      /\ \A r \in 0 .. n : ChainIn(revisions')[r] = c[r]
      /\ ChainIn(revisions')[n + 1] = {n + 1} \cup c[current]
  BY NewDirectory
<1>2. UNCHANGED <<test, frozen, held>>
  BY DEF Cfg!WriteRevision
<1>3. Cfg!Chain = c /\ Cfg!Chain' = ChainIn(revisions')
  BY ChainIsChainIn DEF Cfg!Chain, ChainIn, IsChain
<1>4. x.idem = q.idem /\ \A r \in c[current] : revisions[r].idem # q.idem
  BY <1>3 DEF Cfg!WriteRevision, Cfg!Replayed, Cfg!NewRevision
<1>5. c[current] \subseteq 1 .. n
  <2>1. c[current] \subseteq 1 .. current
    BY <1>0, ChainBelow
  <2> HIDE DEF c
  <2> QED BY <1>0, <2>1
<1>6. \A r, s \in c[current] : revisions[r].idem = revisions[s].idem => r = s
  BY <1>0, <1>3 DEF Cfg!SavedOnce
<1> HIDE DEF c, x, n
<1>7. ConfigTypes'
  <2>1. revisions' \in Seq(Revision)
    BY <1>0, <1>1
  <2>2. current' \in 0 .. Len(revisions')
    BY <1>0, <1>1 DEF n
  <2>3. \A r \in 1 .. Len(revisions') : revisions'[r].previous < r
    BY <1>1 DEF Linked
  <2>4. frozen' \in [Tests -> 0 .. Len(revisions')]
    BY <1>0, <1>1, <1>2 DEF ConfigTypes, n
  <2>5. /\ test' \in [Tests -> Cfg!Active \cup {"none", "succeeded", "failed", "outcome_unknown"}]
        /\ held' \in [Tests -> Keys \cup {NoKey}]
    BY <1>0, <1>2 DEF ConfigTypes
  <2> QED BY <2>1, <2>2, <2>3, <2>4, <2>5 DEF ConfigTypes, Cfg!Active
<1>8. TestsHold'
  <2> SUFFICES ASSUME NEW t \in Tests
               PROVE  /\ test'[t] \in Cfg!Active \cup {"outcome_unknown"} => frozen'[t] # 0
                      /\ test'[t] = "prepared" => held'[t] = revisions'[frozen'[t]].key
    BY DEF TestsHold, Cfg!Active
  <2>1. test[t] = "prepared" => frozen[t] \in 1 .. n
    BY <1>0 DEF ConfigTypes, TestsHold, Cfg!Active, n
  <2> QED BY <1>0, <1>1, <1>2, <2>1 DEF TestsHold
<1>9. Cfg!KeyStaysWithEndpoint'
  <2>1. (ConfigTypes => (Cfg!KeyStaysWithEndpoint <=> \A r \in 1 .. Len(revisions) : KeyKept(revisions, r)))'
    BY KeysAreKept, PTL
  <2>2. (\A r \in 1 .. Len(revisions) : KeyKept(revisions, r))'
    <3>1. \A r \in 1 .. Len(revisions') : KeyKept(revisions', r)
      BY KeptWherever
    <3> QED BY <3>1 DEF KeyKept, SourceOf, SourceAt, Said, ChainIn, IsChain, Cfg!Max
  <2> QED BY <1>7, <2>1, <2>2
<1>10. Cfg!SavedOnce'
  <2>1. \A r, s \in ChainIn(revisions')[current'] : revisions'[r].idem = revisions'[s].idem => r = s
    <3>1. CASE current' = current
      <4>1. ChainIn(revisions')[current'] = c[current] /\ \A r \in c[current] : revisions'[r] = revisions[r]
        BY <1>0, <1>1, <1>5, <3>1
      <4> QED BY <1>6, <4>1
    <3>2. CASE current' = n + 1
      <4>1. ChainIn(revisions')[current'] = {n + 1} \cup c[current] /\ \A r \in c[current] : revisions'[r] = revisions[r]
        BY <1>1, <1>5, <3>2
      <4>2. revisions'[n + 1].idem = q.idem
        BY <1>1, <1>4
      <4>3. \A r \in c[current] : revisions'[r].idem # q.idem
        BY <1>4, <4>1
      <4>4. \A r, s \in c[current] : revisions'[r].idem = revisions'[s].idem => r = s
        BY <1>6, <4>1
      <4> QED BY <4>1, <4>2, <4>3, <4>4
    <3> QED BY <1>1, <3>1, <3>2
  <2> QED BY <1>3, <2>1 DEF Cfg!SavedOnce
<1> QED BY <1>7, <1>8, <1>9, <1>10 DEF ConfigInv

\* The steps of a test leave the revisions alone.
LEMMA TestSteps ==
  ASSUME ConfigInv, UNCHANGED <<revisions, current>>,
         test' \in [Tests -> Cfg!Active \cup {"none", "succeeded", "failed", "outcome_unknown"}],
         frozen' \in [Tests -> 0 .. Len(revisions)], held' \in [Tests -> Keys \cup {NoKey}],
         \A t \in Tests :
           /\ test'[t] \in Cfg!Active \cup {"outcome_unknown"} => frozen'[t] # 0
           /\ test'[t] = "prepared" => held'[t] = revisions[frozen'[t]].key
  PROVE  ConfigInv'
<1>1. ConfigTypes'
  BY DEF ConfigInv, ConfigTypes, Cfg!Active
<1>2. TestsHold'
  BY DEF TestsHold, Cfg!Active
<1>3. Cfg!Chain' = Cfg!Chain
  BY DEF Cfg!Chain
<1>4. Cfg!SavedOnce'
  <2>1. Cfg!SavedOnce
    BY DEF ConfigInv
  <2> QED BY <1>3, <2>1 DEF Cfg!SavedOnce
<1>5. Cfg!KeyStaysWithEndpoint'
  <2>1. ConfigTypes => (Cfg!KeyStaysWithEndpoint <=> \A r \in 1 .. Len(revisions) : KeyKept(revisions, r))
    BY KeysAreKept
  <2>2. (ConfigTypes => (Cfg!KeyStaysWithEndpoint <=> \A r \in 1 .. Len(revisions) : KeyKept(revisions, r)))'
    BY KeysAreKept, PTL
  <2>3. \A r \in 1 .. Len(revisions) : KeyKept(revisions, r)
    BY <2>1 DEF ConfigInv
  <2>4. (\A r \in 1 .. Len(revisions) : KeyKept(revisions, r))'
    <3>1. revisions' = revisions
      OBVIOUS
    <3>2. \A r \in 1 .. Len(revisions') : KeyKept(revisions', r)
      BY <2>3, <3>1
    <3> QED BY ONLY <3>2 DEF KeyKept, SourceOf, SourceAt, Said, ChainIn, IsChain, Cfg!Max
  <2> QED BY <1>1, <2>2, <2>4
<1> QED BY <1>1, <1>2, <1>4, <1>5 DEF ConfigInv

LEMMA ConfigNext == ServicesAssumption /\ ConfigInv /\ (Cfg!Next \/ UNCHANGED configVars) => ConfigInv'
<1> SUFFICES ASSUME ServicesAssumption, ConfigInv, Cfg!Next \/ UNCHANGED configVars PROVE ConfigInv'
  OBVIOUS
<1>0. /\ ConfigTypes /\ TestsHold /\ Len(revisions) \in Nat
      /\ \A r \in 1 .. Len(revisions) : revisions[r] \in Revision
  <2>1. ConfigTypes /\ TestsHold
    BY DEF ConfigInv
  <2> QED BY <2>1 DEF ConfigTypes
<1>1. ASSUME NEW q \in Requests, Cfg!Save(q) \/ Cfg!SaveCrashes(q) PROVE ConfigInv'
  BY <1>1, SaveStep DEF Cfg!Save, Cfg!SaveCrashes
<1>2. ASSUME NEW t \in Tests, NEW risk \in BOOLEAN, Cfg!RequestTest(t, risk) PROVE ConfigInv'
  BY <1>0, <1>2, TestSteps DEF Cfg!RequestTest, Cfg!Ready, ConfigTypes, TestsHold, Cfg!Active
<1>3. ASSUME NEW t \in Tests, Cfg!StartTest(t) PROVE ConfigInv'
  BY <1>0, <1>3, TestSteps DEF Cfg!StartTest, Cfg!TestStep, ConfigTypes, TestsHold, Cfg!Active
<1>4. ASSUME NEW t \in Tests, Cfg!ResolveCredentials(t) PROVE ConfigInv'
  <2>1. revisions[frozen[t]].key \in Keys \cup {NoKey}
    <3>1. frozen[t] \in 1 .. Len(revisions)
      BY <1>0, <1>4 DEF Cfg!ResolveCredentials, Cfg!TestStep, ConfigTypes, TestsHold, Cfg!Active
    <3> QED BY <1>0, <3>1 DEF Revision
  <2> QED BY <1>0, <1>4, <2>1, TestSteps DEF Cfg!ResolveCredentials, Cfg!TestStep, ConfigTypes, TestsHold, Cfg!Active
<1>5. ASSUME NEW t \in Tests, Cfg!AuthorizeTest(t) PROVE ConfigInv'
  BY <1>0, <1>5, TestSteps DEF Cfg!AuthorizeTest, Cfg!TestStep, ConfigTypes, TestsHold, Cfg!Active
<1>6. ASSUME NEW t \in Tests, Cfg!TestAnswered(t) PROVE ConfigInv'
  BY <1>0, <1>6, TestSteps DEF Cfg!TestAnswered, Cfg!TestStep, ConfigTypes, TestsHold, Cfg!Active
<1>7. ASSUME NEW t \in Tests, Cfg!RetryTest(t) PROVE ConfigInv'
  BY <1>0, <1>7, TestSteps DEF Cfg!RetryTest, Cfg!TestStep, ConfigTypes, TestsHold, Cfg!Active
<1>8. CASE UNCHANGED configVars
  BY <1>0, <1>8, TestSteps DEF configVars, ConfigTypes, TestsHold
<1> QED BY <1>1, <1>2, <1>3, <1>4, <1>5, <1>6, <1>7, <1>8 DEF Cfg!Next

\* Only the last check before the request lets a test send its key.
SentKeyIsSaved == \A t \in Tests : test[t] # "sent" /\ test'[t] = "sent" => held[t] = revisions[current].key

LEMMA KeySentIsSaved == ServicesAssumption /\ ConfigInv /\ Cfg!Next => SentKeyIsSaved
<1> SUFFICES ASSUME ConfigInv, Cfg!Next, NEW t \in Tests, test[t] # "sent", test'[t] = "sent"
             PROVE  held[t] = revisions[current].key
  BY DEF SentKeyIsSaved
<1>0. ConfigTypes /\ TestsHold
  BY DEF ConfigInv
<1>1. ASSUME NEW q \in Requests, Cfg!Save(q) \/ Cfg!SaveCrashes(q) PROVE FALSE
  BY <1>1 DEF Cfg!Save, Cfg!SaveCrashes, Cfg!WriteRevision
<1>2. ASSUME NEW u \in Tests, NEW risk \in BOOLEAN, Cfg!RequestTest(u, risk) PROVE FALSE
  BY <1>0, <1>2 DEF Cfg!RequestTest, ConfigTypes
<1>3. ASSUME NEW u \in Tests, NEW from, NEW to, Cfg!TestStep(u, from, to), to # "sent" PROVE FALSE
  BY <1>0, <1>3 DEF Cfg!TestStep, ConfigTypes
<1>4. ASSUME NEW u \in Tests, Cfg!AuthorizeTest(u) PROVE held[t] = revisions[current].key
  <2>1. u = t /\ ~Cfg!Stale(t)
    BY <1>0, <1>4 DEF Cfg!AuthorizeTest, Cfg!TestStep, ConfigTypes
  <2> QED BY <1>0, <1>4, <2>1 DEF Cfg!AuthorizeTest, Cfg!TestStep, Cfg!Stale, TestsHold
<1>5. ASSUME NEW u \in Tests, Cfg!StartTest(u) \/ Cfg!ResolveCredentials(u) \/ Cfg!TestAnswered(u) \/ Cfg!RetryTest(u) PROVE FALSE
  BY <1>3, <1>5 DEF Cfg!StartTest, Cfg!ResolveCredentials, Cfg!TestAnswered, Cfg!RetryTest
<1> QED BY <1>1, <1>2, <1>4, <1>5 DEF Cfg!Next

(* Saved keys are safe (providers/settings.py, connection.py): for any     *)
(* endpoints, keys, saves, crashes and tests, a revision holds a key only  *)
(* for the endpoint its user entered it for, a save that is sent again is  *)
(* not executed twice, and a connection test leaves with the saved key.    *)
THEOREM KeysAreSafe == Spec => SavedKeysAreSafe
<1>1. Init => ConfigInv
  BY ConfigInit, ServicesAssumption DEF Init
<1>2. ConfigInv /\ [Next]_vars => ConfigInv' /\ [SentKeyIsSaved]_configVars
  <2> SUFFICES ASSUME ConfigInv, [Next]_vars PROVE ConfigInv' /\ [SentKeyIsSaved]_configVars
    OBVIOUS
  <2>1. Cfg!Next \/ UNCHANGED configVars
    BY DEF Next, vars
  <2> QED BY <2>1, ConfigNext, KeySentIsSaved, ServicesAssumption
<1>3. ConfigInv => Cfg!TypeOK /\ Cfg!KeyStaysWithEndpoint /\ Cfg!SavedOnce
  <2> SUFFICES ASSUME ConfigInv PROVE Cfg!TypeOK
    BY DEF ConfigInv
  <2>1. DOMAIN revisions = 1 .. Len(revisions)
    BY DEF ConfigInv, ConfigTypes
  <2> QED BY <2>1 DEF ConfigInv, ConfigTypes, Revision, Cfg!TypeOK
<1>4. [][SentKeyIsSaved]_configVars <=> Cfg!TestUsesSavedKey
  BY PTL DEF Cfg!TestUsesSavedKey, SentKeyIsSaved, configVars, Cfg!configVars
<1> QED BY <1>1, <1>2, <1>3, <1>4, PTL DEF Spec, SavedKeysAreSafe

--------------------------------------------------------------------------------
(* The local model service.                                                *)

AtWork == {"start", "cache", "load", "gate", "inside", "configured"}
InGate(u) == unitAt[u] \in {"inside", "inferring"}

(* The inductive invariant: a thread at work shows in the state of its     *)
(* model, which is what keeps a second one away; and whoever is inside the *)
(* gate is the writer or one of the readers, never both kinds at once.     *)
OneThreadPerModel ==
  /\ \A p \in Threads : preparing[p] \in AtWork => status[prepares[p]] \in {"downloading", "loading"}
  /\ \A p, q \in Threads : p # q /\ preparing[p] # Mdl!Idle /\ preparing[q] # Mdl!Idle => prepares[p] # prepares[q]
GateKept ==
  /\ readers # {} => writing = Mdl!Nobody
  /\ \A p \in Threads : preparing[p] = "inside" => writing = p
  /\ \A u \in LocalUnits : InGate(u) => IF Mdl!Shared(UnitModel[u]) THEN u \in readers ELSE writing = u
InferringIsConfigured ==
  \A u \in LocalUnits : unitAt[u] = "inferring" => configured[UnitModel[u]]
ModelInv == Mdl!TypeOK /\ OneThreadPerModel /\ GateKept /\ InferringIsConfigured

LEMMA ModelConstants ==
  ASSUME ServicesAssumption
  PROVE  /\ Models # {} /\ Threads \cap LocalUnits = {} /\ Mdl!Nobody \notin Threads \cup LocalUnits
         /\ UnitModel \in [LocalUnits -> Models] /\ Preinstalled \subseteq Models /\ MaxRestarts \in Nat
  BY DEF ServicesAssumption, Mdl!LocalModelsAssumption, Mdl!Nobody

LEMMA ModelInit == ServicesAssumption /\ Mdl!Init => ModelInv
<1> SUFFICES ASSUME ServicesAssumption, Mdl!Init PROVE ModelInv
  OBVIOUS
<1>1. Mdl!TypeOK
  <2>1. (CHOOSE m \in Models : TRUE) \in Models
    BY ModelConstants
  <2> QED BY <2>1, ModelConstants DEF Mdl!Init, Mdl!TypeOK, Mdl!Idle, Mdl!Nobody, Mdl!Holders
<1>2. OneThreadPerModel /\ GateKept /\ InferringIsConfigured
  BY DEF Mdl!Init, OneThreadPerModel, AtWork, GateKept, InGate, InferringIsConfigured, Mdl!Idle
<1> QED BY <1>1, <1>2 DEF ModelInv

LEMMA ModelTypeStep ==
  ASSUME ServicesAssumption, Mdl!TypeOK, Mdl!Next \/ UNCHANGED modelVars
  PROVE  Mdl!TypeOK'
<1> USE ModelConstants DEF Mdl!TypeOK, Mdl!Idle, Mdl!Nobody, Mdl!Holders
<1>1. ASSUME NEW p \in Threads, Mdl!PrepThread(p) PROVE Mdl!TypeOK'
  <2>1. CASE Mdl!TakeCacheLock(p)
    BY <2>1 DEF Mdl!TakeCacheLock, Mdl!PrepStep, Mdl!gateVars, Mdl!runnerVars
  <2>2. CASE Mdl!Download(p)
    BY <2>2 DEF Mdl!Download, Mdl!PrepStep, Mdl!gateVars, Mdl!runnerVars
  <2>3. CASE Mdl!Load(p)
    BY <2>3 DEF Mdl!Load, Mdl!PrepStep, Mdl!gateVars, Mdl!runnerVars
  <2>4. CASE Mdl!AskForGate(p)
    BY <2>4 DEF Mdl!AskForGate, Mdl!PrepStep, Mdl!QueueAtGate, Mdl!runnerVars
  <2>5. CASE Mdl!PrepEnters(p)
    BY <2>5 DEF Mdl!PrepEnters, Mdl!PrepStep, Mdl!EnterExclusive, Mdl!runnerVars
  <2>6. CASE Mdl!Configure(p)
    BY <2>6 DEF Mdl!Configure, Mdl!PrepStep, Mdl!WithGpu, Mdl!LeaveGate
  <2>7. CASE Mdl!PrepReady(p)
    BY <2>7 DEF Mdl!PrepReady, Mdl!PrepStep, Mdl!gateVars, Mdl!runnerVars
  <2>8. CASE Mdl!PrepFails(p)
    BY <2>8 DEF Mdl!PrepFails, Mdl!PrepStep, Mdl!LeaveGate, Mdl!runnerVars
  <2> QED BY <1>1, <2>1, <2>2, <2>3, <2>4, <2>5, <2>6, <2>7, <2>8 DEF Mdl!PrepThread
<1>2. ASSUME NEW u \in LocalUnits, Mdl!UnitThread(u) PROVE Mdl!TypeOK'
  <2>1. CASE Mdl!Prepare(u)
    BY <2>1 DEF Mdl!Prepare, Mdl!StartThread, Mdl!prepVars, Mdl!gateVars, Mdl!runnerVars
  <2>2. CASE Mdl!Poll(u)
    BY <2>2 DEF Mdl!Poll, Mdl!UnitStep, Mdl!prepVars, Mdl!gateVars, Mdl!runnerVars
  <2>3. CASE Mdl!PollTimesOut(u)
    BY <2>3 DEF Mdl!PollTimesOut, Mdl!UnitStep, Mdl!prepVars, Mdl!gateVars, Mdl!runnerVars
  <2>4. CASE Mdl!AskToInfer(u)
    BY <2>4 DEF Mdl!AskToInfer, Mdl!UnitStep, Mdl!QueueAtGate, Mdl!prepVars, Mdl!gateVars, Mdl!runnerVars
  <2>5. CASE Mdl!UnitEnters(u)
    BY <2>5 DEF Mdl!UnitEnters, Mdl!UnitStep, Mdl!EnterShared, Mdl!EnterExclusive, Mdl!prepVars, Mdl!runnerVars
  <2>6. CASE Mdl!Infer(u)
    BY <2>6 DEF Mdl!Infer, Mdl!UnitStep, Mdl!WithGpu, Mdl!LeaveGate, Mdl!prepVars, Mdl!gateVars
  <2>7. CASE Mdl!Inferred(u)
    BY <2>7 DEF Mdl!Inferred, Mdl!UnitStep, Mdl!LeaveGate, Mdl!prepVars, Mdl!runnerVars
  <2> QED BY <1>2, <2>1, <2>2, <2>3, <2>4, <2>5, <2>6, <2>7 DEF Mdl!UnitThread
<1>3. ASSUME NEW m \in Models, Mdl!IdleEviction(m) PROVE Mdl!TypeOK'
  BY <1>3 DEF Mdl!IdleEviction, Mdl!prepVars, Mdl!gateVars
<1>4. CASE Mdl!Restart
  BY <1>4 DEF Mdl!Restart, Mdl!runnerVars
<1>5. CASE UNCHANGED modelVars
  BY <1>5 DEF modelVars
<1> QED BY <1>1, <1>2, <1>3, <1>4, <1>5 DEF Mdl!Next

\* A thread of another model is not disturbed by what p does.
LEMMA ModelThreadStep ==
  ASSUME ServicesAssumption, Mdl!TypeOK, OneThreadPerModel, Mdl!Next \/ UNCHANGED modelVars
  PROVE  OneThreadPerModel'
<1> USE DEF OneThreadPerModel, Mdl!TypeOK, Mdl!Idle, AtWork
<1>1. ASSUME NEW p \in Threads, Mdl!PrepThread(p) PROVE OneThreadPerModel'
  <2>1. CASE Mdl!TakeCacheLock(p)
    BY <2>1 DEF Mdl!TakeCacheLock, Mdl!PrepStep
  <2>2. CASE Mdl!Download(p)
    BY <2>2 DEF Mdl!Download, Mdl!PrepStep
  <2>3. CASE Mdl!Load(p)
    BY <2>3 DEF Mdl!Load, Mdl!PrepStep
  <2>4. CASE Mdl!AskForGate(p)
    BY <2>4 DEF Mdl!AskForGate, Mdl!PrepStep
  <2>5. CASE Mdl!PrepEnters(p)
    BY <2>5 DEF Mdl!PrepEnters, Mdl!PrepStep
  <2>6. CASE Mdl!Configure(p)
    BY <2>6 DEF Mdl!Configure, Mdl!PrepStep
  <2>7. CASE Mdl!PrepReady(p)
    BY <2>7 DEF Mdl!PrepReady, Mdl!PrepStep
  <2>8. CASE Mdl!PrepFails(p)
    BY <2>8 DEF Mdl!PrepFails, Mdl!PrepStep
  <2> QED BY <1>1, <2>1, <2>2, <2>3, <2>4, <2>5, <2>6, <2>7, <2>8 DEF Mdl!PrepThread
<1>2. ASSUME NEW u \in LocalUnits, Mdl!UnitThread(u) PROVE OneThreadPerModel'
  <2>1. CASE UNCHANGED <<status, preparing, prepares>>
    BY <2>1
  <2>2. CASE Mdl!Prepare(u) /\ ~UNCHANGED <<status, preparing, prepares>>
    <3> DEFINE m == UnitModel[u]
    <3>1. m \in Models /\ ~Mdl!PreparesAlready(m) /\ Mdl!StartThread(m)
      BY <2>2, ModelConstants DEF Mdl!Prepare, Mdl!prepVars
    <3> HIDE DEF m
    <3>2. PICK p \in Threads :
            /\ preparing[p] = Mdl!Idle
            /\ preparing' = [preparing EXCEPT ![p] = "start"]
            /\ prepares' = [prepares EXCEPT ![p] = m]
            /\ status' = [status EXCEPT ![m] = "downloading"]
      BY <3>1 DEF Mdl!StartThread
    <3>3. \A q \in Threads : preparing[q] # Mdl!Idle => preparing[q] \in AtWork /\ prepares[q] # m
      BY <3>1 DEF Mdl!PreparesAlready
    <3>4. \A q \in Threads : preparing'[q] # Mdl!Idle => IF q = p THEN prepares'[q] = m ELSE prepares'[q] = prepares[q] /\ prepares[q] # m /\ preparing[q] # Mdl!Idle
      BY <3>2, <3>3
    <3>5. \A q \in Threads : preparing'[q] \in AtWork => status'[prepares'[q]] \in {"downloading", "loading"}
      BY <3>1, <3>2, <3>3, <3>4
    <3>6. \A q, r \in Threads : q # r /\ preparing'[q] # Mdl!Idle /\ preparing'[r] # Mdl!Idle => prepares'[q] # prepares'[r]
      BY <3>4
    <3> QED BY <3>5, <3>6
  <2>3. Mdl!Prepare(u) \/ UNCHANGED <<status, preparing, prepares>>
    BY <1>2 DEF Mdl!UnitThread, Mdl!Poll, Mdl!PollTimesOut, Mdl!AskToInfer, Mdl!UnitEnters, Mdl!Infer, Mdl!Inferred,
                Mdl!UnitStep, Mdl!prepVars
  <2> QED BY <2>1, <2>2, <2>3
<1>3. ASSUME NEW m \in Models, Mdl!IdleEviction(m) PROVE OneThreadPerModel'
  BY <1>3 DEF Mdl!IdleEviction, Mdl!prepVars
<1>4. CASE Mdl!Restart
  BY <1>4 DEF Mdl!Restart
<1>5. CASE UNCHANGED modelVars
  BY <1>5 DEF modelVars
<1> QED BY <1>1, <1>2, <1>3, <1>4, <1>5 DEF Mdl!Next

\* Whoever enters finds no one of the other kind, and no step takes the
\* configuration of a model away while a unit infers with it.
LEMMA ModelGateStep ==
  ASSUME ServicesAssumption, Mdl!TypeOK, GateKept, InferringIsConfigured, Mdl!Next \/ UNCHANGED modelVars
  PROVE  GateKept' /\ InferringIsConfigured'
<1> USE ModelConstants DEF GateKept, InferringIsConfigured, InGate, Mdl!TypeOK, Mdl!Idle, Mdl!Shared
<1>1. ASSUME NEW p \in Threads, Mdl!PrepThread(p) PROVE GateKept' /\ InferringIsConfigured'
  <2>1. CASE Mdl!TakeCacheLock(p)
    BY <2>1 DEF Mdl!TakeCacheLock, Mdl!PrepStep, Mdl!gateVars, Mdl!runnerVars
  <2>2. CASE Mdl!Download(p)
    BY <2>2 DEF Mdl!Download, Mdl!PrepStep, Mdl!gateVars, Mdl!runnerVars
  <2>3. CASE Mdl!Load(p)
    BY <2>3 DEF Mdl!Load, Mdl!PrepStep, Mdl!gateVars, Mdl!runnerVars
  <2>4. CASE Mdl!AskForGate(p)
    BY <2>4 DEF Mdl!AskForGate, Mdl!PrepStep, Mdl!QueueAtGate, Mdl!runnerVars
  <2>5. CASE Mdl!PrepEnters(p)
    BY <2>5 DEF Mdl!PrepEnters, Mdl!PrepStep, Mdl!EnterExclusive, Mdl!NobodyInside, Mdl!runnerVars
  <2>6. CASE Mdl!Configure(p)
    <3>1. writing = p /\ readers = {}
      BY <2>6 DEF Mdl!Configure, Mdl!PrepStep
    <3>2. \A u \in LocalUnits : ~InGate(u)
      BY <3>1
    <3>3. \A q \in Threads : preparing'[q] # "inside"
      BY <2>6, <3>1 DEF Mdl!Configure, Mdl!PrepStep
    <3>4. writing' = Mdl!Nobody /\ readers' = {} /\ unitAt' = unitAt
      BY <2>6, <3>1 DEF Mdl!Configure, Mdl!LeaveGate, Mdl!PrepStep
    <3> QED BY <3>2, <3>3, <3>4
  <2>7. CASE Mdl!PrepReady(p)
    BY <2>7 DEF Mdl!PrepReady, Mdl!PrepStep, Mdl!gateVars, Mdl!runnerVars
  <2>8. CASE Mdl!PrepFails(p)
    <3>1. /\ \A q \in Threads : preparing'[q] = IF q = p THEN Mdl!Idle ELSE preparing[q]
          /\ unitAt' = unitAt /\ configured' = configured
          /\ writing' = IF writing = p THEN Mdl!Nobody ELSE writing
          /\ readers' = readers \ {p}
      BY <2>8 DEF Mdl!PrepFails, Mdl!PrepStep, Mdl!LeaveGate, Mdl!runnerVars
    <3>2. readers' = readers /\ \A u \in LocalUnits : u # p
      BY <3>1
    <3> QED BY <3>1, <3>2
  <2> QED BY <1>1, <2>1, <2>2, <2>3, <2>4, <2>5, <2>6, <2>7, <2>8 DEF Mdl!PrepThread
<1>2. ASSUME NEW u \in LocalUnits, Mdl!UnitThread(u) PROVE GateKept' /\ InferringIsConfigured'
  <2>1. CASE Mdl!Prepare(u)
    <3>1. /\ UNCHANGED <<writing, readers, configured>>
          /\ \A q \in Threads : preparing'[q] = "inside" => preparing[q] = "inside"
          /\ \A v \in LocalUnits : unitAt'[v] = IF v = u THEN unitAt'[u] ELSE unitAt[v]
          /\ ~InGate(u)' 
      BY <2>1 DEF Mdl!Prepare, Mdl!StartThread, Mdl!prepVars, Mdl!gateVars, Mdl!runnerVars
    <3> QED BY <3>1
  <2>2. CASE Mdl!Poll(u)
    BY <2>2 DEF Mdl!Poll, Mdl!UnitStep, Mdl!prepVars, Mdl!gateVars, Mdl!runnerVars
  <2>3. CASE Mdl!PollTimesOut(u)
    BY <2>3 DEF Mdl!PollTimesOut, Mdl!UnitStep, Mdl!prepVars, Mdl!gateVars, Mdl!runnerVars
  <2>4. CASE Mdl!AskToInfer(u)
    BY <2>4 DEF Mdl!AskToInfer, Mdl!UnitStep, Mdl!QueueAtGate, Mdl!prepVars, Mdl!gateVars, Mdl!runnerVars
  <2>5. CASE Mdl!UnitEnters(u)
    <3>1. /\ unitAt' = [unitAt EXCEPT ![u] = "inside"] /\ unitAt[u] = "gate"
          /\ UNCHANGED <<preparing, configured>>
      BY <2>5 DEF Mdl!UnitEnters, Mdl!UnitStep, Mdl!prepVars, Mdl!runnerVars
    <3>2. CASE Mdl!Shared(UnitModel[u])
      <4>1. writing = Mdl!Nobody /\ writing' = writing /\ readers' = readers \cup {u}
        BY <2>5, <3>2 DEF Mdl!UnitEnters, Mdl!EnterShared
      <4> QED BY <3>1, <3>2, <4>1
    <3>3. CASE ~Mdl!Shared(UnitModel[u])
      <4>1. writing = Mdl!Nobody /\ writing' = u /\ readers = {} /\ readers' = {}
        BY <2>5, <3>3 DEF Mdl!UnitEnters, Mdl!EnterExclusive, Mdl!NobodyInside
      <4>2. (\A v \in LocalUnits : ~InGate(v)) /\ (\A p \in Threads : preparing[p] # "inside")
        BY <4>1
      <4> QED BY <3>1, <3>3, <4>1, <4>2
    <3> QED BY <3>2, <3>3
  <2>6. CASE Mdl!Infer(u)
    <3> DEFINE m == UnitModel[u]
    <3>1. PICK refused \in BOOLEAN :
            /\ refused => Mdl!MayBeRefused(m)
            /\ configured' = IF refused THEN configured ELSE Mdl!WithGpu(m)
            /\ IF refused \/ ~configured[m]
                 THEN Mdl!UnitStep(u, "inside", "ended") /\ Mdl!LeaveGate(u)
                 ELSE Mdl!UnitStep(u, "inside", "inferring") /\ UNCHANGED <<writing, readers, writersWaiting>>
      <4>1. PICK refused \in {FALSE, Mdl!MayBeRefused(m)} :
              /\ configured' = IF refused THEN configured ELSE Mdl!WithGpu(m)
              /\ IF refused \/ ~configured[m]
                   THEN Mdl!UnitStep(u, "inside", "ended") /\ Mdl!LeaveGate(u)
                   ELSE Mdl!UnitStep(u, "inside", "inferring") /\ UNCHANGED <<writing, readers, writersWaiting>>
        BY <2>6 DEF Mdl!Infer, Mdl!gateVars
      <4>2. refused \in BOOLEAN /\ (refused => Mdl!MayBeRefused(m))
        BY DEF Mdl!MayBeRefused
      <4> QED BY <4>1, <4>2
    <3>2. /\ unitAt[u] = "inside" /\ preparing' = preparing
          /\ \E to \in {"ended", "inferring"} : unitAt' = [unitAt EXCEPT ![u] = to]
      BY <3>1 DEF Mdl!UnitStep, Mdl!prepVars
    <3>3. ASSUME NEW v \in LocalUnits, v # u, unitAt[v] = "inferring" PROVE configured'[UnitModel[v]]
      <4>1. Mdl!Shared(m) /\ Mdl!Shared(UnitModel[v])
        BY <3>2, <3>3
      <4>2. UnitModel[v] \notin Mdl!Evicted(m) /\ configured[UnitModel[v]] /\ UnitModel[v] \in Models
        BY <3>3, <4>1 DEF Mdl!Evicted
      <4> QED BY <3>1, <4>2 DEF Mdl!WithGpu
    <3>4. CASE refused \/ ~configured[m]
      <4>1. /\ unitAt' = [unitAt EXCEPT ![u] = "ended"]
            /\ writing' = IF writing = u THEN Mdl!Nobody ELSE writing
            /\ readers' = readers \ {u}
        BY <3>1, <3>4 DEF Mdl!UnitStep, Mdl!LeaveGate
      <4>2. InferringIsConfigured'
        BY <3>3, <4>1
      <4>3. GateKept'
        <5>1. \A p \in Threads : p # u
          OBVIOUS
        <5> QED BY <3>2, <4>1, <5>1
      <4> QED BY <4>2, <4>3
    <3>5. CASE ~(refused \/ ~configured[m])
      <4>1. unitAt' = [unitAt EXCEPT ![u] = "inferring"] /\ UNCHANGED <<writing, readers>>
        BY <3>1, <3>5 DEF Mdl!UnitStep
      <4>2. configured'[m]
        BY <3>1, <3>5 DEF Mdl!WithGpu, Mdl!Evicted
      <4>3. InferringIsConfigured'
        BY <3>3, <4>1, <4>2
      <4>4. GateKept'
        BY <3>2, <4>1
      <4> QED BY <4>3, <4>4
    <3> QED BY <3>4, <3>5
  <2>7. CASE Mdl!Inferred(u)
    <3>1. /\ unitAt' = [unitAt EXCEPT ![u] = "ended"] /\ UNCHANGED <<preparing, configured>>
          /\ writing' = IF writing = u THEN Mdl!Nobody ELSE writing
          /\ readers' = readers \ {u} /\ \A p \in Threads : p # u
      BY <2>7 DEF Mdl!Inferred, Mdl!UnitStep, Mdl!LeaveGate, Mdl!prepVars, Mdl!runnerVars
    <3> QED BY <3>1
  <2> QED BY <1>2, <2>1, <2>2, <2>3, <2>4, <2>5, <2>6, <2>7 DEF Mdl!UnitThread
<1>3. ASSUME NEW m \in Models, Mdl!IdleEviction(m) PROVE GateKept' /\ InferringIsConfigured'
  BY <1>3 DEF Mdl!IdleEviction, Mdl!InUse, Mdl!prepVars, Mdl!gateVars
<1>4. CASE Mdl!Restart
  BY <1>4 DEF Mdl!Restart, Mdl!runnerVars
<1>5. CASE UNCHANGED modelVars
  BY <1>5 DEF modelVars
<1> QED BY <1>1, <1>2, <1>3, <1>4, <1>5 DEF Mdl!Next

(* Inference is undisturbed (local_models/service.py): for any models,     *)
(* units and preparation threads, no two threads prepare one model, and    *)
(* while a unit infers its model stays configured, no thread reconfigures  *)
(* the runner, and another unit infers only if both models can be shared.  *)
(* That every unit leaves the service is checked by TLC.                   *)
THEOREM InferenceIsUndisturbed == Spec => [](Mdl!TypeOK /\ Mdl!InferenceUndisturbed)
<1>1. Init => ModelInv
  BY ModelInit, ServicesAssumption DEF Init
<1>2. ModelInv /\ [Next]_vars => ModelInv'
  <2> SUFFICES ASSUME ModelInv, [Next]_vars PROVE ModelInv'
    OBVIOUS
  <2>1. Mdl!Next \/ UNCHANGED modelVars
    BY DEF Next, vars
  <2> QED BY <2>1, ModelTypeStep, ModelThreadStep, ModelGateStep, ServicesAssumption DEF ModelInv
<1>3. ModelInv => Mdl!TypeOK /\ Mdl!InferenceUndisturbed
  <2> SUFFICES ASSUME ModelInv PROVE Mdl!InferenceUndisturbed
    BY DEF ModelInv
  <2>1. OneThreadPerModel /\ GateKept /\ InferringIsConfigured
    BY DEF ModelInv
  <2>2. ASSUME NEW u \in LocalUnits, unitAt[u] = "inferring", NEW p \in Threads PROVE preparing[p] # "inside"
    BY <2>1, <2>2, ModelConstants, ServicesAssumption DEF GateKept, InGate
  <2>3. ASSUME NEW u \in LocalUnits, unitAt[u] = "inferring", NEW v \in LocalUnits \ {u}, unitAt[v] = "inferring"
        PROVE  Mdl!Shared(UnitModel[u]) /\ Mdl!Shared(UnitModel[v])
    BY <2>1, <2>3, ModelConstants, ServicesAssumption DEF GateKept, InGate
  <2> QED BY <2>1, <2>2, <2>3 DEF Mdl!InferenceUndisturbed, OneThreadPerModel, InferringIsConfigured
<1> QED BY <1>1, <1>2, <1>3, PTL DEF Spec
================================================================================
