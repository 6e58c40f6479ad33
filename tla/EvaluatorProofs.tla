-------------------------- MODULE EvaluatorProofs --------------------------
(***************************************************************************)
(* Proofs about Evaluator for every set of valid rules, every number of    *)
(* them and every context.                                                 *)
(***************************************************************************)
EXTENDS Evaluator, FiniteSetTheorems, TLAPS

\* The input as it arrived; it never changes.
InputInv ==
    /\ Len(given) \in Nat /\ DOMAIN given = 1 .. Len(given)
    /\ \A k \in DOMAIN given : given[k].priority \in Int

\* After the sort every rule is somewhere in the order.
SortInv ==
    IF i = 0 THEN sorted = <<>>
    ELSE /\ state = "enabled"
         /\ Len(sorted) = Len(given) /\ DOMAIN sorted = 1 .. Len(given)
         /\ \A n \in DOMAIN sorted : sorted[n] \in DOMAIN given
         /\ \A k \in DOMAIN given : \E n \in DOMAIN sorted : sorted[n] = k
         /\ AscendingPriority(sorted)

\* The loop has passed only rules that do not apply, and a result says where it
\* was found.
LoopInv ==
    /\ i \in 0 .. Len(given) + 1
    /\ i # 0 => \A n \in DOMAIN sorted : n < i => sorted[n] \notin Applicable
    /\ \/ result = NoResult
       \/ result.reason = "disabled" /\ state # "enabled" /\ i = 0
       \/ result.reason = "default" /\ i = Len(given) + 1
       \/ /\ result.reason = "rule_match" /\ i \in 1 .. Len(given)
          /\ result.rule = sorted[i] /\ sorted[i] \in Applicable

EvalInv == InputInv /\ SortInv /\ LoopInv

\* A rule fires in the loop exactly if it applies.
LEMMA FiresIfApplicable ==
    ASSUME NEW k \in DOMAIN given
    PROVE  Fires(given[k]) <=> k \in Applicable
BY DEF Fires, Applicable

\* The rules are a sequence of rules from RuleSet.
LEMMA RulesTyped ==
    ASSUME StoredRulesAreValid, given \in BoundedSeq(RuleSet, MaxRules)
    PROVE  InputInv
<1>1. PICK m \in 0 .. MaxRules : given \in [1 .. m -> RuleSet]
  BY DEF BoundedSeq, SeqOf
<1>2. m \in Nat
  BY <1>1 DEF StoredRulesAreValid
<1>3. given \in Seq(RuleSet) /\ Len(given) = m /\ DOMAIN given = 1 .. m
  BY <1>1, <1>2
<1>4. QED
  BY <1>1, <1>2, <1>3 DEF InputInv, StoredRulesAreValid

\* An ordering of the rules without repetitions names every rule: this is what
\* sort.Slice, which only swaps, returns.
LEMMA OrderingIsTotal ==
    ASSUME NEW L \in Nat, NEW p \in SetToSeqs(1 .. L)
    PROVE  /\ DOMAIN p = 1 .. L /\ Len(p) = L
           /\ \A n \in 1 .. L : p[n] \in 1 .. L
           /\ \A k \in 1 .. L : \E n \in 1 .. L : p[n] = k
<1>1. IsFiniteSet(1 .. L) /\ Cardinality(1 .. L) = L
  BY FS_Interval
<1>2. p \in [1 .. L -> 1 .. L] /\ \A m, n \in 1 .. L : m # n => p[m] # p[n]
  BY <1>1 DEF SetToSeqs
<1>3. p \in Injection(1 .. L, 1 .. L)
  BY <1>2 DEF Injection, IsInjective
<1>4. p \in Surjection(1 .. L, 1 .. L)
  BY <1>1, <1>3, FS_Injection
<1>5. \A k \in 1 .. L : \E n \in 1 .. L : p[n] = k
  BY <1>4 DEF Surjection
<1>6. DOMAIN p = 1 .. L /\ Len(p) = L
  BY <1>2
<1>7. QED
  BY <1>2, <1>5, <1>6

\* The loop's result is right for every input, although rules of equal priority
\* may be tried in any order.
THEOREM EvaluateIsRight ==
    ASSUME StoredRulesAreValid
    PROVE  EvalSpec => []LeastPriorityWins
<1>1. EvalInit => EvalInv
  <2> SUFFICES ASSUME EvalInit PROVE EvalInv
    OBVIOUS
  <2>1. InputInv
    BY RulesTyped DEF EvalInit
  <2>2. QED
    BY <2>1 DEF EvalInit, EvalInv, InputInv, SortInv, LoopInv
<1>2. EvalInv /\ [EvalNext]_evalVars => EvalInv'
  <2> SUFFICES ASSUME EvalInv, [EvalNext]_evalVars PROVE EvalInv'
    OBVIOUS
  <2>0. UNCHANGED input
    BY DEF EvalNext, evalVars, EvaluateDisabled, SortRules, TryRule, NoRuleFires
  <2>1. UNCHANGED <<given, state, ctx>> /\ Applicable' = Applicable /\ Len(given) \in Nat
    BY <2>0 DEF input, Applicable, EvalInv, InputInv
  <2>2. InputInv'
    BY <2>1 DEF EvalInv, InputInv
  <2>3. CASE EvaluateDisabled
    <3>1. UNCHANGED <<sorted, i>> /\ i = 0 /\ state # "enabled" /\ result'.reason = "disabled"
      BY <2>3 DEF EvaluateDisabled
    <3>2. QED
      BY <2>1, <2>2, <3>1 DEF EvalInv, SortInv, LoopInv
  <2>4. CASE SortRules
    <3>1. /\ i = 0 /\ i' = 1 /\ state = "enabled" /\ result' = result
          /\ sorted' \in SetToSeqs(DOMAIN given) /\ AscendingPriority(sorted')
      BY <2>4 DEF SortRules
    <3>2. DOMAIN given = 1 .. Len(given)
      BY DEF EvalInv, InputInv
    <3>3. /\ DOMAIN sorted' = 1 .. Len(given) /\ Len(sorted') = Len(given)
          /\ \A n \in 1 .. Len(given) : sorted'[n] \in 1 .. Len(given)
          /\ \A k \in 1 .. Len(given) : \E n \in 1 .. Len(given) : sorted'[n] = k
      BY <2>1, <3>1, <3>2, OrderingIsTotal
    <3>4. SortInv'
      BY <2>1, <3>1, <3>2, <3>3 DEF SortInv, AscendingPriority
    <3>5. result = NoResult
      BY <2>1, <3>1 DEF EvalInv, LoopInv
    <3>6. LoopInv'
      BY <2>1, <3>1, <3>3, <3>5 DEF LoopInv, NoResult
    <3>7. QED
      BY <2>2, <3>4, <3>6 DEF EvalInv
  <2>5. CASE TryRule
    <3>1. /\ sorted' = sorted /\ i \in DOMAIN sorted /\ result = NoResult
          /\ \/ Fires(given[sorted[i]]) /\ i' = i /\ result'.reason = "rule_match"
                /\ result'.rule = sorted[i]
             \/ ~Fires(given[sorted[i]]) /\ i' = i + 1 /\ result' = result
      BY <2>5 DEF TryRule, InLoop
    <3>2. i # 0 /\ i \in 1 .. Len(given)
      <4>1. DOMAIN <<>> = {}
        OBVIOUS
      <4>2. i # 0
        BY <3>1, <4>1 DEF EvalInv, SortInv
      <4>3. QED
        BY <3>1, <4>2 DEF EvalInv, SortInv
    <3>3. sorted[i] \in DOMAIN given
      BY <3>1, <3>2 DEF EvalInv, SortInv
    <3>4. Fires(given[sorted[i]]) <=> sorted[i] \in Applicable
      BY <3>3, FiresIfApplicable
    <3>5. i' # 0 /\ i' \in 0 .. Len(given) + 1 /\ (i' = i \/ i' = i + 1)
      BY <2>1, <3>1, <3>2
    <3>6. SortInv'
      BY <2>1, <3>1, <3>2, <3>5 DEF EvalInv, SortInv, AscendingPriority
    <3>7. \A n \in DOMAIN sorted : n < i' => sorted[n] \notin Applicable
      <4> SUFFICES ASSUME NEW n \in DOMAIN sorted, n < i', n >= i PROVE sorted[n] \notin Applicable
        <5>1. \A n \in DOMAIN sorted : n < i => sorted[n] \notin Applicable
          BY <3>2 DEF EvalInv, LoopInv
        <5>2. \A n \in DOMAIN sorted : n \in Int
          BY <3>2 DEF EvalInv, SortInv
        <5>3. QED
          BY <3>2, <5>1, <5>2
      <4>1. n \in Int
        BY <3>2 DEF EvalInv, SortInv
      <4>2. n = i /\ i' = i + 1
        BY <3>2, <3>5, <4>1
      <4>3. i' # i
        BY <3>2, <4>2
      <4>4. QED
        BY <3>1, <3>4, <4>2, <4>3
    <3>8. LoopInv'
      BY <2>1, <3>1, <3>2, <3>4, <3>5, <3>7 DEF LoopInv
    <3>9. QED
      BY <2>2, <3>6, <3>8 DEF EvalInv
  <2>6. CASE NoRuleFires
    <3>1. UNCHANGED <<sorted, i>> /\ i = Len(sorted) + 1 /\ result'.reason = "default"
      BY <2>6 DEF NoRuleFires
    <3>2. i # 0 /\ i = Len(given) + 1
      BY <2>1, <3>1 DEF EvalInv, SortInv
    <3>3. SortInv'
      BY <2>1, <3>1, <3>2 DEF EvalInv, SortInv, AscendingPriority
    <3>4. LoopInv'
      BY <2>1, <3>1, <3>2 DEF EvalInv, LoopInv
    <3>5. QED
      BY <2>2, <3>3, <3>4 DEF EvalInv
  <2>7. CASE UNCHANGED evalVars
    BY <2>1, <2>2, <2>7 DEF evalVars, EvalInv, SortInv, LoopInv, AscendingPriority
  <2>8. QED
    BY <2>3, <2>4, <2>5, <2>6, <2>7 DEF EvalNext
<1>3. EvalInv => LeastPriorityWins
  <2> SUFFICES ASSUME EvalInv, result # NoResult
               PROVE  /\ (result.reason = "disabled") <=> (state # "enabled")
                      /\ (result.reason = "default") <=> (state = "enabled" /\ Applicable = {})
                      /\ result.reason = "rule_match" => result.rule \in Winners
    BY DEF LeastPriorityWins
  <2>1. Len(given) \in Nat /\ DOMAIN given = 1 .. Len(given) /\ Applicable \subseteq DOMAIN given
    BY DEF EvalInv, InputInv, Applicable
  <2>2. CASE i = 0
    BY <2>1, <2>2 DEF EvalInv, LoopInv
  <2>3. CASE i # 0
    <3>1. /\ state = "enabled" /\ DOMAIN sorted = 1 .. Len(given)
          /\ \A k \in DOMAIN given : \E n \in DOMAIN sorted : sorted[n] = k
          /\ AscendingPriority(sorted)
      BY <2>3 DEF EvalInv, SortInv
    <3>2. \A n \in DOMAIN sorted : n < i => sorted[n] \notin Applicable
      BY <2>3 DEF EvalInv, LoopInv
    <3>3. CASE result.reason = "default" /\ i = Len(given) + 1
      <4>1. \A n \in DOMAIN sorted : n < i
        BY <2>1, <3>1, <3>3
      <4>2. Applicable = {}
        BY <2>1, <3>1, <3>2, <4>1
      <4>3. QED
        BY <3>1, <3>3, <4>2
    <3>4. CASE /\ result.reason = "rule_match" /\ i \in 1 .. Len(given)
               /\ result.rule = sorted[i] /\ sorted[i] \in Applicable
      <4>1. ASSUME NEW m \in Applicable PROVE given[sorted[i]].priority <= given[m].priority
        <5>1. PICK n \in DOMAIN sorted : sorted[n] = m
          BY <2>1, <3>1
        <5>2. ~(n < i)
          BY <3>2, <5>1
        <5>3. n = i \/ i < n
          BY <2>1, <3>1, <3>4, <5>2
        <5>4. given[m].priority \in Int
          BY <2>1 DEF EvalInv, InputInv
        <5>5. given[m].priority <= given[m].priority
          BY <5>4
        <5>6. QED
          BY <3>1, <3>4, <5>1, <5>3, <5>5 DEF AscendingPriority
      <4>2. result.rule \in Winners
        BY <3>4, <4>1 DEF Winners
      <4>3. QED
        BY <3>1, <3>4, <4>2
    <3>5. QED
      BY <2>3, <3>1, <3>3, <3>4 DEF EvalInv, LoopInv
  <2>4. QED
    BY <2>2, <2>3
<1>4. QED
  BY <1>1, <1>2, <1>3, PTL DEF EvalSpec
-----------------------------------------------------------------------------
(***************************************************************************)
(* Rollouts. The units of the weights are laid out one after the other: the *)
(* u-th unit of entry n is bucket Cumulative(n - 1) + u - 1. This places    *)
(* the 100 units on the 100 buckets one to one, and a bucket resolves to    *)
(* the entry its unit belongs to.                                           *)
(***************************************************************************)

\* The units at some places are finitely many.
LEMMA UnitsAreFinite ==
    ASSUME NEW entries, NEW P, IsFiniteSet(P), \A n \in P : entries[n].weight \in Percentages
    PROVE  IsFiniteSet(Units(entries, P)) /\ Weight(entries, P) \in Nat
<1>1. IsFiniteSet(1 .. 100)
  <2>1. 1 \in Int /\ 100 \in Int
    OBVIOUS
  <2>2. QED
    BY ONLY <2>1, FS_Interval, Zenon
<1>2. IsFiniteSet(P \X (1 .. 100))
  BY <1>1, FS_Product
<1>3. Units(entries, P) \in SUBSET (P \X (1 .. 100))
  BY DEF Units, Percentages
<1>4. IsFiniteSet(Units(entries, P))
  BY <1>2, <1>3, FS_Subset
<1>5. QED
  BY <1>4, FS_CardinalityType DEF Weight

\* Weights of different places add up.
LEMMA WeightAdds ==
    ASSUME NEW entries, NEW P, NEW Q, IsFiniteSet(P), IsFiniteSet(Q), P \cap Q = {},
           \A n \in P \cup Q : entries[n].weight \in Percentages
    PROVE  Weight(entries, P \cup Q) = Weight(entries, P) + Weight(entries, Q)
<1>1. IsFiniteSet(Units(entries, P)) /\ IsFiniteSet(Units(entries, Q))
  BY UnitsAreFinite
<1>2. Units(entries, P \cup Q) = Units(entries, P) \cup Units(entries, Q)
  BY DEF Units
<1>3. Units(entries, P) \cap Units(entries, Q) = {}
  BY DEF Units
<1>4. Weight(entries, P) \in Nat /\ Weight(entries, Q) \in Nat
  BY UnitsAreFinite
<1> DEFINE S == Units(entries, P)
           T == Units(entries, Q)
<1> HIDE DEF S, T
<1>5. Cardinality(S \cup T) = Cardinality(S) + Cardinality(T) - Cardinality(S \cap T)
  BY <1>1, FS_Union DEF S, T
<1>6. Cardinality(S \cap T) = 0
  BY <1>3, FS_EmptySet DEF S, T
<1>7. Cardinality(S) \in Nat /\ Cardinality(T) \in Nat
  BY <1>4 DEF Weight, S, T
<1>8. Cardinality(S \cup T) = Cardinality(S) + Cardinality(T)
  BY <1>5, <1>6, <1>7
<1>9. QED
  BY <1>2, <1>8 DEF Weight, S, T

\* The weight of one place is that of its entry.
LEMMA WeightOfOne ==
    ASSUME NEW entries, NEW n, entries[n].weight \in Percentages
    PROVE  Weight(entries, {n}) = entries[n].weight
<1> DEFINE w == entries[n].weight
<1>1. w \in 1 .. 100
  BY DEF Percentages
<1>2. IsFiniteSet(1 .. w) /\ Cardinality(1 .. w) = w
  <2>1. w \in Int /\ 1 \in Int /\ ~(1 > w) /\ w - 1 + 1 = w
    BY <1>1
  <2>2. IsFiniteSet(1 .. w) /\ Cardinality(1 .. w) = IF 1 > w THEN 0 ELSE w - 1 + 1
    BY ONLY <2>1, FS_Interval, Zenon
  <2>3. QED
    BY <2>1, <2>2
<1>3. IsFiniteSet({n}) /\ Cardinality({n}) = 1
  BY FS_Singleton
<1>4. Units(entries, {n}) = {n} \X (1 .. w)
  BY DEF Units
<1> HIDE DEF w
<1>5. Cardinality({n} \X (1 .. w)) = 1 * w
  BY <1>2, <1>3, FS_Product
<1>6. 1 * w = w
  BY <1>1
<1>7. QED
  BY <1>4, <1>5, <1>6 DEF Weight, w

\* A rollout that passed Rule.Validate.
IsRollout(entries) ==
    /\ Len(entries) \in Nat /\ DOMAIN entries = 1 .. Len(entries)
    /\ \A n \in DOMAIN entries : entries[n].weight \in Percentages
    /\ Weight(entries, DOMAIN entries) = 100

\* The cumulative weight starts at 0, grows by the weight of each entry, never
\* falls, and ends at 100.
LEMMA CumulativeGrows ==
    ASSUME NEW entries, IsRollout(entries)
    PROVE  /\ \A n \in 0 .. Len(entries) : Cumulative(entries, n) \in 0 .. 100
           /\ \A n \in 1 .. Len(entries) :
                Cumulative(entries, n) = Cumulative(entries, n - 1) + entries[n].weight
           /\ \A m, n \in 0 .. Len(entries) : m <= n => Cumulative(entries, m) <= Cumulative(entries, n)
<1> DEFINE N == Len(entries)
           C(n) == Cumulative(entries, n)
<1>1. N \in Nat /\ DOMAIN entries = 1 .. N /\ \A n \in 1 .. N : entries[n].weight \in Percentages
  BY DEF IsRollout
<1> HIDE DEF N
<1>2. ASSUME NEW n \in 0 .. N
      PROVE  IsFiniteSet(1 .. n) /\ C(n) \in Nat
  <2>1. IsFiniteSet(1 .. n)
    BY <1>1, FS_Interval
  <2>2. \A k \in 1 .. n : entries[k].weight \in Percentages
    BY <1>1
  <2>3. QED
    BY <2>1, <2>2, UnitsAreFinite DEF Cumulative
<1>3. ASSUME NEW m \in 0 .. N, NEW n \in 0 .. N, m <= n PROVE C(m) <= C(n)
  <2>1. IsFiniteSet(m + 1 .. n)
    BY <1>1, FS_Interval
  <2>2. 1 .. n = (1 .. m) \cup (m + 1 .. n) /\ (1 .. m) \cap (m + 1 .. n) = {}
    BY <1>1, <1>3
  <2>3. \A k \in 1 .. n : entries[k].weight \in Percentages
    BY <1>1
  <2> DEFINE Q == m + 1 .. n
             P == 1 .. m
  <2>4. IsFiniteSet(P) /\ IsFiniteSet(Q) /\ P \cap Q = {} /\ 1 .. n = P \cup Q
    BY <1>2, <2>1, <2>2
  <2>5. C(m) = Weight(entries, P) /\ C(n) = Weight(entries, P \cup Q)
    BY <2>4 DEF Cumulative
  <2> HIDE DEF P, Q, C
  <2>6. \A k \in P \cup Q : entries[k].weight \in Percentages
    BY <2>3, <2>4
  <2>7. Weight(entries, Q) \in Nat
    BY <2>4, <2>6, UnitsAreFinite
  <2>8. C(n) = C(m) + Weight(entries, Q)
    BY <2>4, <2>5, <2>6, WeightAdds
  <2>9. QED
    BY <1>2, <2>7, <2>8
<1>4. ASSUME NEW n \in 1 .. N PROVE C(n) = C(n - 1) + entries[n].weight
  <2> DEFINE P == 1 .. n - 1
  <2>1. 1 .. n = P \cup {n} /\ P \cap {n} = {} /\ n - 1 \in 0 .. N
    BY <1>1
  <2>2. IsFiniteSet(P) /\ IsFiniteSet({n})
    BY <1>2, <2>1, FS_Singleton
  <2>3. \A k \in P \cup {n} : entries[k].weight \in Percentages
    BY <1>1
  <2>4. C(n) = Weight(entries, P \cup {n}) /\ C(n - 1) = Weight(entries, P)
    BY <2>1 DEF Cumulative
  <2> HIDE DEF P, C
  <2>5. C(n) = C(n - 1) + Weight(entries, {n})
    BY <2>1, <2>2, <2>3, <2>4, WeightAdds
  <2>6. QED
    BY <2>3, <2>5, WeightOfOne
<1>5. C(N) = 100
  BY <1>1 DEF Cumulative, IsRollout
<1>6. ASSUME NEW n \in 0 .. N PROVE C(n) \in 0 .. 100
  <2>1. N \in 0 .. N /\ n <= N
    BY <1>1
  <2> HIDE DEF C
  <2>2. C(n) <= C(N) /\ C(n) \in Nat
    BY <1>2, <1>3, <2>1
  <2>3. QED
    BY <1>5, <2>2
<1>7. QED
  BY <1>3, <1>4, <1>6 DEF N

\* The bucket of a unit, and the entry that bucket resolves to.
BucketOf(entries) ==
    [x \in Units(entries, DOMAIN entries) |-> Cumulative(entries, x[1] - 1) + x[2] - 1]

LEMMA BucketsResolve ==
    ASSUME NEW entries, IsRollout(entries), NEW n \in DOMAIN entries,
           NEW u \in 1 .. entries[n].weight
    PROVE  LET b == Cumulative(entries, n - 1) + u - 1
           IN  /\ b \in 0 .. 99
               /\ b < Cumulative(entries, n)
               /\ ResolveRollout(entries, b) = entries[n].variant
<1> DEFINE N == Len(entries)
           b == Cumulative(entries, n - 1) + u - 1
<1>1. /\ N \in Nat /\ DOMAIN entries = 1 .. N /\ n \in 1 .. N /\ n - 1 \in 0 .. N /\ n \in 0 .. N
      /\ entries[n].weight \in 1 .. 100
  BY DEF IsRollout, Percentages
<1>2. /\ Cumulative(entries, n - 1) \in 0 .. 100 /\ Cumulative(entries, n) \in 0 .. 100
      /\ Cumulative(entries, n) = Cumulative(entries, n - 1) + entries[n].weight
  BY <1>1, CumulativeGrows
<1> HIDE DEF b, N
<1>3. /\ b \in 0 .. 99 /\ b \in Int /\ b < Cumulative(entries, n)
      /\ Cumulative(entries, n - 1) <= b
  <2> DEFINE c == Cumulative(entries, n - 1)
             d == Cumulative(entries, n)
             w == entries[n].weight
  <2>0. c \in 0 .. 100 /\ d \in 0 .. 100 /\ w \in 1 .. 100 /\ d = c + w
    BY <1>1, <1>2, Zenon
  <2> HIDE DEF c, d, w
  <2>1. c \in Int /\ d \in Int /\ w \in Int /\ 0 <= c /\ d <= 100 /\ d = c + w
    BY <2>0
  <2>2. u \in Int /\ 1 <= u /\ u <= w
    BY <2>1 DEF w
  <2>3. b = c + u - 1
    BY DEF b, c
  <2>4. b \in Int /\ 0 <= b /\ b <= 99 /\ b < d /\ c <= b
    BY <2>1, <2>2, <2>3
  <2>5. QED
    BY <2>4 DEF c, d
<1>4. ASSUME NEW m \in DOMAIN entries, b < Cumulative(entries, m) PROVE n <= m
  <2> SUFFICES ASSUME m < n PROVE FALSE
    BY <1>1
  <2>1. m \in 0 .. N /\ m <= n - 1
    BY <1>1
  <2>2. Cumulative(entries, m) <= Cumulative(entries, n - 1) /\ Cumulative(entries, m) \in 0 .. 100
    BY <1>1, <2>1, CumulativeGrows
  <2> DEFINE c == Cumulative(entries, m)
             d == Cumulative(entries, n - 1)
  <2>3. c \in Int /\ d \in Int /\ c <= d /\ d <= b /\ b < c /\ b \in Int
    BY <1>2, <1>3, <1>4, <2>2
  <2> HIDE DEF b, c, d
  <2>4. QED
    BY <2>3
<1> DEFINE hit == {m \in DOMAIN entries : b < Cumulative(entries, m)}
<1>5. n \in hit /\ \A m \in hit : n <= m
  BY <1>3, <1>4
<1>6. \A m \in hit : m \in Int
  BY <1>1
<1>7. ResolveRollout(entries, b) = IF hit = {} THEN entries[Len(entries)].variant ELSE entries[Min(hit)].variant
  BY DEF ResolveRollout
<1> HIDE DEF hit
<1>8. Min(hit) = n
  BY <1>5, <1>6 DEF Min
<1>9. QED
  BY <1>3, <1>5, <1>7, <1>8 DEF b

\* Every bucket is the bucket of exactly one unit.
LEMMA BucketsAreUnits ==
    ASSUME NEW entries, IsRollout(entries)
    PROVE  BucketOf(entries) \in Bijection(Units(entries, DOMAIN entries), 0 .. 99)
<1> DEFINE U == Units(entries, DOMAIN entries)
           f == BucketOf(entries)
           N == Len(entries)
<1>1. N \in Nat /\ DOMAIN entries = 1 .. N /\ \A n \in 1 .. N : entries[n].weight \in 1 .. 100
  <2>1. N \in Nat /\ DOMAIN entries = 1 .. N /\ \A n \in 1 .. N : entries[n].weight \in Percentages
    BY DEF IsRollout
  <2>2. QED
    BY <2>1 DEF Percentages
<1>2. ASSUME NEW x \in U
      PROVE  /\ x[1] \in DOMAIN entries /\ x[2] \in 1 .. entries[x[1]].weight /\ x = <<x[1], x[2]>>
             /\ x[1] \in 1 .. N /\ x[2] \in Nat
  BY <1>1 DEF Units
<1>3. \A x \in U : f[x] = Cumulative(entries, x[1] - 1) + x[2] - 1
  BY DEF BucketOf
<1>4. ASSUME NEW x \in U PROVE f[x] \in 0 .. 99 /\ f[x] < Cumulative(entries, x[1])
  BY <1>2, <1>3, BucketsResolve
<1>5. ASSUME NEW x \in U, NEW y \in U, f[x] = f[y] PROVE x = y
  <2>1. ~(x[1] < y[1])
    <3> SUFFICES ASSUME x[1] < y[1] PROVE FALSE
      OBVIOUS
    <3>1. x[1] \in 0 .. N /\ y[1] - 1 \in 0 .. N /\ x[1] <= y[1] - 1
      BY <1>1, <1>2
    <3>2. /\ Cumulative(entries, x[1]) <= Cumulative(entries, y[1] - 1)
          /\ Cumulative(entries, x[1]) \in 0 .. 100 /\ Cumulative(entries, y[1] - 1) \in 0 .. 100
      BY <3>1, CumulativeGrows
    <3>3. y[2] \in 1 .. entries[y[1]].weight /\ entries[y[1]].weight \in 1 .. 100
      BY <1>1, <1>2
    <3>4. QED
      BY <1>3, <1>4, <1>5, <3>2, <3>3
  <2>2. ~(y[1] < x[1])
    <3> SUFFICES ASSUME y[1] < x[1] PROVE FALSE
      OBVIOUS
    <3>1. y[1] \in 0 .. N /\ x[1] - 1 \in 0 .. N /\ y[1] <= x[1] - 1
      BY <1>1, <1>2
    <3>2. /\ Cumulative(entries, y[1]) <= Cumulative(entries, x[1] - 1)
          /\ Cumulative(entries, y[1]) \in 0 .. 100 /\ Cumulative(entries, x[1] - 1) \in 0 .. 100
      BY <3>1, CumulativeGrows
    <3>3. x[2] \in 1 .. entries[x[1]].weight /\ entries[x[1]].weight \in 1 .. 100
      BY <1>1, <1>2
    <3>4. QED
      BY <1>3, <1>4, <1>5, <3>2, <3>3
  <2>3. x[1] = y[1]
    <3>1. x[1] \in Int /\ y[1] \in Int
      BY <1>2
    <3>2. QED
      BY <2>1, <2>2, <3>1
  <2>4. x[2] = y[2]
    <3>1. x[1] - 1 \in 0 .. N
      BY <1>1, <1>2
    <3>2. Cumulative(entries, x[1] - 1) \in 0 .. 100
      BY <3>1, CumulativeGrows
    <3>3. x[2] \in Nat /\ y[2] \in Nat
      BY <1>2
    <3>4. Cumulative(entries, x[1] - 1) + x[2] - 1 = Cumulative(entries, x[1] - 1) + y[2] - 1
      BY <1>3, <1>5, <2>3
    <3>5. QED
      BY <3>2, <3>3, <3>4
  <2>5. QED
    BY <1>2, <2>3, <2>4
<1>6. f \in Injection(U, 0 .. 99)
  <2>1. f \in [U -> 0 .. 99]
    BY <1>4 DEF BucketOf
  <2> HIDE DEF f, U
  <2>2. QED
    BY <1>5, <2>1 DEF Injection, IsInjective
<1>7. IsFiniteSet(0 .. 99) /\ Cardinality(0 .. 99) = 100
  <2>1. 0 \in Int /\ 99 \in Int
    OBVIOUS
  <2>2. IsFiniteSet(0 .. 99) /\ Cardinality(0 .. 99) = IF 0 > 99 THEN 0 ELSE 99 - 0 + 1
    BY ONLY <2>1, FS_Interval, Zenon
  <2>3. QED
    BY <2>2
<1>8. Cardinality(U) = 100
  BY DEF IsRollout, Weight
<1> HIDE DEF f, U
<1>9. f \in Surjection(U, 0 .. 99)
  BY <1>6, <1>7, <1>8, FS_Injection
<1>10. QED
  BY <1>6, <1>9 DEF Bijection, f, U

\* A variant's buckets are the buckets of its units.
LEMMA SharesAreExact ==
    ASSUME NEW entries, IsRollout(entries), NEW v
    PROVE  Cardinality({b \in 0 .. 99 : ResolveRollout(entries, b) = v})
             = Weight(entries, {n \in DOMAIN entries : entries[n].variant = v})
<1> DEFINE f == BucketOf(entries)
           U == Units(entries, DOMAIN entries)
           S == {b \in 0 .. 99 : ResolveRollout(entries, b) = v}
           D == {n \in DOMAIN entries : entries[n].variant = v}
           V == Units(entries, D)
           g == [x \in V |-> f[x]]
<1>1. f \in Bijection(U, 0 .. 99)
  BY BucketsAreUnits
<1>2. V \subseteq U
  BY DEF Units
<1>3. ASSUME NEW x \in U
      PROVE  /\ x \in V <=> entries[x[1]].variant = v
             /\ ResolveRollout(entries, f[x]) = entries[x[1]].variant
  <2>1. x[1] \in DOMAIN entries /\ x[2] \in 1 .. entries[x[1]].weight /\ x = <<x[1], x[2]>>
    BY DEF Units
  <2>2. x \in V <=> x[1] \in D
    BY <2>1 DEF Units
  <2>3. f[x] = Cumulative(entries, x[1] - 1) + x[2] - 1
    BY DEF BucketOf
  <2>4. QED
    BY <2>1, <2>2, <2>3, BucketsResolve
<1> HIDE DEF f, U, V
<1>4. g \in [V -> S] /\ \A x, y \in V : g[x] = g[y] => x = y
  BY <1>1, <1>2, <1>3 DEF Bijection, Injection, IsInjective
<1>5. \A b \in S : \E x \in V : g[x] = b
  <2> SUFFICES ASSUME NEW b \in S PROVE \E x \in V : g[x] = b
    OBVIOUS
  <2>1. PICK x \in U : f[x] = b
    BY <1>1 DEF Bijection, Surjection
  <2>2. x \in V
    BY <1>3, <2>1
  <2>3. QED
    BY <2>1, <2>2
<1> HIDE DEF g, S
<1>6. g \in Bijection(V, S)
  BY <1>4, <1>5 DEF Bijection, Injection, Surjection, IsInjective
<1>7. IsFiniteSet(V)
  <2>1. IsFiniteSet(DOMAIN entries) /\ \A n \in DOMAIN entries : entries[n].weight \in Percentages
    BY FS_Interval DEF IsRollout
  <2>2. IsFiniteSet(U)
    BY <2>1, UnitsAreFinite DEF U
  <2>3. QED
    BY <1>2, <2>2, FS_Subset
<1>8. Cardinality(S) = Cardinality(V)
  BY <1>6, <1>7, FS_Bijection DEF ExistsBijection
<1>9. QED
  BY <1>8 DEF S, V, Weight

\* A rollout gives every variant exactly the share of the buckets its weights
\* say, whatever the number of its entries and the order they are in.
THEOREM RolloutsAreExact ==
    ASSUME StoredRulesAreValid
    PROVE  EvalSpec => []RolloutIsExact
<1> DEFINE Known == \A k \in DOMAIN given : given[k] \in RuleSet
<1>1. EvalInit => Known
  <2> SUFFICES ASSUME EvalInit PROVE Known
    OBVIOUS
  <2>1. PICK m \in 0 .. MaxRules : given \in [1 .. m -> RuleSet]
    BY DEF EvalInit, BoundedSeq, SeqOf
  <2>2. QED
    BY <2>1
<1>2. Known /\ [EvalNext]_evalVars => Known'
  BY DEF EvalNext, evalVars, input, EvaluateDisabled, SortRules, TryRule, NoRuleFires
<1>3. Known => RolloutIsExact
  <2> SUFFICES ASSUME Known, NEW k \in DOMAIN given, NEW n \in DOMAIN given[k].rollout
               PROVE  LET entries == given[k].rollout
                          served == {<<b, ResolveRollout(entries, b)>> : b \in 0 .. 99}
                          v == entries[n].variant
                      IN  Cardinality({b \in 0 .. 99 : <<b, v>> \in served})
                            = Weight(entries, {m \in DOMAIN entries : entries[m].variant = v})
    BY DEF RolloutIsExact
  <2> DEFINE entries == given[k].rollout
             served == {<<b, ResolveRollout(entries, b)>> : b \in 0 .. 99}
             v == entries[n].variant
  <2>1. given[k] \in RuleSet
    OBVIOUS
  <2>2. Len(entries) \in Nat /\ DOMAIN entries = 1 .. Len(entries)
    BY <2>1 DEF StoredRulesAreValid
  <2>3. entries # <<>>
    BY <2>2
  <2>4. IsRollout(entries)
    BY <2>1, <2>2, <2>3 DEF StoredRulesAreValid, RuleIsValid, IsRollout
  <2> HIDE DEF entries, v
  <2>5. {b \in 0 .. 99 : <<b, v>> \in served} = {b \in 0 .. 99 : ResolveRollout(entries, b) = v}
    OBVIOUS
  <2>6. Cardinality({b \in 0 .. 99 : ResolveRollout(entries, b) = v})
          = Weight(entries, {m \in DOMAIN entries : entries[m].variant = v})
    BY <2>4, SharesAreExact
  <2>7. Cardinality({b \in 0 .. 99 : <<b, v>> \in served})
          = Weight(entries, {m \in DOMAIN entries : entries[m].variant = v})
    BY <2>5, <2>6, Zenon
  <2>8. QED
    BY <2>7, Zenon DEF entries, v
<1>4. QED
  BY <1>1, <1>2, <1>3, PTL DEF EvalSpec
=============================================================================
