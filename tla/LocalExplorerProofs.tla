-------------------------- MODULE LocalExplorerProofs --------------------------
(***************************************************************************)
(* Proofs about the visits to a root, for every game, every weight, every  *)
(* lesson the language model may draw and every crash: the files of a root *)
(* never tell of more than its model, the model forgets nothing, what      *)
(* passes the threshold of the commit gate is refused only when stuck, and *)
(* the counters and the history of the commits agree.                      *)
(***************************************************************************)
EXTENDS LocalExplorer, DataInduction

-----------------------------------------------------------------------------
(* The commit gate. *)

\* The measures of a branch as the code types them (BranchOutcome, and the features
\* that the ranking reads of its context).
BranchMeasures ==
  [gain : Int, items : Int, lost : Int, affordances : Int, exits : Int, novel : Int,
   location : BOOLEAN, textChanged : BOOLEAN, inventoryChanged : BOOLEAN,
   sameCluster : BOOLEAN, mostlyMovement : BOOLEAN, stuck : BOOLEAN, known : BOOLEAN,
   exhausted : Int, bulk : Int, discard : Int, aggressive : Int, speculative : Int,
   churn : Int, oscillation : Int, movement : Int, loopReduction : Int,
   noveltyBonus : Int, depthBonus : Int, replayPenalty : Int, expansion : BOOLEAN,
   reward : Int, length : Int, finalScore : Int, bestKnown : Int]

\* A score is a number, so that it can be compared with zero and the threshold.
LEMMA ProgressScoreIsInt ==
  ASSUME NEW b \in BranchMeasures
  PROVE  ProgressScore(b) \in Int
<1>1. \A x \in {CommitThreshold, MovementCap, ScoreWeight, InventoryWeight, AffordanceWeight,
                ExitWeight, LocationWeight, ObjectWeight, RoomTextWeight, LoopReductionPercent,
                InventoryLossPenalty, InventoryChurnPenalty, PostGainChurnPenalty,
                AggressivePenalty, SpeculativePenalty} : x \in Nat
  BY RankingAssumption
<1>2. Positive(b.gain) \in Int /\ Positive(b.bulk) \in Int
  BY DEF BranchMeasures, Positive
<1>3. ChurnPenalty(b) \in Int
  <2>1. Positive(b.bulk) + (IF b.items > 0 /\ b.lost > 0 THEN 1 ELSE 0)
          + (IF b.items > 1 THEN b.items - 1 ELSE 0) \in Int
    BY <1>2 DEF BranchMeasures
  <2>2. b.discard + b.churn \in Int /\ b.aggressive \in Int /\ b.speculative \in Int
    BY DEF BranchMeasures
  <2>3. QED BY <1>1, <2>1, <2>2 DEF ChurnPenalty
<1>4. /\ (IF RepeatedScore(b) THEN 0 ELSE ScoreWeight * Positive(b.gain)) \in Int
      /\ InventoryWeight * b.items \in Int /\ AffordanceWeight * b.affordances \in Int
      /\ ExitWeight * b.exits \in Int /\ ObjectWeight * b.novel \in Int
      /\ InventoryLossPenalty * b.lost \in Int
      /\ (LoopReductionPercent * b.loopReduction) \div 100 \in Int
  BY <1>1, <1>2 DEF BranchMeasures
<1>5. /\ (IF Landmark(b) THEN LocationWeight ELSE 0) \in Int
      /\ (IF RoomText(b) THEN RoomTextWeight ELSE 0) \in Int
      /\ (IF Exploratory(b) THEN LocationWeight ELSE 0) \in Int
      /\ b.oscillation \in Int /\ b.movement \in Int
      /\ b.noveltyBonus \in Int /\ b.depthBonus \in Int /\ b.replayPenalty \in Int
  BY <1>1 DEF BranchMeasures
<1>6. RawProgress(b) \in Int
  BY <1>3, <1>4, <1>5 DEF RawProgress
<1>7. QED
  BY <1>1, <1>6 DEF ProgressScore, AtMost

\* A branch with a reason to be left nothing does not pass the threshold.
LEMMA ZeroedStaysBelow ==
  ASSUME NEW b \in BranchMeasures, Zeroed(b)
  PROVE  ~ (ProgressScore(b) > CommitThreshold)
<1>1. CommitThreshold \in Nat /\ ProgressScore(b) \in Int
  BY RankingAssumption, ProgressScoreIsInt
<1>2. PICK capped : ProgressScore(b) = AtMost(capped, 0)
  BY DEF ProgressScore
<1>3. QED BY <1>1, <1>2 DEF AtMost

\* Of a branch that passes it, the gate asks nothing more but not to be stuck.
LEMMA GateAsksNoMore ==
  ASSUME NEW b \in BranchMeasures, ProgressScore(b) > CommitThreshold
  PROVE  Gate(b) \in {"cleared", "stuck"}
<1>1. ~ Zeroed(b)
  BY ZeroedStaysBelow
<1>2. ~ LowValueMovement(b) /\ ~ ObjectChurn(b) /\ ~ InventoryChurn(b) /\ ~ SceneChurn(b)
  BY <1>1 DEF Zeroed, InventoryChurn
<1>3. Anchored(b) /\ (b.gain <= 0 /\ b.items > 0 => SimpleInventory(b))
  BY <1>1 DEF Zeroed
<1>4. ~ Rejected(b)
  BY <1>2 DEF Rejected
<1>5. ~ (ProgressScore(b) <= CommitThreshold)
  BY RankingAssumption, ProgressScoreIsInt
<1>6. CASE NewGround(b)
  BY <1>5, <1>6 DEF Gate
<1>7. CASE ~ NewGround(b)
  <2>1. b.gain > 0 \/ (b.items > 0 /\ b.lost <= 0)
    BY <1>3, <1>4, <1>7 DEF Anchored, NewGround
  <2>2. KeptGain(b)
    BY <1>3, <2>1 DEF KeptGain, BranchMeasures
  <2>3. QED BY <1>4, <1>5, <1>7, <2>2 DEF Gate
<1>8. QED BY <1>6, <1>7

-----------------------------------------------------------------------------
(* The measures of a branch are numbers and truth values. *)

\* The worlds that a branch sees are worlds of the game, one more than its actions.
LEMMA WorldsSeen ==
  ASSUME NEW acts \in Seq(Actions)
  PROVE  WorldsOf(acts) \in Seq(Worlds) /\ Len(WorldsOf(acts)) = Len(acts) + 1
<1> DEFINE n == Len(acts)
           T == Seq(Worlds) \ {<< >>}
           b == <<Root>>
           longer == [i \in 1..n |-> [s \in T |-> Append(s, Move[<<LastOf(s), acts[i]>>])]]
           Body(g) == [S \in SUBSET (DOMAIN acts) |->
                         IF S = {} THEN b
                         ELSE Append(g[S \ {Max(S)}], Move[<<LastOf(g[S \ {Max(S)}]), acts[Max(S)]>>])]
           iter == CHOOSE g : g = Body(g)
<1>1. n \in Nat /\ DOMAIN acts = 1..n /\ \A i \in 1..n : acts[i] \in Actions
  OBVIOUS
<1>2. b \in T
  BY ExplorerAssumption
<1>3. ASSUME NEW i \in 1..n, NEW s \in T
      PROVE  /\ Append(s, Move[<<LastOf(s), acts[i]>>]) \in T
             /\ Len(Append(s, Move[<<LastOf(s), acts[i]>>])) = Len(s) + 1
  <2>1. s \in Seq(Worlds) /\ Len(s) \in Nat /\ Len(s) # 0
    BY EmptySeq
  <2>2. LastOf(s) = s[Len(s)] /\ Len(s) \in 1..Len(s)
    BY <2>1 DEF LastOf, At
  <2>3. LastOf(s) \in Worlds
    BY <2>1, <2>2
  <2> DEFINE w == Move[<<LastOf(s), acts[i]>>]
  <2>4. w \in Worlds
    BY <1>1, <2>3, GameAssumption
  <2> HIDE DEF w
  <2>5. Append(s, w) \in Seq(Worlds) /\ Len(Append(s, w)) = Len(s) + 1 /\ Len(s) + 1 # 0
    BY <2>1, <2>4
  <2>6. Append(s, w) # << >>
    BY <2>5
  <2> QED
    BY <2>5, <2>6 DEF w
<1>4. longer \in Steps(n, T)
  BY <1>3 DEF Steps
<1>5. WorldsOf(acts) = iter[1..n]
  BY <1>1 DEF WorldsOf, FoldLeft, MapThenFoldSet
<1>6. \E g : g = Body(g)
  <2>1. PICK g : Solves(g, n, T, b, longer)
    <3> HIDE DEF longer, n, b, T
    <3> QED
      BY <1>1, <1>2, <1>4, FoldExists
  <2>2. ASSUME NEW S \in SUBSET (1..n), S # {}
        PROVE  longer[Max(S)][g[S \ {Max(S)}]]
                 = Append(g[S \ {Max(S)}], Move[<<LastOf(g[S \ {Max(S)}]), acts[Max(S)]>>])
    <3>1. Max(S) \in 1..n
      BY <1>1, <2>2, MaxOfIndices
    <3>2. g[S \ {Max(S)}] \in T
      <4> HIDE DEF longer, T
      <4> QED
        BY <2>1 DEF Solves
    <3> HIDE DEF T
    <3> QED
      BY <3>1, <3>2
  <2>3. g = Body(g)
    <3> HIDE DEF longer, n, T, b
    <3> QED
      BY <1>1, <2>1, <2>2 DEF Solves
  <2> QED
    BY <2>3
<1>7. iter = Body(iter)
  <2> HIDE DEF Body
  <2> QED
    BY <1>6
<1>8. SolvesWithin(iter, n, T, b, longer)
  <2> HIDE DEF iter
  <2>1. iter[{}] = b
    <3> HIDE DEF b
    <3> QED
      BY <1>7
  <2>2. ASSUME NEW S \in SUBSET (1..n), S # {}, iter[S \ {Max(S)}] \in T
        PROVE  iter[S] = longer[Max(S)][iter[S \ {Max(S)}]]
    <3>1. Max(S) \in 1..n
      BY <1>1, <2>2, MaxOfIndices
    <3> HIDE DEF b, T
    <3> QED
      BY <1>1, <1>7, <2>2, <3>1
  <2> HIDE DEF longer, n, b, T
  <2> QED
    BY <2>1, <2>2 DEF SolvesWithin
<1>9. PICK f : IsTrace(f, n, T, b, longer) /\ f[n] = iter[1..n]
  <2> HIDE DEF iter, n, longer, b, T
  <2> QED
    BY <1>1, <1>2, <1>4, <1>8, FoldTrace
<1>10. f \in [0..n -> T] /\ f[0] = b /\ \A i \in 1..n : f[i] = longer[i][f[i - 1]]
  <2> HIDE DEF iter, n, longer, b, T
  <2> QED
    BY <1>9 DEF IsTrace
<1>11. ASSUME NEW i \in 1..n PROVE Len(f[i]) = Len(f[i - 1]) + 1
  <2>1. f[i - 1] \in T
    <3> HIDE DEF T
    <3> QED
      BY <1>1, <1>10
  <2>2. f[i] = Append(f[i - 1], Move[<<LastOf(f[i - 1]), acts[i]>>])
    <3> HIDE DEF T
    <3> QED
      BY <1>10, <2>1
  <2> QED
    BY <1>3, <2>1, <2>2
<1> DEFINE Q == {i \in 0..n : Len(f[i]) = i + 1}
<1>12. 0..n \subseteq Q
  <2>1. 0 \in Q
    BY <1>1, <1>10
  <2>2. \A i \in 1..n : i - 1 \in Q => i \in Q
    BY <1>1, <1>11
  <2> HIDE DEF Q, n
  <2> QED
    BY <1>1, <2>1, <2>2, IntervalInduct
<1>13. f[n] \in Seq(Worlds) /\ Len(f[n]) = n + 1
  <2>1. n \in 0..n
    BY <1>1
  <2> HIDE DEF n, b, longer
  <2> QED
    BY <1>10, <1>12, <2>1
<1> QED
  BY <1>5, <1>9, <1>13

\* Repetitions are counted with natural numbers.
LEMMA RepetitionsAreNat ==
  ASSUME NEW acts \in Seq(Actions)
  PROVE  /\ RepeatedPairs(acts) \in Nat
         /\ Len(acts) > 0 => MovementRepeats(acts) \in Nat
         /\ MovementCycleCount(acts) \in Nat
<1> DEFINE n == Len(acts)
           half == n \div 2
<1>1. n \in Nat /\ half \in Int /\ (n >= 4 => half - 1 \in Nat /\ half - 1 >= 1)
  OBVIOUS
<1> HIDE DEF half
<1>2. ASSUME NEW S, NEW m \in Int, S \subseteq 0..m, S # {}
      PROVE  Max(S) \in Nat
  <2>1. S \in SUBSET Int /\ \A x \in S : x =< m
    BY <1>2
  <2>2. Max(S) \in 0..m
    BY <1>2, <2>1, BoundedMax
  <2> QED
    BY <2>2
<1>3. RepeatedPairs(acts) \in Nat
  <2> DEFINE S == {k \in 0..(half - 1) :
                     \A i \in 1..k : /\ At(acts, 2 * i + 1) = LastOf(acts)
                                     /\ At(acts, 2 * i + 2) = At(acts, 2)}
  <2>1. CASE n < 4 \/ ~InverseOfPrevious(acts)
    BY <2>1 DEF RepeatedPairs
  <2>2. CASE ~(n < 4 \/ ~InverseOfPrevious(acts))
    <3>1. RepeatedPairs(acts) = Max(S)
      BY <2>2 DEF RepeatedPairs, half
    <3>2. S \subseteq 0..(half - 1) /\ half - 1 \in Int
      BY <1>1
    <3>3. 0 \in S
      <4>1. 0 \in 0..(half - 1) /\ 1..0 = {}
        BY <1>1, <2>2
      <4> QED
        BY <4>1
    <3> HIDE DEF S
    <3> QED
      BY <1>2, <3>1, <3>2, <3>3
  <2> QED
    BY <2>1, <2>2
<1>4. n > 0 => MovementRepeats(acts) \in Nat
  <2> DEFINE S == {k \in 0..(n - 1) : \A i \in 2..(k + 1) : At(acts, i) = LastOf(acts)}
  <2>1. CASE LastOf(acts) \notin Movement
    BY <2>1 DEF MovementRepeats
  <2>2. CASE LastOf(acts) \in Movement /\ n > 0
    <3>1. MovementRepeats(acts) = Max(S)
      BY <2>2 DEF MovementRepeats
    <3>2. S \subseteq 0..(n - 1) /\ n - 1 \in Int
      BY <1>1
    <3>3. 0 \in S
      <4>1. 0 \in 0..(n - 1) /\ 2..(0 + 1) = {}
        BY <1>1, <2>2
      <4> QED
        BY <4>1
    <3> HIDE DEF S
    <3> QED
      BY <1>2, <3>1, <3>2, <3>3
  <2> QED
    BY <2>1, <2>2
<1>5. MovementCycles(acts) \in Nat
  <2> DEFINE none == \/ n < 4 \/ ~(\A i \in 1..4 : At(acts, i) \in Movement)
                     \/ At(acts, 1) # At(acts, 3) \/ At(acts, 2) # At(acts, 4)
                     \/ At(acts, 1) = At(acts, 2)
             S == {k \in 1..(half - 1) :
                     \A i \in 1..k : /\ At(acts, 2 * i + 1) = At(acts, 1)
                                     /\ At(acts, 2 * i + 2) = At(acts, 2)}
  <2>1. MovementCycles(acts) = IF none THEN 0 ELSE Max(S)
    BY DEF MovementCycles, half
  <2>2. CASE none
    BY <2>1, <2>2
  <2>3. CASE ~ none
    <3>1. half - 1 >= 1 /\ half - 1 \in Nat
      BY <1>1, <2>3
    <3>2. S \subseteq 0..(half - 1) /\ half - 1 \in Int
      BY <3>1
    <3>3. 1 \in S
      <4>1. 1 \in 1..(half - 1)
        BY <3>1
      <4>2. At(acts, 3) = At(acts, 1) /\ At(acts, 4) = At(acts, 2)
        BY <2>3
      <4>3. \A i \in 1..1 : At(acts, 2 * i + 1) = At(acts, 1) /\ At(acts, 2 * i + 2) = At(acts, 2)
        <5>1. \A i \in 1..1 : i = 1 /\ 2 * i + 1 = 3 /\ 2 * i + 2 = 4
          OBVIOUS
        <5> QED
          BY <4>2, <5>1
      <4> QED
        BY <4>1, <4>3
    <3> HIDE DEF S, none
    <3> QED
      BY <1>2, <2>1, <2>3, <3>2, <3>3
  <2> QED
    BY <2>2, <2>3
<1>6. MovementCycleCount(acts) \in Nat
  BY <1>5 DEF MovementCycleCount
<1> QED
  BY <1>3, <1>4, <1>6

\* The part of a sequence up to a position of it.
LEMMA FrontOf ==
  ASSUME NEW S, NEW s \in Seq(S), NEW i \in 1..Len(s)
  PROVE  SubSeq(s, 1, i) \in Seq(S) /\ Len(SubSeq(s, 1, i)) = i
OBVIOUS

\* The penalties of a step are numbers.
LEMMA PenaltiesAreInt ==
  ASSUME NEW acts \in Seq(Actions), NEW seen, NEW i \in 1..Len(acts)
  PROVE  /\ LoopPenaltyAt(acts, seen, i) \in Int
         /\ MovementPenaltyAt(acts, seen, i) \in Int
<1> DEFINE front == SubSeq(acts, 1, i)
           pairs == RepeatedPairs(front)
           here == {j \in 1..(i + 1) : Cluster[seen[j]] = Cluster[seen[i + 1]]}
           visited == Cardinality(here)
<1>1. front \in Seq(Actions) /\ Len(front) = i /\ i \in Nat /\ i > 0
  BY FrontOf
<1>2. /\ pairs \in Nat /\ MovementRepeats(front) \in Nat /\ MovementCycleCount(front) \in Nat
  <2> HIDE DEF front
  <2> QED
    BY <1>1, RepetitionsAreNat
<1>3. visited \in Nat
  <2>1. IsFiniteSet(1..(i + 1))
    BY <1>1, FS_Interval
  <2>2. IsFiniteSet(here)
    BY <2>1, FS_Subset
  <2> HIDE DEF here
  <2> QED
    BY <2>2, FS_CardinalityType
<1>4. \A x \in {ImmediateInversePenalty, RepeatedPairPenalty, ReversiblePenalty,
                RepeatedMovementPenalty, MovementCyclePenalty, SameRegionPenalty} : x \in Nat
  BY FeaturesAssumption
<1> HIDE DEF pairs, visited, front
<1>5. LoopPenaltyAt(acts, seen, i) \in Int
  <2> DEFINE views == SubSeq(seen, 1, i)
             fixed == IF InverseOfPrevious(front) THEN ImmediateInversePenalty ELSE 0
             more == IF InverseOfPrevious(front) \/ pairs > 0 THEN ReversiblePenalty ELSE 0
  <2>1. LoopPenalty(front, views, seen[i + 1])
          = IF ~LoopNoProgress(front, views, seen[i + 1]) THEN 0
            ELSE fixed + RepeatedPairPenalty * pairs + more
    BY DEF LoopPenalty, pairs
  <2>2. fixed \in Nat /\ more \in Nat
    BY <1>4
  <2>3. RepeatedPairPenalty * pairs \in Int
    BY <1>2, <1>4
  <2> HIDE DEF fixed, more
  <2>4. LoopPenalty(front, views, seen[i + 1]) \in Int
    BY <2>1, <2>2, <2>3
  <2>5. LoopPenaltyAt(acts, seen, i) = 100 * LoopPenalty(front, views, seen[i + 1])
    BY DEF LoopPenaltyAt, front
  <2> QED
    BY <2>4, <2>5
<1>6. MovementPenaltyAt(acts, seen, i) \in Int
  <2> DEFINE repeats == RepeatedMovementPenalty * MovementRepeats(front)
             cycles == MovementCyclePenalty * MovementCycleCount(front)
             again == IF SameRegionRepeat(seen[i], seen[i + 1], visited)
                      THEN SameRegionPenalty * Max({visited - 1, 1}) ELSE 0
             penalty == MovementPenalty(front, seen[i], seen[i + 1], visited)
  <2>1. penalty = IF LastOf(front) \notin Movement \/ ~MovementNoProgress(seen[i], seen[i + 1])
                  THEN 0 ELSE repeats + cycles + again
    BY DEF MovementPenalty
  <2>2. repeats \in Int /\ cycles \in Int
    BY <1>2, <1>4
  <2>3. Max({visited - 1, 1}) \in Int
    BY <1>3, MaxOfTwo
  <2>4. again \in Int
    BY <1>4, <2>3
  <2> HIDE DEF repeats, cycles, again, penalty
  <2>5. penalty \in Int
    BY <2>1, <2>2, <2>4
  <2>6. MovementPenaltyAt(acts, seen, i) = 100 * penalty
    BY DEF MovementPenaltyAt, penalty, front, visited
  <2> QED
    BY <2>5, <2>6
<1> QED
  BY <1>5, <1>6

\* So is the total of the penalties on loops.
LEMMA LoopTotalIsInt ==
  ASSUME NEW acts \in Seq(Actions), NEW seen
  PROVE  Total(acts, seen, LoopPenaltyAt) \in Int
<1> DEFINE n == Len(acts)
           h == [i \in 1..n |-> LoopPenaltyAt(acts, seen, i)]
           s == [i \in DOMAIN acts |-> i]
           Body(g) == [S \in SUBSET (DOMAIN s) |->
                         IF S = {} THEN 0
                         ELSE g[S \ {Max(S)}] + LoopPenaltyAt(acts, seen, s[Max(S)])]
           iter == CHOOSE g : g = Body(g)
<1>1. n \in Nat /\ DOMAIN acts = 1..n /\ DOMAIN s = 1..n
  OBVIOUS
<1>2. h \in [1..n -> Int]
  BY PenaltiesAreInt
<1>3. Total(acts, seen, LoopPenaltyAt) = iter[1..n]
  BY <1>1 DEF Total, FoldLeft, MapThenFoldSet
<1>4. ASSUME NEW S \in SUBSET (1..n), S # {}
      PROVE  LoopPenaltyAt(acts, seen, s[Max(S)]) = h[Max(S)]
  <2>1. Max(S) \in 1..n
    BY <1>1, <1>4, MaxOfIndices
  <2> QED
    BY <1>1, <2>1
<1>5. \A g : g = Body(g) <=> SumUpTo(g, n, h)
  <2> HIDE DEF h, s
  <2> QED
    BY <1>1, <1>4 DEF SumUpTo
<1>6. \E g : g = Body(g)
  <2> HIDE DEF Body, h, n
  <2> QED
    BY <1>1, <1>2, <1>5, FoldedSumExists
<1>7. SumUpTo(iter, n, h)
  <2> HIDE DEF Body, h, n
  <2> QED
    BY <1>5, <1>6
<1> QED
  <2> HIDE DEF iter, h, n
  <2> QED
    BY <1>1, <1>2, <1>3, <1>7, FoldedSumIsInt

\* So is the total of the penalties on movement.
LEMMA MovementTotalIsInt ==
  ASSUME NEW acts \in Seq(Actions), NEW seen
  PROVE  Total(acts, seen, MovementPenaltyAt) \in Int
<1> DEFINE n == Len(acts)
           h == [i \in 1..n |-> MovementPenaltyAt(acts, seen, i)]
           s == [i \in DOMAIN acts |-> i]
           Body(g) == [S \in SUBSET (DOMAIN s) |->
                         IF S = {} THEN 0
                         ELSE g[S \ {Max(S)}] + MovementPenaltyAt(acts, seen, s[Max(S)])]
           iter == CHOOSE g : g = Body(g)
<1>1. n \in Nat /\ DOMAIN acts = 1..n /\ DOMAIN s = 1..n
  OBVIOUS
<1>2. h \in [1..n -> Int]
  BY PenaltiesAreInt
<1>3. Total(acts, seen, MovementPenaltyAt) = iter[1..n]
  BY <1>1 DEF Total, FoldLeft, MapThenFoldSet
<1>4. ASSUME NEW S \in SUBSET (1..n), S # {}
      PROVE  MovementPenaltyAt(acts, seen, s[Max(S)]) = h[Max(S)]
  <2>1. Max(S) \in 1..n
    BY <1>1, <1>4, MaxOfIndices
  <2> QED
    BY <1>1, <2>1
<1>5. \A g : g = Body(g) <=> SumUpTo(g, n, h)
  <2> HIDE DEF h, s
  <2> QED
    BY <1>1, <1>4 DEF SumUpTo
<1>6. \E g : g = Body(g)
  <2> HIDE DEF Body, h, n
  <2> QED
    BY <1>1, <1>2, <1>5, FoldedSumExists
<1>7. SumUpTo(iter, n, h)
  <2> HIDE DEF Body, h, n
  <2> QED
    BY <1>5, <1>6
<1> QED
  <2> HIDE DEF iter, h, n
  <2> QED
    BY <1>1, <1>2, <1>3, <1>7, FoldedSumIsInt

IsList(s) == \E S : s \in Seq(S)

\* The branches that a profile remembers are lists of actions.
TypedHistory(profile) ==
  IsList(profile.history) /\ \A i \in DOMAIN profile.history : IsList(profile.history[i].actions)

\* The elements of a list are finitely many.
LEMMA ElementsAreFinite ==
  ASSUME NEW s, IsList(s)
  PROVE  IsFiniteSet(ToSet(s)) /\ Len(s) \in Nat /\ DOMAIN s = 1..Len(s)
<1>1. Len(s) \in Nat /\ DOMAIN s = 1..Len(s) /\ s = [i \in 1..Len(s) |-> s[i]]
  BY DEF IsList
<1>2. IsFiniteSet(1..Len(s))
  BY <1>1, FS_Interval
<1>3. IsFiniteSet({s[i] : i \in 1..Len(s)})
  BY <1>1, <1>2, FiniteImage
<1> QED
  BY <1>1, <1>3 DEF ToSet

\* The branches that a branch follows the longest, by the length shared and their own.
Lengths(b, profile) ==
  {<<SharedLength(b.actions, h.actions), Len(h.actions)>> : h \in ToSet(profile.history)}
Followed(b, profile) ==
  {l \in Lengths(b, profile) : l[1] > 0 /\ \A k \in Lengths(b, profile) : k[1] <= l[1]}

\* The lengths of what was followed have a greatest one.
LEMMA LongestFollowed ==
  ASSUME NEW b, NEW profile, TypedHistory(profile), Followed(b, profile) # {}
  PROVE  LET longest == Max({l[2] : l \in Followed(b, profile)})
         IN  longest \in Nat /\ \A l \in Followed(b, profile) : l[2] <= longest
<1> DEFINE H == ToSet(profile.history)
           pair == [h \in H |-> <<SharedLength(b.actions, h.actions), Len(h.actions)>>]
           F == Followed(b, profile)
           own == [l \in F |-> l[2]]
           S == {own[l] : l \in F}
<1>1. IsFiniteSet(H)
  BY ElementsAreFinite DEF TypedHistory
<1>2. IsFiniteSet({pair[h] : h \in H})
  <2>1. DOMAIN pair = H /\ pair = [h \in H |-> pair[h]]
    OBVIOUS
  <2> HIDE DEF pair, H
  <2> QED
    BY <1>1, <2>1, FiniteImage
<1>3. Lengths(b, profile) = {pair[h] : h \in H}
  BY DEF Lengths
<1>4. IsFiniteSet(F)
  BY <1>2, <1>3, FS_Subset DEF Followed
<1>5. ASSUME NEW l \in F PROVE l[2] \in Nat
  <2>1. PICK h \in H : l = <<SharedLength(b.actions, h.actions), Len(h.actions)>>
    BY DEF Followed, Lengths
  <2>2. PICK i \in DOMAIN profile.history : h = profile.history[i]
    BY DEF ToSet
  <2>3. IsList(h.actions)
    BY <2>2 DEF TypedHistory
  <2>4. Len(h.actions) \in Nat
    BY <2>3, ElementsAreFinite
  <2> QED
    BY <2>1, <2>4
<1>6. IsFiniteSet(S)
  <2>1. DOMAIN own = F /\ own = [l \in F |-> own[l]]
    OBVIOUS
  <2> HIDE DEF own, F
  <2> QED
    BY <1>4, <2>1, FiniteImage
<1>7. S \in SUBSET Int /\ S \subseteq Nat /\ S # {} /\ S = {l[2] : l \in F}
  BY <1>5
<1>8. \A l \in F : l[2] \in S
  OBVIOUS
<1> HIDE DEF S, F
<1>9. Max(S) \in S /\ \A x \in S : x =< Max(S)
  BY <1>6, <1>7, FiniteMax
<1> QED
  BY <1>7, <1>8, <1>9 DEF F

\* How much deeper a branch goes is a number.
LEMMA DepthIsNat ==
  ASSUME NEW b, Len(b.actions) \in Nat, NEW profile, TypedHistory(profile)
  PROVE  DeeperBy(b, profile) \in Nat
<1> DEFINE F == Followed(b, profile)
           longest == Max({l[2] : l \in F})
<1>1. DeeperBy(b, profile) = IF F = {} THEN 0 ELSE Max({0, Len(b.actions) - longest})
  BY DEF DeeperBy, Followed, Lengths
<1>2. CASE F = {}
  BY <1>1, <1>2
<1>3. CASE F # {}
  <2>1. longest \in Nat
    BY <1>3, LongestFollowed
  <2> HIDE DEF longest, F
  <2>2. Len(b.actions) - longest \in Int /\ 0 \in Int
    BY <2>1
  <2>3. Max({0, Len(b.actions) - longest}) \in Nat
    BY <2>2, MaxOfTwo
  <2> QED
    BY <1>1, <1>3, <2>3
<1> QED
  BY <1>2, <1>3

\* What a branch is worth against the profile of its root.
LEMMA ProgressionIsInt ==
  ASSUME NEW b, Len(b.actions) \in Nat, IsFiniteSet(b.clusters), IsFiniteSet(b.hashes),
         NEW profile, TypedHistory(profile), profile.counts \in [DOMAIN profile.counts -> Nat]
  PROVE  /\ NoveltyBonusOf(b, profile) \in Int /\ DepthBonusOf(b, profile) \in Int
         /\ ReplayPenaltyOf(b, profile) \in Int /\ Expansion(b, profile) \in BOOLEAN
<1>1. NoveltyBonus \in Nat /\ DepthBonus \in Nat /\ ReplayPenalty \in Nat
  BY ProgressionAssumption
<1>2. NoveltyBonusOf(b, profile) \in Int
  <2> DEFINE clusters == Cardinality(b.clusters \ profile.clusters)
             hashes == Cardinality(b.hashes \ profile.hashes)
             prefix == IF Replays(b, profile) = 0 /\ b.actions # << >> THEN 100 ELSE 0
             final == IF b.finalCluster \notin profile.finals THEN 50 ELSE 0
             percent == prefix + final + Min({100, 35 * clusters}) + Min({75, 25 * hashes})
  <2>1. clusters \in Nat /\ hashes \in Nat
    BY FS_Difference, FS_CardinalityType
  <2> HIDE DEF clusters, hashes
  <2>2. Min({100, 35 * clusters}) \in Int /\ Min({75, 25 * hashes}) \in Int
    <3> DEFINE x == 35 * clusters
               y == 25 * hashes
    <3>1. x \in Int /\ y \in Int /\ 100 \in Int /\ 75 \in Int
      BY <2>1
    <3> HIDE DEF x, y
    <3>2. Min({100, x}) \in Int
      BY <3>1, MinOfTwo
    <3>3. Min({75, y}) \in Int
      BY <3>1, MinOfTwo
    <3> QED
      BY <3>2, <3>3 DEF x, y
  <2>3. prefix \in Int /\ final \in Int
    OBVIOUS
  <2> HIDE DEF prefix, final
  <2>4. percent \in Int
    BY <2>2, <2>3
  <2>5. NoveltyBonusOf(b, profile)
          = IF Productive(profile) THEN (percent * NoveltyBonus) \div 100 ELSE 0
    BY DEF NoveltyBonusOf, clusters, hashes, prefix, final
  <2> HIDE DEF percent
  <2>6. (percent * NoveltyBonus) \div 100 \in Int
    <3>1. percent * NoveltyBonus \in Int
      BY <1>1, <2>4
    <3> QED
      BY <3>1
  <2> QED
    BY <2>5, <2>6
<1>3. DepthBonusOf(b, profile) \in Int
  <2>1. DeeperBy(b, profile) \in Int
    BY DepthIsNat
  <2>2. Min({2, DeeperBy(b, profile)}) \in Int
    BY <2>1, MinOfTwo
  <2>3. DepthBonus * Min({2, DeeperBy(b, profile)}) \in Int
    BY <1>1, <2>2
  <2> QED
    BY <2>3 DEF DepthBonusOf
<1>4. ReplayPenaltyOf(b, profile) \in Int
  <2>1. Replays(b, profile) \in Nat
    BY DEF Replays, TimesCommitted
  <2>2. ReplayPenalty * Replays(b, profile) \in Int
    BY <1>1, <2>1
  <2> QED
    BY <2>2 DEF ReplayPenaltyOf
<1>5. Expansion(b, profile) \in BOOLEAN
  BY DEF Expansion, Productive, MateriallyDistinct
<1> QED
  BY <1>2, <1>3, <1>4, <1>5

\* What is counted of a world is finite.
LEMMA GainsAreNumbers ==
  ASSUME NEW w \in Worlds
  PROVE  /\ Gain(w) \in Int /\ ItemsGained(w) \in Int /\ ItemsLost(w) \in Int
         /\ Affordances(w) \in Int /\ Exits(w) \in Int
         /\ Min({Cardinality(Words[w] \ Words[Root]), 4}) \in Int
<1>1. Root \in Worlds
  BY ExplorerAssumption
<1>2. Gain(w) \in Int
  BY <1>1, GameAssumption DEF Gain, ScoreGain
<1>3. ItemsGained(w) \in Int /\ ItemsLost(w) \in Int
  <2>1. IsFiniteSet(Items[w]) /\ IsFiniteSet(Items[Root])
    BY <1>1, FeaturesAssumption
  <2>2. IsFiniteSet(Items[w] \ Items[Root]) /\ IsFiniteSet(Items[Root] \ Items[w])
    BY <2>1, FS_Difference
  <2>3. Cardinality(Items[w] \ Items[Root]) \in Int /\ Cardinality(Items[Root] \ Items[w]) \in Int
    <3>1. Cardinality(Items[w] \ Items[Root]) \in Nat
      BY <2>2, FS_CardinalityType
    <3>2. Cardinality(Items[Root] \ Items[w]) \in Nat
      BY <2>2, FS_CardinalityType
    <3> QED
      BY <3>1, <3>2
  <2> QED
    BY <2>3 DEF ItemsGained, ItemsLost
<1>4. Exits(w) \in Int
  <2>1. IsFiniteSet((Valid[w] \ Valid[Root]) \cap Movement)
    BY FeaturesAssumption, FS_Difference, FS_Intersection
  <2> QED
    BY <2>1, FS_CardinalityType DEF Exits, NewExitActions
<1>5. Affordances(w) \in Int
  <2> DEFINE known == UNION {Targets[a] : a \in Valid[Root] \ Movement}
             fresh == {a \in Valid[w] \ Movement : Targets[a] \ known # {}}
             n == Cardinality(fresh)
  <2>1. IsFiniteSet(Valid[w] \ Movement)
    BY FeaturesAssumption, FS_Difference
  <2>2. IsFiniteSet(fresh)
    <3> HIDE DEF known
    <3> QED
      BY <2>1, FS_Subset
  <2>3. n \in Int /\ 4 \in Int
    <3> HIDE DEF fresh
    <3> QED
      BY <2>2, FS_CardinalityType
  <2>4. Affordances(w) = Min({n, 4})
    BY DEF Affordances, PersistentAffordances
  <2> HIDE DEF n
  <2> QED
    BY <2>3, <2>4, MinOfTwo
<1>6. Min({Cardinality(Words[w] \ Words[Root]), 4}) \in Int
  <2> DEFINE n == Cardinality(Words[w] \ Words[Root])
  <2>1. n \in Int /\ 4 \in Int
    <3>1. IsFiniteSet(Words[w])
      BY ExplorerAssumption
    <3>2. IsFiniteSet(Words[w] \ Words[Root])
      BY <3>1, FS_Difference
    <3>3. Cardinality(Words[w] \ Words[Root]) \in Nat
      BY <3>2, FS_CardinalityType
    <3> QED
      BY <3>3
  <2> HIDE DEF n
  <2>2. Min({n, 4}) \in Int
    BY <2>1, MinOfTwo
  <2> QED
    BY <2>2 DEF n
<1> QED
  BY <1>2, <1>3, <1>4, <1>5, <1>6

\* So is what is counted of the actions of a branch.
LEMMA CountsAreNumbers ==
  ASSUME NEW acts \in Seq(Actions), NEW seen
  PROVE  /\ \A class : CountIn(acts, class) \in Int
         /\ PostGainChurn(acts, seen) \in Int
         /\ Cardinality(Exhausted(acts, seen)) \in Int
<1>1. IsFiniteSet(DOMAIN acts)
  <2>1. DOMAIN acts = 1..Len(acts) /\ 1 \in Int /\ Len(acts) \in Int
    OBVIOUS
  <2> QED
    BY <2>1, FS_Interval
<1>2. ASSUME NEW class PROVE CountIn(acts, class) \in Int
  <2>1. IsFiniteSet({i \in DOMAIN acts : acts[i] \in class})
    BY <1>1, FS_Subset
  <2> QED
    BY <2>1, FS_CardinalityType DEF CountIn
<1>3. PostGainChurn(acts, seen) \in Int
  <2> DEFINE first == FirstGain(acts, seen)
             late == {i \in DOMAIN acts : first > 0 /\ i > first /\ acts[i] \in Churning}
  <2>1. IsFiniteSet(late)
    BY <1>1, FS_Subset
  <2>2. PostGainChurn(acts, seen) = Cardinality(late)
    BY DEF PostGainChurn
  <2> HIDE DEF late
  <2> QED
    BY <2>1, <2>2, FS_CardinalityType
<1>4. Cardinality(Exhausted(acts, seen)) \in Int
  <2> DEFINE T == [a \in ToSet(acts) |-> Targets[a]]
             families == {T[a] : a \in ToSet(acts)}
  <2>1. IsFiniteSet(ToSet(acts))
    BY ElementsAreFinite DEF IsList
  <2>2. IsFiniteSet(families)
    <3>1. DOMAIN T = ToSet(acts) /\ T = [a \in ToSet(acts) |-> T[a]]
      OBVIOUS
    <3> HIDE DEF T
    <3> QED
      BY <2>1, <3>1, FiniteImage
  <2>3. \A F \in families : IsFiniteSet(F)
    <3> SUFFICES ASSUME NEW a \in ToSet(acts) PROVE IsFiniteSet(T[a])
      OBVIOUS
    <3>1. a \in Actions
      BY DEF ToSet
    <3> QED
      BY <3>1, FeaturesAssumption
  <2>4. {Targets[a] : a \in ToSet(acts)} = families
    OBVIOUS
  <2>5. Exhausted(acts, seen) \in SUBSET (UNION families)
    BY <2>4 DEF Exhausted
  <2> HIDE DEF families
  <2>6. IsFiniteSet(UNION families)
    BY <2>2, <2>3, FS_UNION
  <2>7. IsFiniteSet(Exhausted(acts, seen))
    BY <2>5, <2>6, FS_Subset
  <2> QED
    BY <2>7, FS_CardinalityType
<1> QED
  BY <1>2, <1>3, <1>4

\* By how much the worst penalty on loops exceeds the last one.
LoopReduction(acts, seen) ==
  LET loops == [i \in DOMAIN acts |-> LoopPenaltyAt(acts, seen, i)]
  IN  Max(ToSet(loops)) - LastOf(loops)

LEMMA LoopReductionIsInt ==
  ASSUME NEW acts \in Seq(Actions), NEW seen, acts # << >>
  PROVE  LoopReduction(acts, seen) \in Int
<1> DEFINE n == Len(acts)
           loops == [i \in DOMAIN acts |-> LoopPenaltyAt(acts, seen, i)]
<1>1. n \in Nat /\ n # 0 /\ DOMAIN acts = 1..n /\ n \in 1..n
  BY EmptySeq
<1>2. loops \in [1..n -> Int]
  BY <1>1, PenaltiesAreInt
<1> HIDE DEF loops, n
<1>3. loops \in Seq(Int) /\ Len(loops) = n
  BY <1>1, <1>2, FunctionIsSeq
<1>4. LastOf(loops) = loops[n] /\ loops[n] \in Int
  BY <1>1, <1>2, <1>3 DEF LastOf, At
<1>5. IsFiniteSet(ToSet(loops)) /\ ToSet(loops) \in SUBSET Int /\ ToSet(loops) # {}
  <2>1. IsFiniteSet(ToSet(loops))
    BY <1>3, ElementsAreFinite DEF IsList
  <2>2. loops[n] \in ToSet(loops)
    BY <1>1, <1>2 DEF ToSet
  <2>3. ToSet(loops) \in SUBSET Int
    BY <1>2 DEF ToSet
  <2> QED
    BY <2>1, <2>2, <2>3
<1>6. Max(ToSet(loops)) \in Int
  BY <1>5, FiniteMax
<1>7. Max(ToSet(loops)) - LastOf(loops) \in Int
  BY <1>4, <1>6
<1> QED
  BY <1>7 DEF LoopReduction, loops

\* The measures of a branch are what the code declares them to be.
LEMMA MeasuresAreTyped ==
  ASSUME NEW acts \in Seq(Actions), NEW known \in BOOLEAN, NEW bestKnown \in Int, NEW profile,
         TypedHistory(profile), profile.counts \in [DOMAIN profile.counts -> Nat]
  PROVE  Measures(acts, known, profile, bestKnown) \in BranchMeasures
<1> DEFINE seen == WorldsOf(acts)
           w == LastOf(seen)
           trace == Continuation(acts, seen)
           oscillation == Total(acts, seen, LoopPenaltyAt)
           movement == Total(acts, seen, MovementPenaltyAt)
           reduction == IF acts = << >> THEN 0 ELSE LoopReduction(acts, seen)
           novel == Min({Cardinality(Words[w] \ Words[Root]), 4})
<1>1. seen \in Seq(Worlds) /\ Len(seen) = Len(acts) + 1 /\ Len(acts) \in Nat
  BY WorldsSeen
<1>2. w \in Worlds
  <2>1. LastOf(seen) = seen[Len(seen)] /\ Len(seen) \in 1..Len(seen)
    BY <1>1 DEF LastOf, At
  <2> QED
    BY <1>1, <2>1
<1> HIDE DEF seen
<1>3. Score[w] \in Int
  BY <1>2, GameAssumption
<1> HIDE DEF w
<1>4. oscillation \in Int /\ movement \in Int
  BY LoopTotalIsInt, MovementTotalIsInt
<1>5. reduction \in Int
  <2>1. CASE acts = << >>
    BY <2>1
  <2>2. CASE acts # << >>
    BY <2>2, LoopReductionIsInt
  <2> QED
    BY <2>1, <2>2
<1>6. /\ Gain(w) \in Int /\ ItemsGained(w) \in Int /\ ItemsLost(w) \in Int
      /\ Affordances(w) \in Int /\ Exits(w) \in Int /\ novel \in Int
  BY <1>2, GainsAreNumbers
<1>7. /\ CountIn(acts, BulkActions) \in Int /\ CountIn(acts, DiscardActions) \in Int
      /\ CountIn(acts, AggressiveActions) \in Int /\ CountIn(acts, Speculative) \in Int
      /\ PostGainChurn(acts, seen) \in Int /\ Cardinality(Exhausted(acts, seen)) \in Int
  BY CountsAreNumbers
<1>8. /\ Len(trace.actions) \in Nat /\ IsFiniteSet(trace.clusters) /\ IsFiniteSet(trace.hashes)
  <2> DEFINE view == [i \in DOMAIN acts |-> seen[i + 1]]
             after == IF acts = << >> THEN {Root} ELSE {seen[i + 1] : i \in DOMAIN acts}
             region == [v \in after |-> Cluster[v]]
  <2>1. DOMAIN acts = 1..Len(acts) /\ IsFiniteSet(DOMAIN acts)
    BY <1>1, FS_Interval
  <2>2. IsFiniteSet({view[i] : i \in DOMAIN acts})
    <3>1. DOMAIN view = DOMAIN acts /\ view = [i \in DOMAIN acts |-> view[i]]
      OBVIOUS
    <3> HIDE DEF view
    <3> QED
      BY <2>1, <3>1, FiniteImage
  <2>3. IsFiniteSet(after)
    <3>1. {view[i] : i \in DOMAIN acts} = {seen[i + 1] : i \in DOMAIN acts}
      OBVIOUS
    <3>2. CASE acts = << >>
      <4>1. after = {Root}
        BY <3>2
      <4> QED
        BY <4>1, FS_Singleton
    <3>3. CASE acts # << >>
      <4>1. after = {seen[i + 1] : i \in DOMAIN acts}
        BY <3>3
      <4> QED
        BY <2>2, <3>1, <4>1
    <3> QED
      BY <3>2, <3>3
  <2>4. IsFiniteSet({region[v] : v \in after})
    <3>1. DOMAIN region = after /\ region = [v \in after |-> region[v]]
      OBVIOUS
    <3> HIDE DEF region, after
    <3> QED
      BY <2>3, <3>1, FiniteImage
  <2>5. trace.actions = acts /\ trace.hashes = after /\ trace.clusters = {region[v] : v \in after}
    BY DEF Continuation
  <2> HIDE DEF after, region, trace
  <2> QED
    BY <1>1, <2>3, <2>4, <2>5
<1>9. /\ NoveltyBonusOf(trace, profile) \in Int /\ DepthBonusOf(trace, profile) \in Int
      /\ ReplayPenaltyOf(trace, profile) \in Int /\ Expansion(trace, profile) \in BOOLEAN
  <2> HIDE DEF trace
  <2> QED
    BY <1>8, ProgressionIsInt
<1>10. /\ LocationSignal(w) \in BOOLEAN /\ AppearsStuck(seen, oscillation + movement) \in BOOLEAN
  <2> HIDE DEF oscillation, movement
  <2> QED
    BY DEF LocationSignal, AppearsStuck
<1>11. Measures(acts, known, profile, bestKnown) =
         [gain |-> Gain(w), items |-> ItemsGained(w), lost |-> ItemsLost(w),
          affordances |-> Affordances(w), exits |-> Exits(w),
          novel |-> novel, location |-> LocationSignal(w),
          textChanged |-> Observation[w] # Observation[Root],
          inventoryChanged |-> Inventory[w] # Inventory[Root],
          sameCluster |-> Cluster[w] = Cluster[Root],
          mostlyMovement |-> acts # << >>
                             /\ 100 * CountIn(acts, Movement) >= MovementRatio * Len(acts),
          stuck |-> AppearsStuck(seen, oscillation + movement),
          exhausted |-> Cardinality(Exhausted(acts, seen)), known |-> known,
          bulk |-> CountIn(acts, BulkActions), discard |-> CountIn(acts, DiscardActions),
          aggressive |-> CountIn(acts, AggressiveActions), speculative |-> CountIn(acts, Speculative),
          churn |-> PostGainChurn(acts, seen),
          oscillation |-> oscillation, movement |-> movement, loopReduction |-> reduction,
          noveltyBonus |-> NoveltyBonusOf(trace, profile), depthBonus |-> DepthBonusOf(trace, profile),
          replayPenalty |-> ReplayPenaltyOf(trace, profile), expansion |-> Expansion(trace, profile),
          reward |-> Gain(w), length |-> Len(acts), finalScore |-> Score[w], bestKnown |-> bestKnown]
  BY DEF Measures, LoopReduction, seen, w
<1> HIDE DEF trace, oscillation, movement, reduction, novel
<1> QED
  BY <1>1, <1>3, <1>4, <1>5, <1>6, <1>7, <1>9, <1>10, <1>11 DEF BranchMeasures

-----------------------------------------------------------------------------
(* The ranking names a best branch. *)

Keys == [1..10 -> Int]

\* Two different keys are told apart at the first place where they differ.
LEMMA KeysAreOrdered ==
  ASSUME NEW k \in Keys, NEW l \in Keys, k # l
  PROVE  Precedes(k, l) \/ Precedes(l, k)
<1> DEFINE Differ == {i \in 1..10 : k[i] # l[i]}
           m == Min(Differ)
<1>1. Differ \in SUBSET Nat /\ Differ # {}
  BY DEF Keys
<1>2. m \in Differ /\ \A i \in Differ : m =< i
  BY <1>1, LeastNumber
<1> HIDE DEF m
<1>3. m \in 1..10 /\ k[m] # l[m]
  BY <1>2
<1>4. \A j \in 1..(m - 1) : k[j] = l[j]
  BY <1>2, <1>3
<1>5. /\ k[m] \in Int /\ l[m] \in Int /\ DOMAIN k = 1..10 /\ DOMAIN l = 1..10
  BY <1>3 DEF Keys
<1>6. k[m] > l[m] \/ l[m] > k[m]
  BY <1>3, <1>5
<1> QED
  BY <1>3, <1>4, <1>5, <1>6 DEF Precedes

\* No key comes before itself, nor two keys before each other.
LEMMA KeysAreNotCircular ==
  ASSUME NEW k \in Keys, NEW l \in Keys, Precedes(k, l)
  PROVE  k # l /\ ~ Precedes(l, k)
<1>1. PICK i \in DOMAIN k : k[i] > l[i] /\ \A j \in 1..(i - 1) : k[j] = l[j]
  BY DEF Precedes
<1>2. i \in 1..10 /\ k[i] \in Int /\ l[i] \in Int
  BY <1>1 DEF Keys
<1>3. ASSUME Precedes(l, k) PROVE FALSE
  <2>1. PICK h \in DOMAIN l : l[h] > k[h] /\ \A j \in 1..(h - 1) : l[j] = k[j]
    BY <1>3 DEF Precedes
  <2>2. h \in 1..10 /\ k[h] \in Int /\ l[h] \in Int
    BY <2>1 DEF Keys
  <2>3. CASE h < i
    <3>1. h \in 1..(i - 1)
      BY <1>2, <2>2, <2>3
    <3> QED
      BY <1>1, <2>1, <2>2, <3>1
  <2>4. CASE i < h
    <3>1. i \in 1..(h - 1)
      BY <1>2, <2>2, <2>4
    <3> QED
      BY <1>1, <1>2, <2>1, <3>1
  <2>5. CASE i = h
    BY <1>1, <1>2, <2>1, <2>5
  <2> QED
    BY <1>2, <2>2, <2>3, <2>4, <2>5
<1> QED
  BY <1>1, <1>2, <1>3

\* The order is transitive.
LEMMA KeysAreTransitive ==
  ASSUME NEW k \in Keys, NEW l \in Keys, NEW m \in Keys, Precedes(k, l), Precedes(l, m)
  PROVE  Precedes(k, m)
<1>1. PICK i \in DOMAIN k : k[i] > l[i] /\ \A j \in 1..(i - 1) : k[j] = l[j]
  BY DEF Precedes
<1>2. PICK h \in DOMAIN l : l[h] > m[h] /\ \A j \in 1..(h - 1) : l[j] = m[j]
  BY DEF Precedes
<1>3. /\ i \in 1..10 /\ h \in 1..10 /\ k[i] \in Int /\ l[i] \in Int /\ m[i] \in Int
      /\ k[h] \in Int /\ l[h] \in Int /\ m[h] \in Int /\ DOMAIN k = 1..10
  BY <1>1, <1>2 DEF Keys
<1>4. CASE h < i
  <2>1. h \in 1..(i - 1) /\ \A j \in 1..(h - 1) : j \in 1..(i - 1)
    BY <1>3, <1>4
  <2>2. k[h] > m[h] /\ \A j \in 1..(h - 1) : k[j] = m[j]
    BY <1>1, <1>2, <2>1
  <2> QED
    BY <1>3, <2>2 DEF Precedes
<1>5. CASE h >= i
  <2>1. \A j \in 1..(i - 1) : j \in 1..(h - 1)
    BY <1>3, <1>5
  <2>2. l[i] >= m[i]
    <3>1. i = h \/ i \in 1..(h - 1)
      BY <1>3, <1>5
    <3> QED
      BY <1>2, <1>3, <3>1
  <2>3. k[i] > m[i] /\ \A j \in 1..(i - 1) : k[j] = m[j]
    BY <1>1, <1>2, <1>3, <2>1, <2>2
  <2> QED
    BY <1>3, <2>3 DEF Precedes
<1> QED
  BY <1>3, <1>4, <1>5

\* The first of the best of a set.
FirstBest(keys, S, i) ==
  \A j \in S : ~ Precedes(keys[j], keys[i]) /\ (j < i => Precedes(keys[i], keys[j]))

LEMMA BestExists ==
  ASSUME NEW n \in Nat, NEW C \in SUBSET (1..n), C # {}, NEW keys \in [C -> Keys]
  PROVE  \E i \in C : FirstBest(keys, C, i)
<1> DEFINE Upto(k) == C \cap (1..k)
           Q == {k \in 0..n : Upto(k) # {} => \E i \in Upto(k) : FirstBest(keys, Upto(k), i)}
<1>1. 0 \in Q
  <2>1. Upto(0) = {}
    OBVIOUS
  <2> QED
    BY <2>1
<1>2. ASSUME NEW k \in 1..n, k - 1 \in Q PROVE k \in Q
  <2> SUFFICES ASSUME Upto(k) # {} PROVE \E i \in Upto(k) : FirstBest(keys, Upto(k), i)
    BY DEF Q
  <2>1. Upto(k) = Upto(k - 1) \cup (IF k \in C THEN {k} ELSE {}) /\ k \in Nat
        /\ \A j \in Upto(k - 1) : j \in C /\ j \in Nat /\ j < k
    OBVIOUS
  <2>2. Upto(k - 1) # {} => \E i \in Upto(k - 1) : FirstBest(keys, Upto(k - 1), i)
    BY <1>2 DEF Q
  <2> HIDE DEF Upto, Q
  <2>3. CASE k \notin C
    BY <2>1, <2>2, <2>3
  <2>4. CASE k \in C /\ Upto(k - 1) = {}
    <3>1. Upto(k) = {k} /\ ~ (k < k)
      BY <2>1, <2>4
    <3>2. ~ Precedes(keys[k], keys[k])
      BY <2>4, KeysAreNotCircular
    <3> QED
      BY <3>1, <3>2 DEF FirstBest
  <2>5. CASE k \in C /\ Upto(k - 1) # {}
    <3>1. PICK b \in Upto(k - 1) : FirstBest(keys, Upto(k - 1), b)
      BY <2>2, <2>5
    <3>2. b \in C /\ b \in Nat /\ b < k /\ ~ (k < b) /\ ~ (k < k)
      BY <2>1, <3>1
    <3>3. keys[b] \in Keys /\ keys[k] \in Keys /\ \A j \in Upto(k - 1) : keys[j] \in Keys
      BY <2>1, <2>5, <3>2
    <3>4. Upto(k) = Upto(k - 1) \cup {k}
      BY <2>1, <2>5
    <3>5. CASE ~ Precedes(keys[k], keys[b])
      <4>1. FirstBest(keys, Upto(k), b)
        BY <3>1, <3>2, <3>4, <3>5 DEF FirstBest
      <4> QED
        BY <3>1, <3>4, <4>1
    <3>6. CASE Precedes(keys[k], keys[b])
      <4>1. ASSUME NEW j \in Upto(k - 1)
            PROVE  Precedes(keys[k], keys[j]) /\ ~ Precedes(keys[j], keys[k])
        <5>1. ~ Precedes(keys[j], keys[b]) /\ keys[j] \in Keys
          BY <3>1, <3>3, <4>1 DEF FirstBest
        <5>2. keys[j] = keys[b] \/ Precedes(keys[b], keys[j])
          BY <3>3, <5>1, KeysAreOrdered
        <5>3. Precedes(keys[k], keys[j])
          BY <3>3, <3>6, <5>1, <5>2, KeysAreTransitive
        <5> QED
          BY <3>3, <5>1, <5>3, KeysAreNotCircular
      <4>2. ~ Precedes(keys[k], keys[k])
        BY <3>3, KeysAreNotCircular
      <4>3. FirstBest(keys, Upto(k), k)
        BY <3>2, <3>4, <4>1, <4>2 DEF FirstBest
      <4> QED
        BY <3>4, <4>3
    <3> QED
      BY <3>5, <3>6
  <2> QED
    BY <2>3, <2>4, <2>5
<1>3. 0..n \subseteq Q
  <2> HIDE DEF Q
  <2> QED
    BY <1>1, <1>2, IntervalInduct
<1>4. n \in Q
  <2> HIDE DEF Q
  <2> QED
    BY <1>3
<1>5. Upto(n) = C
  OBVIOUS
<1> QED
  BY <1>4, <1>5

\* The measures of every finished branch are typed.
MeasuresInv == \A i \in DOMAIN done : done[i].measures \in BranchMeasures

\* So the best branch is one of them.
LEMMA BestIsComparable ==
  ASSUME MeasuresInv, IsList(done), Comparable # {}
  PROVE  BestBranch \in Comparable
<1> DEFINE keys == [i \in Comparable |-> SortKey(done[i].measures)]
<1>1. Comparable \in SUBSET (1..Len(done)) /\ Len(done) \in Nat
  BY ElementsAreFinite DEF Comparable
<1>2. ASSUME NEW b \in BranchMeasures PROVE SortKey(b) \in Keys
  <2> DEFINE key == SortKey(b)
             last == IF b.stuck THEN 0 ELSE 1
             total == 10000 * b.reward - b.oscillation - b.movement
  <2>1. ProgressScore(b) \in Int
    BY ProgressScoreIsInt
  <2>2. /\ b.gain \in Int /\ b.items \in Int /\ b.affordances \in Int /\ b.exits \in Int
        /\ -b.lost \in Int /\ -b.movement \in Int /\ -b.length \in Int
    BY DEF BranchMeasures
  <2>3. total \in Int /\ last \in Int
    BY DEF BranchMeasures
  <2>4. key = << ProgressScore(b), b.gain, b.items, b.affordances, b.exits, -b.lost, total,
                 -b.movement, last, -b.length >>
    BY DEF SortKey
  <2> HIDE DEF key, total, last
  <2>5. DOMAIN key = 1..10 /\ key = [i \in 1..10 |-> key[i]]
    BY <2>4
  <2>6. \A i \in 1..10 : key[i] \in Int
    BY <2>1, <2>2, <2>3, <2>4
  <2>7. key \in Keys
    BY <2>5, <2>6 DEF Keys
  <2> QED
    BY <2>7 DEF key
<1>3. keys \in [Comparable -> Keys]
  BY <1>2 DEF MeasuresInv, Comparable
<1>4. BestBranch = CHOOSE i \in Comparable :
                     \A j \in Comparable : /\ ~Precedes(keys[j], keys[i])
                                           /\ j < i => Precedes(keys[i], keys[j])
  BY DEF BestBranch
<1> HIDE DEF keys
<1>5. \E i \in Comparable : FirstBest(keys, Comparable, i)
  BY <1>1, <1>3, BestExists
<1> QED
  BY <1>4, <1>5 DEF FirstBest

-----------------------------------------------------------------------------
(* The progression of a root. *)

\* The counts of a profile add up to a number.
LEMMA SumOfCountsIsASum ==
  ASSUME NEW D, IsFiniteSet(D), NEW counts \in [D -> Nat]
  PROVE  \E g : Adds(g, counts, D) /\ SumOfCounts(counts) = g[D]
<1> DEFINE Body(g) == [R \in SUBSET D |-> IF R = {} THEN 0
                                          ELSE g[R \ {CHOOSE x \in R : TRUE}]
                                               + counts[CHOOSE x \in R : TRUE]]
           iter == CHOOSE g : g = Body(g)
<1>1. DOMAIN counts = D
  OBVIOUS
<1>2. SumOfCounts(counts) = iter[D]
  BY <1>1 DEF SumOfCounts, FoldSet, MapThenFoldSet
<1>3. PICK g : Adds(g, counts, D)
  BY SumsExist
<1>4. g = Body(g)
  <2>1. g = [R \in SUBSET D |-> g[R]]
    BY <1>3 DEF Adds
  <2>2. \A R \in SUBSET D : g[R] = Body(g)[R]
    BY <1>3 DEF Adds, AnyOf
  <2> QED
    BY <2>1, <2>2
<1>5. iter = Body(iter)
  <2> HIDE DEF Body
  <2> QED
    BY <1>4
<1>6. Adds(iter, counts, D)
  <2>1. \A R \in SUBSET D : iter[R] = IF R = {} THEN 0 ELSE iter[R \ {AnyOf(R)}] + counts[AnyOf(R)]
    BY <1>5 DEF AnyOf
  <2>2. iter = [R \in SUBSET D |-> iter[R]]
    BY <1>5
  <2> HIDE DEF iter
  <2>3. \A R \in SUBSET D : iter[R] \in Nat
    BY <2>1, SumsAreNumbers
  <2>4. iter \in [SUBSET D -> Nat]
    BY <2>2, <2>3
  <2> QED
    BY <2>1, <2>4 DEF Adds
<1> QED
  BY <1>2, <1>6

\* One more commit adds one to their sum.
OneMore(counts, x) ==
  [y \in DOMAIN counts \cup {x} |->
     (IF y \in DOMAIN counts THEN counts[y] ELSE 0) + (IF y = x THEN 1 ELSE 0)]

LEMMA CountsAddUp ==
  ASSUME NEW D, IsFiniteSet(D), NEW counts \in [D -> Nat], NEW x
  PROVE  /\ IsFiniteSet(D \cup {x}) /\ OneMore(counts, x) \in [D \cup {x} -> Nat]
         /\ SumOfCounts(OneMore(counts, x)) = SumOfCounts(counts) + 1
<1> DEFINE more == OneMore(counts, x)
<1>1. IsFiniteSet(D \cup {x})
  BY FS_AddElement
<1>2. DOMAIN counts = D
  OBVIOUS
<1>3. more = [y \in D \cup {x} |-> (IF y \in D THEN counts[y] ELSE 0) + (IF y = x THEN 1 ELSE 0)]
  BY <1>2 DEF OneMore
<1>4. more \in [D \cup {x} -> Nat]
  BY <1>3
<1> HIDE DEF more
<1>5. PICK g : Adds(g, counts, D) /\ SumOfCounts(counts) = g[D]
  BY SumOfCountsIsASum
<1>6. PICK h : Adds(h, more, D \cup {x}) /\ SumOfCounts(more) = h[D \cup {x}]
  BY <1>1, <1>4, SumOfCountsIsASum
<1>7. h[D \cup {x}] = g[D] + 1
  <2>1. \A y \in D \cup {x} : more[y] = (IF y \in D THEN counts[y] ELSE 0) + (IF y = x THEN 1 ELSE 0)
    BY <1>3
  <2>2. AddsOne(h, g, D, x)
    BY <1>4, <1>5, <1>6, <2>1, OneMoreUnit
  <2> QED
    BY <2>2 DEF AddsOne
<1>8. SumOfCounts(more) = SumOfCounts(counts) + 1
  BY <1>5, <1>6, <1>7
<1> QED
  BY <1>1, <1>4, <1>8 DEF more

\* Without any count the sum is nothing.
LEMMA NoCountsNoSum == SumOfCounts([p \in {} |-> 0]) = 0
<1> DEFINE none == [p \in {} |-> 0]
<1>1. none \in [{} -> Nat] /\ IsFiniteSet({})
  BY FS_EmptySet
<1> HIDE DEF none
<1>2. PICK g : Adds(g, none, {}) /\ SumOfCounts(none) = g[{}]
  BY <1>1, SumOfCountsIsASum
<1>3. g[{}] = 0
  BY <1>2 DEF Adds
<1> QED
  BY <1>2, <1>3 DEF none

\* The newest of a history: the entry just made, after those before it, of which the
\* oldest may have been pushed out.
Shifted(new, old, e, n) ==
  LET d == Len(old) + 1 - Len(new)
  IN  /\ Len(new) = (IF Len(old) < n THEN Len(old) + 1 ELSE n)
      /\ Len(new) \in Nat \ {0} /\ Len(old) \in Nat /\ d \in {0, 1}
      /\ DOMAIN new = 1..Len(new) /\ DOMAIN old = 1..Len(old)
      /\ new[Len(new)] = e
      /\ \A i \in 1..(Len(new) - 1) : i + d \in 1..Len(old) /\ new[i] = old[i + d]

LEMMA NewestIsShifted ==
  ASSUME NEW E, NEW s \in Seq(E), NEW e \in E, NEW n \in Nat \ {0}, Len(s) <= n
  PROVE  /\ NewestOf(Append(s, e), n) \in Seq(E)
         /\ Shifted(NewestOf(Append(s, e), n), s, e, n)
<1> DEFINE t == Append(s, e)
           m == Len(s)
           first == IF m < n THEN 1 ELSE 2
           new == SubSeq(t, first, m + 1)
<1>1. m \in Nat /\ t \in Seq(E) /\ Len(t) = m + 1 /\ DOMAIN s = 1..m /\ t[m + 1] = e
      /\ \A i \in 1..m : t[i] = s[i]
  OBVIOUS
<1>2. NewestOf(t, n) = new
  <2> DEFINE x == (m + 1) - n + 1
  <2>1. x \in Int /\ 1 \in Int
    BY <1>1
  <2>2. Len(t) - n + 1 = x
    BY <1>1
  <2>3. NewestOf(t, n) = SubSeq(t, Max({1, x}), m + 1)
    BY <1>1, <2>2 DEF NewestOf
  <2>4. x = first \/ (x < 1 /\ first = 1)
    <3>1. x = m + 2 - n /\ n \in Nat /\ m <= n
      BY <1>1
    <3> QED
      BY <1>1, <3>1
  <2> HIDE DEF x
  <2>5. Max({1, x}) = first
    BY <2>1, <2>4, MaxOfTwo
  <2> QED
    BY <2>3, <2>5
<1>3. /\ new \in Seq(E) /\ Len(new) = m + 2 - first
      /\ \A i \in 1..(m + 2 - first) : new[i] = t[i + first - 1]
  <2>1. first \in 1..(m + 2) /\ m + 1 \in 1..(m + 1)
    BY <1>1
  <2>2. \A i \in first..(m + 1) : t[i] \in E
    BY <1>1
  <2> HIDE DEF t, first
  <2> QED
    BY <1>1, <2>1, <2>2
<1>4. new[Len(new)] = e
  <2>1. m + 2 - first \in 1..(m + 2 - first) /\ (m + 2 - first) + first - 1 = m + 1
    BY <1>1
  <2> QED
    BY <1>1, <1>3, <2>1
<1>5. ASSUME NEW i \in 1..(Len(new) - 1)
      PROVE  i + (m + 1 - Len(new)) \in 1..m /\ new[i] = s[i + (m + 1 - Len(new))]
  <2>1. first \in {1, 2} /\ Len(new) = m + 2 - first
    BY <1>1, <1>3
  <2> HIDE DEF first, new, t
  <2>2. i \in Int /\ 1 <= i /\ i <= m + 1 - first
    BY <1>1, <2>1
  <2>3. i \in 1..(m + 2 - first) /\ i + first - 1 \in 1..m
    BY <1>1, <2>1, <2>2
  <2>4. i + (m + 1 - Len(new)) = i + first - 1
    BY <1>1, <2>1, <2>2
  <2>5. new[i] = t[i + first - 1]
    BY <1>3, <2>3
  <2> QED
    BY <1>1, <2>3, <2>4, <2>5
<1>6. /\ Len(new) = (IF m < n THEN m + 1 ELSE n) /\ Len(new) \in Nat \ {0}
      /\ m + 1 - Len(new) \in {0, 1} /\ DOMAIN new = 1..Len(new)
  <2>1. m <= n /\ first = (IF m < n THEN 1 ELSE 2)
    OBVIOUS
  <2> HIDE DEF first, new, m
  <2>2. Len(new) = m + 2 - first /\ DOMAIN new = 1..Len(new)
    BY <1>3
  <2>3. (m < n /\ first = 1) \/ (m = n /\ first = 2)
    BY <1>1, <2>1
  <2>4. Len(new) = (IF m < n THEN m + 1 ELSE n)
    BY <1>1, <2>2, <2>3
  <2>5. Len(new) \in Nat \ {0} /\ m + 1 - Len(new) \in {0, 1}
    BY <1>1, <2>2, <2>3
  <2> QED
    BY <2>2, <2>4, <2>5
<1> HIDE DEF new, t, m
<1>7. Shifted(new, s, e, n)
  BY <1>1, <1>4, <1>5, <1>6 DEF Shifted, m
<1> QED
  BY <1>2, <1>3, <1>7 DEF t

\* A history has no more of the repeated entries than before, but for the new one.
Repeats(history) == {i \in DOMAIN history : ~ history[i].distinct}

LEMMA RepeatsOfNewest ==
  ASSUME NEW new, NEW old, NEW e, NEW n, Shifted(new, old, e, n)
  PROVE  /\ Cardinality(Repeats(new)) \in Nat /\ Cardinality(Repeats(old)) \in Nat
         /\ e.distinct => Cardinality(Repeats(new)) <= Cardinality(Repeats(old))
         /\ Cardinality(Repeats(new)) <= Cardinality(Repeats(old)) + 1
<1> DEFINE d == Len(old) + 1 - Len(new)
           N == Len(new)
           kept == Repeats(new) \ {N}
           f == [i \in kept |-> i + d]
<1>1. /\ N \in Nat \ {0} /\ Len(old) \in Nat /\ d \in {0, 1}
      /\ DOMAIN new = 1..N /\ DOMAIN old = 1..Len(old)
      /\ new[N] = e
      /\ \A i \in 1..(N - 1) : i + d \in 1..Len(old) /\ new[i] = old[i + d]
  BY DEF Shifted
<1>2. IsFiniteSet(Repeats(new)) /\ IsFiniteSet(Repeats(old))
  <2>1. 1 \in Int /\ N \in Int /\ Len(old) \in Int
    <3> HIDE DEF N
    <3> QED
      BY <1>1
  <2>3. IsFiniteSet(1..N)
    BY <2>1, FS_Interval
  <2>4. IsFiniteSet(1..Len(old))
    BY <2>1, FS_Interval
  <2>2. Repeats(new) \in SUBSET (1..N) /\ Repeats(old) \in SUBSET (1..Len(old))
    BY <1>1 DEF Repeats
  <2> QED
    BY <2>2, <2>3, <2>4, FS_Subset
<1>3. Cardinality(Repeats(new)) \in Nat /\ Cardinality(Repeats(old)) \in Nat
  BY <1>2, FS_CardinalityType
<1>4. ASSUME NEW i \in kept PROVE i \in 1..(N - 1) /\ i + d \in Repeats(old)
  <2>1. i \in DOMAIN new /\ ~ new[i].distinct /\ i # N
    BY DEF Repeats
  <2>2. i \in 1..(N - 1)
    <3>1. N \in Nat /\ i \in 1..N /\ i # N
      BY <1>1, <2>1
    <3> HIDE DEF N
    <3> QED
      BY <3>1
  <2>3. i + d \in 1..Len(old) /\ new[i] = old[i + d]
    BY <1>1, <2>2
  <2>4. i + d \in DOMAIN old /\ ~ old[i + d].distinct
    BY <1>1, <2>1, <2>3
  <2> QED
    BY <2>2, <2>4 DEF Repeats
<1>5. f \in Injection(kept, Repeats(old))
  <2>1. f \in [kept -> Repeats(old)]
    BY <1>4
  <2>2. ASSUME NEW i \in kept, NEW j \in kept, f[i] = f[j] PROVE i = j
    <3>1. i + d = j + d
      BY <2>2
    <3>2. i \in Int /\ j \in Int
      <4>1. i \in 1..(N - 1) /\ j \in 1..(N - 1)
        BY <1>4
      <4> QED
        BY <4>1
    <3>3. d \in Int
      <4> HIDE DEF d
      <4> QED
        BY <1>1
    <3> HIDE DEF d, kept
    <3> QED
      BY <3>1, <3>2, <3>3
  <2> HIDE DEF f, kept
  <2> QED
    BY <2>1, <2>2 DEF Injection, IsInjective
<1>6. Cardinality(kept) <= Cardinality(Repeats(old))
  <2> HIDE DEF f, kept
  <2> QED
    BY <1>2, <1>5, FS_Injection
<1>7. Cardinality(kept) = IF N \in Repeats(new) THEN Cardinality(Repeats(new)) - 1
                          ELSE Cardinality(Repeats(new))
  BY <1>2, FS_RemoveElement
<1>8. e.distinct => N \notin Repeats(new)
  BY <1>1 DEF Repeats
<1> HIDE DEF kept, N
<1>9. Cardinality(kept) = Cardinality(Repeats(new)) \/ Cardinality(kept) = Cardinality(Repeats(new)) - 1
  BY <1>7
<1>10. e.distinct => Cardinality(Repeats(new)) <= Cardinality(Repeats(old))
  BY <1>6, <1>7, <1>8
<1>11. Cardinality(Repeats(new)) <= Cardinality(Repeats(old)) + 1
  BY <1>3, <1>6, <1>9
<1> QED
  BY <1>3, <1>10, <1>11

\* What a branch shares with another is no longer than the branch, and with itself it
\* shares everything.
LEMMA SharedIsShorter ==
  ASSUME NEW A, NEW s \in Seq(A), NEW t, IsList(t)
  PROVE  SharedLength(s, t) \in Nat /\ SharedLength(s, t) <= Len(s)
<1> DEFINE C == CommonPrefixes({s, t})
           L == {Len(c) : c \in C}
           most == Max(L)
<1>1. Len(s) \in Nat
  OBVIOUS
<1>2. ASSUME NEW c \in C PROVE Len(c) \in Nat /\ Len(c) <= Len(s)
  <2>1. PICK u \in {s, t} : c \in Prefixes(u)
    BY DEF CommonPrefixes
  <2>2. IsPrefix(c, s)
    BY DEF CommonPrefixes
  <2>3. PICK B : u \in Seq(B)
    BY DEF IsList
  <2>4. PICK l \in 0..Len(u) : c = SubSeq(u, 1, l)
    BY <2>1 DEF Prefixes
  <2>5. Len(c) \in Nat
    BY <2>3, <2>4
  <2> QED
    BY <2>2, <2>5 DEF IsPrefix
<1>3. << >> \in C
  <2>1. SubSeq(s, 1, 0) = << >> /\ Len(<< >>) = 0 /\ 0 \in 0..Len(s)
    BY <1>1
  <2>2. << >> \in Prefixes(s)
    BY <2>1 DEF Prefixes
  <2>3. ASSUME NEW u \in {s, t} PROVE IsPrefix(<< >>, u)
    <3>1. PICK B : u \in Seq(B)
      BY DEF IsList
    <3>2. SubSeq(u, 1, 0) = << >> /\ SubSeq(<< >>, 1, 0) = << >> /\ 0 <= Len(u)
      BY <3>1
    <3> QED
      BY <2>1, <3>2 DEF IsPrefix
  <2> QED
    BY <2>2, <2>3 DEF CommonPrefixes
<1>4. L \in SUBSET Int /\ L # {} /\ \A x \in L : x <= Len(s)
  <2> HIDE DEF C
  <2>1. \A x \in L : x \in Int /\ x <= Len(s)
    BY <1>2
  <2> QED
    BY <1>3, <2>1
<1>5. most \in L /\ \A x \in L : x <= most
  <2> Len(s) \in Int
    BY <1>1
  <2> HIDE DEF L
  <2> QED
    BY <1>1, <1>4, BoundedMax
<1>6. \E c \in C : \A o \in C : Len(o) <= Len(c)
  BY <1>5
<1>7. LongestCommonPrefix({s, t}) \in C
  <2> HIDE DEF C
  <2> QED
    BY <1>6 DEF LongestCommonPrefix, C
<1> QED
  BY <1>2, <1>7 DEF SharedLength

LEMMA SharedWithItself ==
  ASSUME NEW A, NEW s \in Seq(A)
  PROVE  SharedLength(s, s) = Len(s)
<1> DEFINE C == CommonPrefixes({s, s})
<1>1. Len(s) \in Nat /\ Len(s) \in 0..Len(s) /\ SubSeq(s, 1, Len(s)) = s
  OBVIOUS
<1>2. s \in C
  <2>1. s \in Prefixes(s)
    BY <1>1 DEF Prefixes
  <2>2. IsPrefix(s, s)
    BY <1>1 DEF IsPrefix
  <2> QED
    BY <2>1, <2>2 DEF CommonPrefixes
<1>3. \A c \in C : Len(c) <= Len(s)
  BY DEF CommonPrefixes, IsPrefix
<1>4. LongestCommonPrefix({s, s}) \in C /\ Len(s) <= Len(LongestCommonPrefix({s, s}))
  <2> HIDE DEF C
  <2> QED
    BY <1>2, <1>3 DEF LongestCommonPrefix, C
<1>5. SharedLength(s, s) <= Len(s) /\ Len(s) <= SharedLength(s, s)
  BY <1>3, <1>4 DEF SharedLength
<1>6. SharedLength(s, s) \in Nat
  BY SharedIsShorter DEF IsList
<1> QED
  BY <1>1, <1>5, <1>6

-----------------------------------------------------------------------------
(* What a lesson and a commit do to the model of a root. *)

ProfileFields ==
  {"history", "counts", "commits", "distinct", "repeated", "saturation", "clusters", "finals",
   "hashes"}
ModelFields == {"hints", "priors", "antipriors", "objects", "subgoals", "profile"}

\* Every commit was counted as a distinct or as a repeated continuation.
Balanced(p) == p.commits = p.distinct + p.repeated

Counters(p) ==
  /\ DOMAIN p = ProfileFields
  /\ p.commits \in Nat /\ p.distinct \in Nat /\ p.repeated \in Nat
  /\ Balanced(p)

\* It was counted under one prefix, and the first was distinct.
Counted(p) ==
  /\ IsFiniteSet(DOMAIN p.counts) /\ p.counts \in [DOMAIN p.counts -> Nat]
  /\ SumOfCounts(p.counts) = p.commits
  /\ p.commits = 0 => DOMAIN p.counts = {}
  /\ p.commits > 0 => p.distinct > 0

\* Where a branch went is determined by its actions.
TraceOf(acts) == Continuation(acts, WorldsOf(acts))

\* The profile knows a branch: the prefix was counted, and what it visited was noted.
Noted(p, acts) ==
  /\ TimesCommitted(p, PrefixOf(TraceOf(acts))) > 0
  /\ TraceOf(acts).clusters \subseteq p.clusters /\ TraceOf(acts).hashes \subseteq p.hashes
  /\ TraceOf(acts).finalCluster \in p.finals

NoRepeats(history) ==
  \A i, j \in DOMAIN history :
    i < j /\ history[i].actions = history[j].actions => ~ history[j].distinct

\* The newest commits are remembered, and each of them was noted.
Entries(history) ==
  IsList(history) /\ \A i \in DOMAIN history : history[i].actions \in Seq(Actions) \ {<< >>}

Remembered(p) ==
  /\ Entries(p.history)
  /\ Len(p.history) = (IF p.commits < HistoryLimit THEN p.commits ELSE HistoryLimit)
  /\ Cardinality(Repeats(p.history)) <= p.repeated
  /\ \A i \in DOMAIN p.history : Noted(p, p.history[i].actions)
  /\ NoRepeats(p.history)

(***************************************************************************)
(* What holds of every profile.  That a continuation in the history is     *)
(* never new again rests on all of it having been noted: its prefix, its   *)
(* clusters and worlds, and the length that it is followed for.            *)
(***************************************************************************)
IsProfile(p) == Counters(p) /\ Counted(p) /\ Remembered(p)

\* The profiles of this kind are those that the ranking can read.
LEMMA ProfilesAreReadable ==
  ASSUME NEW p, IsProfile(p)
  PROVE  TypedHistory(p) /\ p.counts \in [DOMAIN p.counts -> Nat]
<1>1. IsList(p.history) /\ \A i \in DOMAIN p.history : p.history[i].actions \in Seq(Actions)
  BY DEF IsProfile, Remembered, Entries
<1>2. \A i \in DOMAIN p.history : IsList(p.history[i].actions)
  BY <1>1 DEF IsList
<1> QED
  BY <1>1, <1>2 DEF IsProfile, Counted, TypedHistory

\* Nothing was ever committed.
LEMMA EmptyIsAProfile == IsProfile(EmptyProfile)
<1> DEFINE none == [p \in {} |-> 0]
<1>1. /\ EmptyProfile.history = << >> /\ EmptyProfile.counts = none
      /\ EmptyProfile.commits = 0 /\ EmptyProfile.distinct = 0 /\ EmptyProfile.repeated = 0
      /\ DOMAIN EmptyProfile = ProfileFields
  BY DEF EmptyProfile, ProfileFields
<1>2. Counters(EmptyProfile)
  BY <1>1 DEF Counters, Balanced
<1>3. Counted(EmptyProfile)
  <2>1. DOMAIN none = {} /\ none \in [{} -> Nat] /\ IsFiniteSet({})
    BY FS_EmptySet
  <2>2. SumOfCounts(none) = 0
    BY NoCountsNoSum
  <2> HIDE DEF none
  <2> QED
    BY <1>1, <2>1, <2>2 DEF Counted
<1>4. Remembered(EmptyProfile)
  <2>1. << >> \in Seq({}) /\ Len(<< >>) = 0 /\ DOMAIN << >> = {}
    OBVIOUS
  <2>2. IsList(<< >>)
    BY <2>1 DEF IsList
  <2>3. Repeats(<< >>) = {} /\ Cardinality({}) = 0
    BY <2>1, FS_EmptySet DEF Repeats
  <2>4. NoRepeats(<< >>) /\ Entries(<< >>)
    BY <2>1, <2>2 DEF NoRepeats, Entries
  <2> QED
    BY <1>1, <2>1, <2>3, <2>4, ProgressionAssumption DEF Remembered
<1> QED
  BY <1>2, <1>3, <1>4 DEF IsProfile

\* A branch that the history holds is not new: nothing of it goes beyond what was noted.
LEMMA NotedIsNotNew ==
  ASSUME NEW p, IsProfile(p), NEW acts, NEW i \in DOMAIN p.history, p.history[i].actions = acts
  PROVE  ~ IsNewContinuation(TraceOf(acts), p)
<1> DEFINE b == TraceOf(acts)
           n == Len(acts)
           F == Followed(b, p)
           longest == Max({l[2] : l \in F})
<1>1. acts \in Seq(Actions) /\ acts # << >> /\ Noted(p, acts)
  BY DEF IsProfile, Remembered, Entries
<1>2. n \in Nat /\ n > 0 /\ b.actions = acts
  <2>1. n \in Nat /\ n # 0
    BY <1>1, EmptySeq
  <2>2. b.actions = acts
    BY DEF TraceOf, Continuation
  <2> QED
    BY <2>1, <2>2
<1> HIDE DEF b, n
<1>3. SharedLength(acts, acts) = n
  BY <1>1, SharedWithItself DEF n
<1>4. ASSUME NEW k \in Lengths(b, p) PROVE k[1] <= n
  <2>1. PICK h \in ToSet(p.history) : k = <<SharedLength(b.actions, h.actions), Len(h.actions)>>
    BY DEF Lengths
  <2>2. IsList(h.actions)
    <3>1. PICK j \in DOMAIN p.history : h = p.history[j]
      BY <2>1 DEF ToSet
    <3> QED
      BY <3>1, ProfilesAreReadable DEF TypedHistory
  <2>3. SharedLength(acts, h.actions) <= n
    BY <1>1, <2>2, SharedIsShorter DEF n
  <2> QED
    BY <1>2, <2>1, <2>3
<1>5. <<n, n>> \in F
  <2>1. p.history[i] \in ToSet(p.history) /\ Len(p.history[i].actions) = n
    BY DEF ToSet, n
  <2>2. <<n, n>> \in Lengths(b, p)
    BY <1>2, <1>3, <2>1 DEF Lengths
  <2> QED
    BY <1>2, <1>4, <2>2 DEF Followed
<1>6. longest \in Nat /\ n <= longest
  <2>1. TypedHistory(p) /\ F # {}
    BY <1>5, ProfilesAreReadable
  <2>2. longest \in Nat /\ \A l \in F : l[2] <= longest
    BY <2>1, LongestFollowed
  <2> QED
    BY <1>5, <2>2
<1>7. DeeperBy(b, p) = Max({0, n - longest})
  BY <1>2, <1>5 DEF DeeperBy, Followed, Lengths, n
<1>8. DeeperBy(b, p) <= 0
  <2> HIDE DEF longest
  <2>1. n - longest \in Int /\ n - longest <= 0
    BY <1>2, <1>6
  <2>2. Max({0, n - longest}) = 0
    BY <2>1, MaxOfTwo
  <2> QED
    BY <1>7, <2>2
<1>9. DeeperBy(b, p) \in Nat
  BY <1>2, ProfilesAreReadable, DepthIsNat DEF n
<1>10. ~ (DeeperBy(b, p) > 0) /\ Replays(b, p) # 0
  <2>1. TimesCommitted(p, PrefixOf(b)) \in Nat
    BY ProfilesAreReadable DEF TimesCommitted
  <2>2. TimesCommitted(p, PrefixOf(b)) > 0
    BY <1>1 DEF Noted, b
  <2> QED
    BY <1>8, <1>9, <2>1, <2>2 DEF Replays
<1> QED
  BY <1>1, <1>10 DEF IsNewContinuation, Noted, b

\* The saturation is no part of it.
LEMMA SaturationKeepsProfiles ==
  ASSUME NEW p, IsProfile(p)
  PROVE  IsProfile(Saturated(p)) /\ Saturated(p).commits = p.commits
<1> DEFINE q == Saturated(p)
<1>1. /\ DOMAIN q = ProfileFields /\ q.history = p.history /\ q.counts = p.counts
      /\ q.commits = p.commits /\ q.distinct = p.distinct /\ q.repeated = p.repeated
      /\ q.clusters = p.clusters /\ q.finals = p.finals /\ q.hashes = p.hashes
  BY DEF IsProfile, Counters, ProfileFields, Saturated
<1> HIDE DEF q
<1>2. Counters(q) /\ Counted(q)
  BY <1>1 DEF IsProfile, Counters, Counted, Balanced
<1>3. \A acts : Noted(p, acts) => Noted(q, acts)
  BY <1>1 DEF Noted, TimesCommitted
<1>4. Remembered(q)
  BY <1>1, <1>3 DEF IsProfile, Remembered
<1>5. IsProfile(q)
  BY <1>2, <1>4 DEF IsProfile
<1> QED
  BY <1>1, <1>5 DEF q

\* A commit keeps what holds of the profiles.
LEMMA CommitKeepsProfiles ==
  ASSUME NEW p, IsProfile(p), NEW acts \in Seq(Actions), acts # << >>
  PROVE  /\ IsProfile(CommittedTo(p, TraceOf(acts)))
         /\ CommittedTo(p, TraceOf(acts)).commits = p.commits + 1
<1> DEFINE b == TraceOf(acts)
           fresh == IsNewContinuation(b, p)
           k == PrefixOf(b)
           e == [prefix |-> k, actions |-> b.actions, distinct |-> fresh]
           q == [p EXCEPT
                   !.history = NewestOf(Append(@, e), HistoryLimit),
                   !.counts = [r \in DOMAIN @ \cup {k} |->
                                TimesCommitted(p, r) + (IF r = k THEN 1 ELSE 0)],
                   !.commits = @ + 1,
                   !.distinct = IF fresh THEN @ + 1 ELSE @,
                   !.repeated = IF fresh THEN @ ELSE @ + 1,
                   !.clusters = @ \cup b.clusters,
                   !.finals = @ \cup {b.finalCluster},
                   !.hashes = @ \cup b.hashes]
           new == NewestOf(Append(p.history, e), HistoryLimit)
           old == p.history
           N == Len(new)
           d == Len(old) + 1 - N
<1>1. CommittedTo(p, b) = Saturated(q)
  BY DEF CommittedTo
<1>2. b.actions = acts
  BY DEF TraceOf, Continuation
<1>3. /\ e.actions = acts /\ (e.distinct <=> fresh)
  BY <1>2
<1>4. Counters(p) /\ Counted(p) /\ Remembered(p) /\ DOMAIN p = ProfileFields
  BY DEF IsProfile, Counters
<1>5. /\ q.history = new /\ q.commits = p.commits + 1
      /\ q.distinct = (IF fresh THEN p.distinct + 1 ELSE p.distinct)
      /\ q.repeated = (IF fresh THEN p.repeated ELSE p.repeated + 1)
      /\ q.clusters = p.clusters \cup b.clusters /\ q.finals = p.finals \cup {b.finalCluster}
      /\ q.hashes = p.hashes \cup b.hashes /\ DOMAIN q = ProfileFields
  <2> HIDE DEF new, e, fresh, b, k
  <2> QED
    BY <1>4 DEF ProfileFields, new
<1>6. q.counts = OneMore(p.counts, k)
  <2>1. q.counts = [r \in DOMAIN p.counts \cup {k} |->
                     TimesCommitted(p, r) + (IF r = k THEN 1 ELSE 0)]
    <3> HIDE DEF new, e, fresh, b, k
    <3> QED
      BY <1>4 DEF ProfileFields
  <2> QED
    BY <2>1 DEF TimesCommitted, OneMore
<1>7. /\ p.commits \in Nat /\ p.distinct \in Nat /\ p.repeated \in Nat
      /\ p.commits = p.distinct + p.repeated /\ HistoryLimit \in Nat \ {0}
  BY <1>4, ProgressionAssumption DEF Counters, Balanced
<1> HIDE DEF q, e
<1>8. Counters(q)
  BY <1>5, <1>7 DEF Counters, Balanced
<1>9. Counted(q)
  <2> DEFINE D == DOMAIN p.counts
  <2>1. IsFiniteSet(D) /\ p.counts \in [D -> Nat] /\ SumOfCounts(p.counts) = p.commits
    BY <1>4 DEF Counted
  <2>2. /\ IsFiniteSet(D \cup {k}) /\ OneMore(p.counts, k) \in [D \cup {k} -> Nat]
        /\ SumOfCounts(OneMore(p.counts, k)) = SumOfCounts(p.counts) + 1
    <3> HIDE DEF D, k
    <3> QED
      BY <2>1, CountsAddUp
  <2>3. /\ IsFiniteSet(DOMAIN q.counts) /\ q.counts \in [DOMAIN q.counts -> Nat]
        /\ SumOfCounts(q.counts) = q.commits
    <3> HIDE DEF k, D
    <3> QED
      BY <1>5, <1>6, <2>1, <2>2
  <2>4. q.distinct > 0
    <3>1. CASE p.commits > 0
      <4> HIDE DEF fresh
      <4> QED
        BY <1>4, <1>5, <1>7, <3>1 DEF Counted
    <3>2. CASE p.commits = 0
      <4>1. DOMAIN p.counts = {}
        BY <1>4, <3>2 DEF Counted
      <4>2. Replays(b, p) = 0
        BY <4>1 DEF Replays, TimesCommitted
      <4>3. fresh
        BY <4>2 DEF IsNewContinuation
      <4> HIDE DEF fresh
      <4> QED
        BY <1>5, <1>7, <4>3
    <3> QED
      BY <1>7, <3>1, <3>2
  <2> QED
    BY <1>5, <1>7, <2>3, <2>4 DEF Counted
<1>10. Shifted(new, old, e, HistoryLimit) /\ \E S : new \in Seq(S)
  <2>1. PICK S : old \in Seq(S)
    BY <1>4 DEF Remembered, Entries, IsList
  <2>2. old \in Seq(S \cup {e}) /\ e \in S \cup {e}
    BY <2>1
  <2>3. Len(old) <= HistoryLimit
    BY <1>4, <1>7 DEF Remembered
  <2> HIDE DEF old
  <2>4. /\ NewestOf(Append(old, e), HistoryLimit) \in Seq(S \cup {e})
        /\ Shifted(NewestOf(Append(old, e), HistoryLimit), old, e, HistoryLimit)
    BY <1>7, <2>2, <2>3, NewestIsShifted
  <2>5. new = NewestOf(Append(old, e), HistoryLimit)
    BY DEF old
  <2> QED
    BY <2>4, <2>5
<1> HIDE DEF new, fresh
<1>11. /\ N = (IF Len(old) < HistoryLimit THEN Len(old) + 1 ELSE HistoryLimit)
       /\ N \in Nat \ {0} /\ Len(old) \in Nat /\ d \in {0, 1}
       /\ DOMAIN new = 1..N /\ DOMAIN old = 1..Len(old) /\ new[N] = e
       /\ \A i \in 1..(N - 1) : i + d \in 1..Len(old) /\ new[i] = old[i + d]
  BY <1>10 DEF Shifted
<1> HIDE DEF N, d
<1>12. ASSUME NEW i \in DOMAIN new
       PROVE  \/ i = N /\ new[i] = e
              \/ i \in 1..(N - 1) /\ i + d \in DOMAIN old /\ new[i] = old[i + d]
  <2>1. i \in 1..N /\ N \in Nat
    BY <1>11
  <2>2. i = N \/ i \in 1..(N - 1)
    BY <2>1
  <2> QED
    BY <1>11, <2>2
<1>13. Remembered(q)
  <2>1. Entries(new)
    <3>1. IsList(new)
      BY <1>10 DEF IsList
    <3>2. ASSUME NEW i \in DOMAIN new PROVE new[i].actions \in Seq(Actions) \ {<< >>}
      BY <1>3, <1>4, <1>12 DEF Remembered, Entries
    <3> QED
      BY <3>1, <3>2 DEF Entries
  <2>2. Len(new) = (IF q.commits < HistoryLimit THEN q.commits ELSE HistoryLimit)
    <3>1. Len(old) = (IF p.commits < HistoryLimit THEN p.commits ELSE HistoryLimit)
      BY <1>4 DEF Remembered
    <3> HIDE DEF old
    <3> QED
      BY <1>5, <1>7, <1>11, <3>1 DEF N
  <2>3. Cardinality(Repeats(new)) <= q.repeated
    <3>1. /\ Cardinality(Repeats(new)) \in Nat /\ Cardinality(Repeats(old)) \in Nat
          /\ e.distinct => Cardinality(Repeats(new)) <= Cardinality(Repeats(old))
          /\ Cardinality(Repeats(new)) <= Cardinality(Repeats(old)) + 1
      BY <1>10, RepeatsOfNewest
    <3>2. Cardinality(Repeats(old)) <= p.repeated
      BY <1>4 DEF Remembered
    <3>3. CASE fresh
      BY <1>3, <1>5, <1>7, <3>1, <3>2, <3>3
    <3>4. CASE ~ fresh
      BY <1>5, <1>7, <3>1, <3>2, <3>4
    <3> QED
      BY <3>3, <3>4
  <2>4. ASSUME NEW i \in DOMAIN new PROVE Noted(q, new[i].actions)
    <3>1. ASSUME NEW a, Noted(p, a) PROVE Noted(q, a)
      <4> DEFINE r == PrefixOf(TraceOf(a))
      <4>1. TimesCommitted(p, r) > 0
        BY <3>1 DEF Noted
      <4> HIDE DEF r, k
      <4>2. r \in DOMAIN p.counts /\ p.counts[r] \in Nat /\ p.counts[r] > 0
        BY <1>4, <4>1 DEF TimesCommitted, Counted
      <4>3. r \in DOMAIN q.counts /\ q.counts[r] = p.counts[r] + (IF r = k THEN 1 ELSE 0)
        BY <1>6, <4>2 DEF OneMore
      <4>4. TimesCommitted(q, r) > 0
        BY <4>2, <4>3 DEF TimesCommitted
      <4> QED
        BY <1>5, <3>1, <4>4 DEF Noted, r
    <3>2. Noted(q, acts)
      <4> DEFINE r == PrefixOf(TraceOf(acts))
      <4>1. r = k
        OBVIOUS
      <4> HIDE DEF r, k
      <4>2. k \in DOMAIN q.counts
            /\ q.counts[k] = (IF k \in DOMAIN p.counts THEN p.counts[k] ELSE 0) + 1
        BY <1>6 DEF OneMore
      <4>3. (IF k \in DOMAIN p.counts THEN p.counts[k] ELSE 0) \in Nat
        BY <1>4 DEF Counted
      <4>4. TimesCommitted(q, r) > 0
        BY <4>1, <4>2, <4>3 DEF TimesCommitted
      <4> QED
        BY <1>5, <4>4 DEF Noted, r
    <3> QED
      BY <1>3, <1>4, <1>12, <3>1, <3>2 DEF Remembered
  <2>5. ASSUME NEW i \in DOMAIN new, NEW j \in DOMAIN new, i < j, new[i].actions = new[j].actions
        PROVE  ~ new[j].distinct
    <3>1. i \in 1..N /\ j \in 1..N /\ N \in Nat
      BY <1>11
    <3>2. i \in 1..(N - 1) /\ i # N
      BY <2>5, <3>1
    <3>3. i + d \in DOMAIN old /\ new[i] = old[i + d]
      BY <1>12, <3>2
    <3>4. CASE j = N
      <4>1. new[j] = e /\ old[i + d].actions = acts
        BY <1>3, <1>11, <2>5, <3>3, <3>4
      <4>2. ~ fresh
        BY <3>3, <4>1, NotedIsNotNew DEF fresh
      <4> QED
        BY <1>3, <4>1, <4>2
    <3>5. CASE j # N
      <4>1. j + d \in DOMAIN old /\ new[j] = old[j + d]
        BY <1>12, <3>5
      <4>2. i + d < j + d
        BY <1>11, <2>5, <3>1
      <4>3. NoRepeats(old)
        BY <1>4 DEF Remembered
      <4> QED
        BY <2>5, <3>3, <4>1, <4>2, <4>3 DEF NoRepeats
    <3> QED
      BY <3>4, <3>5
  <2>6. NoRepeats(new)
    BY <2>5 DEF NoRepeats
  <2>7. \A i \in DOMAIN q.history : Noted(q, q.history[i].actions)
    BY <1>5, <2>4
  <2> QED
    BY <1>5, <2>1, <2>2, <2>3, <2>6, <2>7 DEF Remembered
<1>14. IsProfile(q)
  BY <1>8, <1>9, <1>13 DEF IsProfile
<1> QED
  BY <1>1, <1>5, <1>14, SaturationKeepsProfiles

\* An update of the progression never takes a commit back.
LEMMA CommitsGrow ==
  ASSUME NEW p, IsProfile(p), NEW acts \in Seq(Actions), NEW allowed
  PROVE  /\ IsProfile(UpdatedProfile(p, TraceOf(acts), allowed))
         /\ p.commits <= UpdatedProfile(p, TraceOf(acts), allowed).commits
<1>1. p.commits \in Nat
  BY DEF IsProfile, Counters
<1>2. TraceOf(acts).actions = acts
  BY DEF TraceOf, Continuation
<1>3. CASE allowed /\ acts # << >>
  BY <1>1, <1>2, <1>3, CommitKeepsProfiles DEF UpdatedProfile
<1>4. CASE ~ (allowed /\ acts # << >>)
  BY <1>1, <1>2, <1>4, SaturationKeepsProfiles DEF UpdatedProfile
<1> QED
  BY <1>3, <1>4

IsSupport(counts) == counts \in [DOMAIN counts -> Nat]

IsModel(m) ==
  /\ DOMAIN m = ModelFields
  /\ IsSupport(m.priors) /\ IsSupport(m.antipriors)
  /\ IsProfile(m.profile)

\* What the later of two models of a root owes to the earlier one.
KnowsAll(new, old) ==
  /\ old.hints \subseteq new.hints /\ old.objects \subseteq new.objects
  /\ old.subgoals \subseteq new.subgoals
  /\ SupportGrows(old.priors, new.priors) /\ SupportGrows(old.antipriors, new.antipriors)
  /\ old.profile.commits <= new.profile.commits

\* What a root starts with.
LEMMA NewModelIsAModel ==
  \A p : IsProfile(p) => IsModel(EmptyModel(p))
<1>2. ASSUME NEW p, IsProfile(p)
      PROVE  IsModel(EmptyModel(p))
  <2>1. IsSupport([a \in {} |-> 0])
    BY DEF IsSupport
  <2>2. QED BY <1>2, <2>1 DEF IsModel, EmptyModel, ModelFields
<1>3. QED BY <1>2

\* A model owes nothing to itself.
LEMMA ModelKnowsItself ==
  ASSUME NEW m, IsModel(m)
  PROVE  KnowsAll(m, m)
<1>1. \A counts : IsSupport(counts) => SupportGrows(counts, counts)
  BY DEF IsSupport, SupportGrows
<1>2. m.profile.commits \in Nat
  BY DEF IsModel, IsProfile, Counters
<1>3. QED BY <1>1, <1>2 DEF KnowsAll, IsModel

\* Support is only ever added (_merge_action_biases).
LEMMA SupportIsAdded ==
  ASSUME NEW counts, IsSupport(counts), NEW S
  PROVE  IsSupport(Supported(counts, S)) /\ SupportGrows(counts, Supported(counts, S))
<1>1. DOMAIN Supported(counts, S) = DOMAIN counts \cup S
  BY DEF Supported
<1>2. ASSUME NEW a \in DOMAIN counts \cup S
      PROVE  /\ Supported(counts, S)[a] \in Nat
             /\ a \in DOMAIN counts => counts[a] <= Supported(counts, S)[a]
  BY <1>2 DEF IsSupport, Supported
<1>3. Supported(counts, S) \in [DOMAIN counts \cup S -> Nat]
  BY <1>2 DEF Supported
<1>4. QED BY <1>1, <1>2, <1>3 DEF IsSupport, SupportGrows

\* A lesson adds to the model it is learned into (update_local_world_model), and
\* the progression that is stored with it has no commit less.
LEMMA LearningForgetsNothing ==
  ASSUME NEW m, IsModel(m), NEW lesson,
         NEW p, IsProfile(p), m.profile.commits <= p.commits
  PROVE  LET learned == [Learned(m, lesson) EXCEPT !.profile = p]
         IN  IsModel(learned) /\ KnowsAll(learned, m)
<1> DEFINE prefer == UNION {h.prefer : h \in ToSet(lesson.hint)}
           avoid == UNION {h.avoid : h \in ToSet(lesson.hint)}
           hinted == WithHint(m, lesson.hint)
           found == WithDiscoveries(hinted, lesson)
           learned == [Learned(m, lesson) EXCEPT !.profile = p]
<1>1. /\ DOMAIN hinted = ModelFields /\ m.hints \subseteq hinted.hints
      /\ hinted.objects = m.objects /\ hinted.subgoals = m.subgoals
      /\ hinted.priors = m.priors /\ hinted.antipriors = m.antipriors
  BY DEF IsModel, WithHint, ModelFields
<1>2. /\ DOMAIN found = ModelFields /\ found.hints = hinted.hints
      /\ hinted.objects \subseteq found.objects /\ hinted.subgoals \subseteq found.subgoals
      /\ found.priors = m.priors /\ found.antipriors = m.antipriors
  BY <1>1 DEF WithDiscoveries, ModelFields
<1>3. Learned(m, lesson) = [found EXCEPT !.priors = Supported(@, prefer),
                                         !.antipriors = Supported(@, avoid)]
  BY DEF Learned
<1> HIDE DEF hinted, found, prefer, avoid
<1>4. /\ DOMAIN learned = ModelFields /\ learned.hints = found.hints
      /\ learned.objects = found.objects /\ learned.subgoals = found.subgoals
      /\ learned.priors = Supported(m.priors, prefer)
      /\ learned.antipriors = Supported(m.antipriors, avoid)
      /\ learned.profile = p
  BY <1>2, <1>3 DEF ModelFields
<1> HIDE DEF learned
<1>5. /\ IsSupport(m.priors) /\ IsSupport(m.antipriors)
  BY DEF IsModel
<1>6. /\ IsSupport(learned.priors) /\ SupportGrows(m.priors, learned.priors)
      /\ IsSupport(learned.antipriors) /\ SupportGrows(m.antipriors, learned.antipriors)
  BY <1>4, <1>5, SupportIsAdded
<1>7. IsModel(learned)
  BY <1>4, <1>6 DEF IsModel
<1>8. KnowsAll(learned, m)
  BY <1>1, <1>2, <1>4, <1>6 DEF KnowsAll
<1>9. QED BY <1>7, <1>8 DEF learned

-----------------------------------------------------------------------------
(* The files of the root, through visits and crashes. *)

(***************************************************************************)
(* The inductive invariant.  A visit explores with the model that is still *)
(* on disk; what it then writes knows all of that model; from the write of *)
(* model.json on, the model on disk is the one being written.  The other   *)
(* files hold something only when a model was written before them.         *)
(***************************************************************************)
ModelFile ==
  \/ files.model = None
  \/ files.model = Torn
  \/ files.model = <<files.model[1]>> /\ IsModel(files.model[1])

ProfileOnDisk == IF files.model = None THEN EmptyProfile ELSE files.model[1].profile

Explores ==
  phase = "exploring" =>
    visit.model = files.model /\ files.model # Torn /\ visit.profile = ProfileOnDisk

Writes ==
  phase \in DOMAIN NextFile =>
    /\ update = <<update[1]>> /\ IsModel(update[1])
    /\ files.model # Torn
    /\ Holds(files.model) => KnowsAll(update[1], files.model[1])

WrittenModel == phase \in {"summary", "copy", "decay", "decaySummary"} => files.model = update

OtherFiles ==
  /\ DOMAIN files = {"model", "summary", "bundle"}
  /\ files.model = None => ~ Holds(files.summary) /\ ~ Holds(files.bundle)
  /\ Holds(files.summary) => files.summary[1].commits \in Nat
  /\ Holds(files.bundle) => files.bundle[1].profile.commits \in Nat

FilesInv ==
  /\ ModelFile /\ Explores /\ Writes /\ WrittenModel /\ OtherFiles
  /\ NothingAheadOfTheModel

\* What a file can be, told apart by its length.
LEMMA FileKinds ==
  /\ ~ Holds(None) /\ ~ Holds(Torn) /\ None # Torn
  /\ \A m : Holds(<<m>>) /\ <<m>> # None /\ <<m>> # Torn /\ <<m>>[1] = m
  BY DEF Holds, None, Torn

\* The phases in which a file is written.
LEMMA WritingPhases ==
  /\ DOMAIN NextFile = {"bundle", "model", "summary", "copy", "decay", "decaySummary"}
  /\ NextFile["bundle"] = "model" /\ NextFile["model"] = "summary"
  /\ NextFile["summary"] = "copy" /\ NextFile["copy"] = "decay"
  /\ NextFile["decay"] = "decaySummary" /\ NextFile["decaySummary"] = "idle"
  BY DEF NextFile

\* What is known is known of everything before it.
LEMMA KnowingAll ==
  ASSUME NEW u, IsModel(u), NEW m, IsModel(m), KnowsAll(u, m), FilesInv, files.model = <<m>>
  PROVE  /\ Holds(files.summary) => files.summary[1].commits <= u.profile.commits
         /\ Holds(files.bundle) => /\ files.bundle[1].hints \subseteq u.hints
                                   /\ files.bundle[1].profile.commits <= u.profile.commits
<1>1. m.profile.commits \in Nat /\ u.profile.commits \in Nat /\ m.profile.commits <= u.profile.commits
  BY DEF IsModel, IsProfile, Counters, KnowsAll
<1>2. Holds(files.model) /\ files.model[1] = m
  BY FileKinds
<1>3. QED
  BY <1>1, <1>2 DEF FilesInv, NothingAheadOfTheModel, OtherFiles, KnowsAll

\* Nothing has been written yet.
LEMMA InitFilesInv == Init => FilesInv
<1> SUFFICES ASSUME Init PROVE FilesInv
  OBVIOUS
<1>1. phase = "idle" /\ files = [model |-> None, summary |-> None, bundle |-> None]
  BY DEF Init, NoFiles
<1>2. files.model = None /\ files.summary = None /\ files.bundle = None
      /\ DOMAIN files = {"model", "summary", "bundle"}
  BY <1>1
<1>3. QED
  BY <1>1, <1>2, FileKinds, WritingPhases
  DEF FilesInv, ModelFile, Explores, Writes, WrittenModel, OtherFiles, NothingAheadOfTheModel

\* What TypeOK leaves out: the branches are a list, and there are none between visits.
Branches ==
  /\ IsList(done)
  /\ phase # "exploring" => done = << >>

\* The finished branches, as a visit ranks them.
BranchesInv == TypeOK /\ Branches /\ MeasuresInv

\* The update at the end of a visit knows all of the model the visit started from.
LEMMA FinishKeepsFilesInv == FilesInv /\ BranchesInv /\ FinishExploration => FilesInv'
<1> SUFFICES ASSUME FilesInv, BranchesInv, FinishExploration PROVE FilesInv'
  OBVIOUS
<1>1. /\ phase = "exploring" /\ phase' = "bundle" /\ files' = files
      /\ visit.model = files.model /\ files.model # Torn
      /\ visit.profile = ProfileOnDisk
  BY DEF FinishExploration, FilesInv, Explores
<1>2. PICK lesson \in LessonsOfVisit :
        update' = <<[Learned(KnownModel, lesson) EXCEPT !.profile = ProfileAfter]>>
  BY DEF FinishExploration
<1>3. \/ files.model = None /\ KnownModel = EmptyModel(EmptyProfile) /\ visit.profile = EmptyProfile
      \/ /\ files.model = <<files.model[1]>> /\ IsModel(files.model[1])
         /\ KnownModel = files.model[1] /\ visit.profile = files.model[1].profile
  BY <1>1, FileKinds DEF FilesInv, ModelFile, KnownModel, FreshModel, ProfileOnDisk
<1>4. /\ IsModel(KnownModel) /\ IsProfile(visit.profile)
      /\ KnownModel.profile.commits <= visit.profile.commits
  <2>1. CASE files.model = None
    <3>1. KnownModel = EmptyModel(EmptyProfile) /\ visit.profile = EmptyProfile
      BY <1>3, <2>1, FileKinds
    <3>2. EmptyModel(EmptyProfile).profile = EmptyProfile /\ EmptyProfile.commits = 0
      BY DEF EmptyModel, EmptyProfile
    <3>3. QED BY <3>1, <3>2, EmptyIsAProfile, NewModelIsAModel
  <2>2. CASE files.model # None
    BY <1>3, <2>2 DEF IsModel, IsProfile, Counters
  <2>3. QED BY <2>1, <2>2
<1>5. IsProfile(ProfileAfter) /\ KnownModel.profile.commits <= ProfileAfter.commits
  <2>1. IsProfile(ProfileAfter) /\ visit.profile.commits <= ProfileAfter.commits
    <3>1. CASE Comparable = {}
      BY <1>4, <3>1 DEF ProfileAfter, IsProfile, Counters
    <3>2. CASE Comparable # {}
      <4> DEFINE acts == done[BestBranch].actions
      <4>1. BestBranch \in DOMAIN done
        BY <3>2, BestIsComparable DEF BranchesInv, Branches, Comparable
      <4>2. acts \in Seq(Actions)
        BY <4>1 DEF BranchesInv, TypeOK
      <4>3. ProfileAfter = UpdatedProfile(visit.profile, TraceOf(acts), BestIsAllowed)
        BY <3>2 DEF ProfileAfter, TraceOf
      <4> HIDE DEF acts
      <4>4. QED BY <1>4, <4>2, <4>3, CommitsGrow
    <3>3. QED BY <3>1, <3>2
  <2>2. KnownModel.profile.commits \in Nat /\ ProfileAfter.commits \in Nat
        /\ visit.profile.commits \in Nat
    BY <1>4, <2>1 DEF IsModel, IsProfile, Counters
  <2>3. QED BY <1>4, <2>1, <2>2
<1>6. /\ update' = <<update'[1]>> /\ IsModel(update'[1]) /\ KnowsAll(update'[1], KnownModel)
  BY <1>2, <1>4, <1>5, LearningForgetsNothing
<1>7. Writes'
  BY <1>1, <1>3, <1>6, FileKinds DEF Writes
<1>8. QED
  BY <1>1, <1>7 DEF FilesInv, ModelFile, Explores, WrittenModel, OtherFiles, NothingAheadOfTheModel

\* The order in which the files of an update are written.
LEMMA WriteKeepsFilesInv == FilesInv /\ WriteFile => FilesInv'
<1> SUFFICES ASSUME FilesInv, WriteFile PROVE FilesInv'
  OBVIOUS
<1>1. /\ phase \in {"bundle", "model", "summary", "copy", "decay", "decaySummary"}
      /\ files' = FilesAfter(phase) /\ phase' = NextFile[phase]
      /\ update' = IF phase' = "idle" THEN None ELSE update
      /\ update = <<update[1]>> /\ IsModel(update[1])
      /\ Holds(files.model) => KnowsAll(update[1], files.model[1])
      /\ DOMAIN files = {"model", "summary", "bundle"}
      /\ files.model # Torn
  BY WritingPhases DEF WriteFile, FilesInv, Writes, OtherFiles
<1> DEFINE u == update[1]
<1>2. u.profile.commits \in Nat /\ Holds(update) /\ update # None /\ update # Torn /\ KnowsAll(u, u)
  BY <1>1, FileKinds, ModelKnowsItself DEF IsModel, IsProfile, Counters
<1>3. CASE phase = "bundle"
  <2>1. files' = [files EXCEPT !.bundle = None] /\ phase' = "model" /\ update' = update
    BY <1>1, <1>3, WritingPhases DEF FilesAfter, WritesModel, WritesSummary
  <2>2. files'.model = files.model /\ files'.summary = files.summary /\ files'.bundle = None
        /\ DOMAIN files' = {"model", "summary", "bundle"}
    BY <1>1, <2>1
  <2>3. QED
    BY <1>1, <2>1, <2>2, FileKinds, WritingPhases
    DEF FilesInv, ModelFile, Explores, Writes, WrittenModel, OtherFiles, NothingAheadOfTheModel
<1>4. CASE phase \in {"model", "decay"}
  <2>1. /\ files' = [files EXCEPT !.model = update] /\ phase' \in {"summary", "decaySummary"}
        /\ update' = update
    BY <1>1, <1>4, WritingPhases DEF FilesAfter, WritesModel, WritesSummary
  <2>2. files'.model = <<u>> /\ files'.summary = files.summary /\ files'.bundle = files.bundle
        /\ DOMAIN files' = {"model", "summary", "bundle"}
    BY <1>1, <2>1
  <2>3. NothingAheadOfTheModel'
    <3>1. CASE files.model = None
      BY <2>2, <3>1 DEF FilesInv, OtherFiles, NothingAheadOfTheModel
    <3>2. CASE files.model # None
      <4>1. files.model = <<files.model[1]>> /\ IsModel(files.model[1])
        BY <1>1, <3>2 DEF FilesInv, ModelFile
      <4>2. /\ Holds(files.summary) => files.summary[1].commits <= u.profile.commits
            /\ Holds(files.bundle) => /\ files.bundle[1].hints \subseteq u.hints
                                      /\ files.bundle[1].profile.commits <= u.profile.commits
        BY <1>1, <4>1, KnowingAll, FileKinds
      <4>3. QED BY <2>2, <4>2, FileKinds DEF NothingAheadOfTheModel
    <3>3. QED BY <3>1, <3>2
  <2>4. OtherFiles'
    BY <2>2, FileKinds DEF FilesInv, OtherFiles
  <2>5. Writes' /\ WrittenModel' /\ ModelFile' /\ Explores'
    BY <1>1, <1>2, <2>1, <2>2, FileKinds, WritingPhases
    DEF Writes, WrittenModel, ModelFile, Explores
  <2>6. QED BY <2>3, <2>4, <2>5 DEF FilesInv
<1>5. CASE phase \in {"summary", "decaySummary"}
  <2>1. /\ files' = [files EXCEPT !.summary = <<u.profile>>] /\ phase' \in {"copy", "idle"}
        /\ phase' = "idle" \/ update' = update
        /\ files.model = update
    BY <1>1, <1>5, WritingPhases DEF FilesAfter, WritesModel, WritesSummary, FilesInv, WrittenModel
  <2>2. files'.model = <<u>> /\ files'.summary = <<u.profile>> /\ files'.bundle = files.bundle
        /\ DOMAIN files' = {"model", "summary", "bundle"}
    BY <1>1, <2>1
  <2>3. NothingAheadOfTheModel'
    BY <1>1, <1>2, <2>1, <2>2, FileKinds DEF FilesInv, NothingAheadOfTheModel
  <2>4. OtherFiles'
    BY <1>2, <2>2, FileKinds DEF FilesInv, OtherFiles
  <2>5. Writes' /\ WrittenModel' /\ ModelFile' /\ Explores'
    BY <1>1, <1>2, <2>1, <2>2, FileKinds, WritingPhases
    DEF Writes, WrittenModel, ModelFile, Explores
  <2>6. QED BY <2>3, <2>4, <2>5 DEF FilesInv
<1>6. CASE phase = "copy"
  <2>1. /\ files' = [files EXCEPT !.bundle = update] /\ phase' = "decay" /\ update' = update
        /\ files.model = update
    BY <1>1, <1>6, WritingPhases DEF FilesAfter, WritesModel, WritesSummary, FilesInv, WrittenModel
  <2>2. files'.model = <<u>> /\ files'.summary = files.summary /\ files'.bundle = <<u>>
        /\ DOMAIN files' = {"model", "summary", "bundle"}
    BY <1>1, <2>1
  <2>3. NothingAheadOfTheModel'
    BY <1>1, <1>2, <2>1, <2>2, FileKinds DEF FilesInv, NothingAheadOfTheModel
  <2>4. OtherFiles'
    BY <1>2, <2>2, FileKinds DEF FilesInv, OtherFiles
  <2>5. Writes' /\ WrittenModel' /\ ModelFile' /\ Explores'
    BY <1>1, <1>2, <2>1, <2>2, FileKinds, WritingPhases
    DEF Writes, WrittenModel, ModelFile, Explores
  <2>6. QED BY <2>3, <2>4, <2>5 DEF FilesInv
<1>7. QED BY <1>1, <1>3, <1>4, <1>5, <1>6

\* A crash loses the visit, and at most one file.
LEMMA CrashKeepsFilesInv == FilesInv /\ Crash => FilesInv'
<1> SUFFICES ASSUME FilesInv, Crash PROVE FilesInv'
  OBVIOUS
<1>1. phase' = "idle" /\ DOMAIN files = {"model", "summary", "bundle"}
  BY DEF Crash, FilesInv, OtherFiles
<1>2. files' \in {files, [files EXCEPT !.model = Torn], [files EXCEPT !.summary = Torn],
                  [files EXCEPT !.bundle = Torn]}
  BY DEF Crash, TornFiles
<1>3. /\ files'.model = files.model \/ files'.model = Torn
      /\ files'.summary = files.summary \/ files'.summary = Torn
      /\ files'.bundle = files.bundle \/ files'.bundle = Torn
      /\ DOMAIN files' = {"model", "summary", "bundle"}
  BY <1>1, <1>2
<1>4. QED
  BY <1>1, <1>3, FileKinds, WritingPhases
  DEF FilesInv, ModelFile, Explores, Writes, WrittenModel, OtherFiles, NothingAheadOfTheModel

\* Every step keeps the invariant.
LEMMA NextFilesInv == FilesInv /\ BranchesInv /\ [Next]_vars => FilesInv'
<1> SUFFICES ASSUME FilesInv, BranchesInv, [Next]_vars PROVE FilesInv'
  OBVIOUS
<1>1. ASSUME files' = files, phase' \notin DOMAIN NextFile,
             phase' = "exploring" => visit'.model = files.model /\ files.model # Torn
                                     /\ visit'.profile = ProfileOnDisk
      PROVE  FilesInv'
  BY <1>1, WritingPhases
  DEF FilesInv, ModelFile, Explores, Writes, WrittenModel, OtherFiles, NothingAheadOfTheModel,
      ProfileOnDisk
<1>2. CASE StartVisit
  <2>1. files' = files /\ phase' = "exploring" /\ files.model # Torn
        /\ visit'.model = files.model /\ visit'.profile = ProfileOnDisk
    BY <1>2 DEF StartVisit, ProfileOnDisk
  <2>2. QED BY <1>1, <2>1, WritingPhases
<1>3. CASE ReadRaises
  <2>1. files' = files /\ phase' = "died"
    BY <1>3 DEF ReadRaises
  <2>2. QED BY <1>1, <2>1, WritingPhases
<1>4. CASE BranchRestoreFails \/ BranchWithoutActions \/ \E a \in Actions : BranchStep(a)
  <2>1. files' = files /\ phase = "exploring" /\ phase' = phase /\ visit' = visit
    BY <1>4 DEF BranchRestoreFails, BranchWithoutActions, BranchStep
  <2>2. QED BY <1>1, <2>1, WritingPhases DEF FilesInv, Explores
<1>5. CASE FinishExploration
  BY <1>5, FinishKeepsFilesInv
<1>6. CASE WriteFile
  BY <1>6, WriteKeepsFilesInv
<1>7. CASE Crash
  BY <1>7, CrashKeepsFilesInv
<1>8. CASE UNCHANGED vars
  BY <1>8
  DEF vars, FilesInv, ModelFile, Explores, Writes, WrittenModel, OtherFiles,
      NothingAheadOfTheModel, ProfileOnDisk
<1>9. QED BY <1>2, <1>3, <1>4, <1>5, <1>6, <1>7, <1>8 DEF Next

-----------------------------------------------------------------------------
(* Type correctness. *)

\* A visit has room for at least one branch of at least one action.
LEMMA LimitsArePositive ==
  ASSUME TypeOK
  PROVE  BranchLimit \in Nat \ {0} /\ BranchHorizon \in Nat \ {0} /\ MaxVisits \in Nat
  BY ExplorerAssumption DEF BranchLimit

\* The branch in progress, or what was played of it, joins the finished ones.
LEMMA FinishedBranch ==
  ASSUME TypeOK, Branches, MoreBranches, NEW b, Finished(b), phase = "exploring",
         b.actions \in Seq(Actions), Len(b.actions) <= BranchHorizon,
         UNCHANGED <<phase, visit, update, files, visits>>
  PROVE  TypeOK' /\ Branches'
<1>1. BranchLimit \in Nat \ {0} /\ BranchHorizon \in Nat \ {0}
  BY LimitsArePositive
<1>2. PICK S : done \in Seq(S)
  BY DEF Branches, IsList
<1>3. done' = Append(done, b) /\ branch' = << >> /\ Len(done) < BranchLimit
  BY DEF Finished, MoreBranches
<1>4. /\ done' \in Seq(S \cup {b}) /\ Len(done') = Len(done) + 1 /\ Len(done) \in Nat
      /\ \A i \in DOMAIN done' : (i \in DOMAIN done /\ done'[i] = done[i]) \/ done'[i] = b
  <2>1. done \in Seq(S \cup {b}) /\ b \in S \cup {b}
    BY <1>2
  <2>2. /\ done' \in Seq(S \cup {b}) /\ Len(done') = Len(done) + 1 /\ Len(done) \in Nat
    BY <1>3, <2>1
  <2>3. DOMAIN done = 1..Len(done) /\ DOMAIN done' = 1..(Len(done) + 1)
    BY <2>1, <2>2
  <2>4. ASSUME NEW i \in DOMAIN done'
        PROVE  (i \in DOMAIN done /\ done'[i] = done[i]) \/ done'[i] = b
    BY <1>3, <2>1, <2>2, <2>3
  <2>5. QED BY <2>2, <2>4
<1>5. Len(done') <= BranchLimit /\ BranchLimit' = BranchLimit
  BY <1>1, <1>3, <1>4 DEF BranchLimit
<1>6. branch' \in Seq(Actions) /\ Len(branch') < BranchHorizon
  BY <1>1, <1>3
<1>7. \A i \in DOMAIN done' :
        done'[i].actions \in Seq(Actions) /\ Len(done'[i].actions) <= BranchHorizon
  BY <1>4 DEF TypeOK
<1>8. QED BY <1>4, <1>5, <1>6, <1>7 DEF TypeOK, Branches, IsList

\* A visit starts and ends without branches, and in between has at most
\* BranchLimit of them.
LEMMA NextTypeOK == TypeOK /\ Branches /\ [Next]_vars => TypeOK' /\ Branches'
<1> SUFFICES ASSUME TypeOK, Branches, [Next]_vars PROVE TypeOK' /\ Branches'
  OBVIOUS
<1>1. /\ BranchLimit \in Nat \ {0} /\ BranchHorizon \in Nat \ {0} /\ MaxVisits \in Nat
      /\ branch \in Seq(Actions) /\ Len(branch) \in Nat /\ Len(branch) < BranchHorizon
      /\ << >> \in Seq(Actions) /\ Len(<< >>) = 0
  BY LimitsArePositive DEF TypeOK
<1>2. ASSUME done' = << >>, phase' # "exploring" \/ done = << >>,
             phase' \in {"idle", "exploring", "died"} \cup DOMAIN NextFile,
             visits' \in 0..MaxVisits, visit'.replayable \in BOOLEAN,
             branch' = branch \/ branch' = << >>,
             (update' = None) = (phase' \notin DOMAIN NextFile)
      PROVE  TypeOK' /\ Branches'
  <2>1. TypeOK'
    <3>1. Len(done') <= BranchLimit' /\ DOMAIN done' = {}
      BY <1>2, ExplorerAssumption DEF BranchLimit
    <3>2. branch' \in Seq(Actions) /\ Len(branch') < BranchHorizon
      <4>1. CASE branch' = branch
        BY <1>1, <4>1
      <4>2. CASE branch' = << >>
        BY <1>1, <4>2
      <4>3. QED BY <1>2, <4>1, <4>2
    <3>3. QED BY <1>2, <3>1, <3>2 DEF TypeOK
  <2>2. Branches'
    <3>1. << >> \in Seq({})
      OBVIOUS
    <3>2. QED BY <1>2, <3>1 DEF Branches, IsList
  <2>3. QED BY <2>1, <2>2
<1>3. CASE StartVisit
  <2>1. /\ done = << >> /\ done' = done /\ phase' = "exploring" /\ visits' = visits + 1
        /\ visits < MaxVisits /\ branch' = branch /\ update' = update
        /\ visit'.replayable \in BOOLEAN /\ phase = "idle"
    BY <1>3 DEF StartVisit, Branches
  <2>2. visits' \in 0..MaxVisits /\ (update' = None) = (phase' \notin DOMAIN NextFile)
    BY <1>1, <2>1, WritingPhases DEF TypeOK
  <2>3. QED BY <1>2, <2>1, <2>2
<1>4. CASE ReadRaises
  <2>1. /\ done = << >> /\ done' = done /\ phase = "idle" /\ phase' = "died"
        /\ UNCHANGED <<visit, branch, update, visits>>
    BY <1>4 DEF ReadRaises, Branches
  <2>2. (update' = None) = (phase' \notin DOMAIN NextFile)
    BY <2>1, WritingPhases DEF TypeOK
  <2>3. visits' \in 0..MaxVisits /\ visit'.replayable \in BOOLEAN
    BY <2>1 DEF TypeOK
  <2>4. QED BY <1>2, <2>1, <2>2, <2>3
<1>5. CASE BranchRestoreFails
  <2>1. PICK b : /\ Finished(b) /\ b.actions = << >> /\ MoreBranches /\ phase = "exploring"
                 /\ UNCHANGED <<phase, visit, update, files, visits>>
    BY <1>5 DEF BranchRestoreFails, Outcome
  <2>2. b.actions \in Seq(Actions) /\ Len(b.actions) <= BranchHorizon
    BY <1>1, <2>1
  <2>3. QED BY <2>1, <2>2, FinishedBranch
<1>6. CASE BranchWithoutActions
  <2>1. PICK b : /\ Finished(b) /\ b.actions = branch /\ MoreBranches /\ phase = "exploring"
                 /\ UNCHANGED <<phase, visit, update, files, visits>>
    BY <1>6 DEF BranchWithoutActions, Outcome
  <2>2. b.actions \in Seq(Actions) /\ Len(b.actions) <= BranchHorizon
    BY <1>1, <2>1
  <2>3. QED BY <2>1, <2>2, FinishedBranch
<1>7. ASSUME NEW a \in Actions, BranchStep(a)
      PROVE  TypeOK' /\ Branches'
  <2> DEFINE acts == Append(branch, a)
  <2>1. acts \in Seq(Actions) /\ Len(acts) = Len(branch) + 1
    BY <1>1
  <2>2. CASE EndsWith(acts)
    <3>1. PICK b : /\ Finished(b) /\ b.actions = acts /\ MoreBranches /\ phase = "exploring"
                   /\ UNCHANGED <<phase, visit, update, files, visits>>
      BY <1>7, <2>2 DEF BranchStep, Outcome
    <3>2. b.actions \in Seq(Actions) /\ Len(b.actions) <= BranchHorizon
      BY <1>1, <2>1, <3>1
    <3>3. QED BY <3>1, <3>2, FinishedBranch
  <2>3. CASE ~ EndsWith(acts)
    <3>1. /\ branch' = acts /\ UNCHANGED <<phase, visit, done, update, files, visits>>
      BY <1>7, <2>3 DEF BranchStep
    <3>2. Len(acts) < BranchHorizon
      BY <1>1, <2>1, <2>3 DEF EndsWith
    <3>3. QED BY <2>1, <3>1, <3>2 DEF TypeOK, Branches, IsList, BranchLimit
  <2>4. QED BY <2>2, <2>3
<1>8. CASE FinishExploration
  <2>1. /\ done' = << >> /\ phase' = "bundle" /\ visit' = NoVisit /\ visits' = visits
        /\ branch' = branch /\ \E u : update' = <<u>>
    BY <1>8 DEF FinishExploration
  <2>2. (update' = None) = (phase' \notin DOMAIN NextFile)
    BY <2>1, FileKinds, WritingPhases
  <2>3. visits' \in 0..MaxVisits /\ visit'.replayable \in BOOLEAN
    BY <2>1 DEF TypeOK, NoVisit
  <2>4. QED BY <1>2, <2>1, <2>2, <2>3, WritingPhases
<1>9. CASE WriteFile
  <2>1. /\ phase \in DOMAIN NextFile /\ phase' = NextFile[phase]
        /\ update' = IF phase' = "idle" THEN None ELSE update
        /\ UNCHANGED <<visit, done, branch, visits>>
    BY <1>9 DEF WriteFile
  <2>2. /\ phase' \in {"idle"} \cup DOMAIN NextFile /\ phase # "exploring"
        /\ phase' # "exploring"
        /\ (update' = None) = (phase' \notin DOMAIN NextFile)
    BY <2>1, WritingPhases DEF TypeOK
  <2>3. done = << >> /\ visits' \in 0..MaxVisits /\ visit'.replayable \in BOOLEAN
    BY <2>1, <2>2 DEF TypeOK, Branches
  <2>4. QED BY <1>2, <2>1, <2>2, <2>3
<1>10. CASE Crash
  <2>1. /\ phase' = "idle" /\ visit' = NoVisit /\ done' = << >> /\ branch' = << >>
        /\ update' = None /\ visits' = visits
    BY <1>10 DEF Crash
  <2>2. visits' \in 0..MaxVisits /\ visit'.replayable \in BOOLEAN
    BY <2>1 DEF TypeOK, NoVisit
  <2>3. QED BY <1>2, <2>1, <2>2, WritingPhases
<1>11. CASE UNCHANGED vars
  BY <1>11 DEF vars, TypeOK, Branches, IsList, BranchLimit
<1>12. QED BY <1>3, <1>4, <1>5, <1>6, <1>7, <1>8, <1>9, <1>10, <1>11 DEF Next

\* Before the first visit.
LEMMA InitTypeOK == Init => TypeOK /\ Branches
<1> SUFFICES ASSUME Init PROVE TypeOK /\ Branches
  OBVIOUS
<1>1. /\ phase = "idle" /\ visit.replayable = FALSE /\ done = << >> /\ branch = << >>
      /\ update = None /\ visits = 0
  BY DEF Init, NoVisit
<1>2. BranchLimit = 1 /\ BranchHorizon \in Nat \ {0} /\ MaxVisits \in Nat
  BY <1>1, ExplorerAssumption DEF BranchLimit
<1>3. << >> \in Seq(Actions) /\ << >> \in Seq({}) /\ Len(<< >>) = 0 /\ DOMAIN << >> = {}
  OBVIOUS
<1>4. Branches
  BY <1>1, <1>3 DEF Branches, IsList
<1>5. (update = None) = (phase \notin DOMAIN NextFile)
  BY <1>1, WritingPhases
<1>6. TypeOK
  <2>1. branch \in Seq(Actions) /\ Len(branch) < BranchHorizon
    BY <1>1, <1>2
  <2>2. Len(done) <= BranchLimit /\ DOMAIN done = {}
    BY <1>1, <1>2
  <2>3. visits \in 0..MaxVisits
    BY <1>1, <1>2
  <2>4. QED BY <1>1, <1>5, <2>1, <2>2, <2>3 DEF TypeOK
<1>7. QED BY <1>4, <1>6

-----------------------------------------------------------------------------
(* What a visit reads and measures. *)

\* The progression that the visit ranks against is one that earlier visits wrote.
VisitInv == IsProfile(visit.profile) /\ visit.bestKnown \in Int

LEMMA NextVisitInv == VisitInv /\ FilesInv /\ [Next]_vars => VisitInv'
<1> SUFFICES ASSUME VisitInv, FilesInv, [Next]_vars PROVE VisitInv'
  OBVIOUS
<1>1. NoVisit.profile = EmptyProfile /\ NoVisit.bestKnown = 0
  BY DEF NoVisit
<1>2. CASE StartVisit
  <2>1. PICK best \in BestKnownScores, snapshot \in BOOLEAN :
          visit' = [model |-> files.model, bestKnown |-> best, replayable |-> snapshot,
                    profile |-> IF files.model = None THEN EmptyProfile ELSE files.model[1].profile]
    BY <1>2 DEF StartVisit
  <2>2. files.model = None \/ IsModel(files.model[1])
    BY <1>2 DEF StartVisit, FilesInv, ModelFile
  <2>3. IsProfile(IF files.model = None THEN EmptyProfile ELSE files.model[1].profile)
    BY <2>2, EmptyIsAProfile DEF IsModel
  <2>4. visit'.bestKnown = best
        /\ visit'.profile = IF files.model = None THEN EmptyProfile ELSE files.model[1].profile
    BY <2>1
  <2>5. best \in Int
    BY ExplorerAssumption
  <2> QED
    BY <2>3, <2>4, <2>5 DEF VisitInv
<1>3. CASE FinishExploration \/ Crash
  <2>1. visit' = NoVisit
    BY <1>3 DEF FinishExploration, Crash
  <2> QED
    BY <1>1, <2>1, EmptyIsAProfile DEF VisitInv
<1>4. CASE ReadRaises \/ BranchRestoreFails \/ BranchWithoutActions
           \/ (\E a \in Actions : BranchStep(a)) \/ WriteFile \/ UNCHANGED vars
  <2>1. visit' = visit
    BY <1>4 DEF ReadRaises, BranchRestoreFails, BranchWithoutActions, BranchStep, WriteFile, vars
  <2> QED
    BY <2>1 DEF VisitInv
<1> QED
  BY <1>2, <1>3, <1>4 DEF Next

\* A branch that ends, or never began, was measured as the code declares it.
LEMMA OutcomeIsMeasured ==
  ASSUME VisitInv, NEW acts \in Seq(Actions), NEW known \in BOOLEAN
  PROVE  Outcome(acts, known).measures \in BranchMeasures
<1>1. Measures(acts, known, visit.profile, visit.bestKnown) \in BranchMeasures
  BY MeasuresAreTyped, ProfilesAreReadable DEF VisitInv
<1> QED
  BY <1>1 DEF Outcome

LEMMA FinishedMeasured ==
  ASSUME BranchesInv, NEW b, Finished(b), b.measures \in BranchMeasures
  PROVE  MeasuresInv'
<1>1. PICK S : done \in Seq(S)
  BY DEF BranchesInv, Branches, IsList
<1>2. done' = Append(done, b) /\ DOMAIN done = 1..Len(done) /\ Len(done) \in Nat
  BY <1>1 DEF Finished
<1>3. ASSUME NEW i \in DOMAIN done'
      PROVE  (i \in DOMAIN done /\ done'[i] = done[i]) \/ done'[i] = b
  <2>1. done \in Seq(S \cup {b}) /\ b \in S \cup {b}
    BY <1>1
  <2>2. done' \in Seq(S \cup {b}) /\ DOMAIN done' = 1..(Len(done) + 1)
    BY <1>2, <2>1
  <2> QED
    BY <1>2, <2>1, <2>2
<1>4. \A i \in DOMAIN done' : done'[i].measures \in BranchMeasures
  BY <1>3 DEF BranchesInv, MeasuresInv
<1> QED
  BY <1>4 DEF MeasuresInv

LEMMA NextMeasuresInv == BranchesInv /\ VisitInv /\ [Next]_vars => MeasuresInv'
<1> SUFFICES ASSUME BranchesInv, VisitInv, [Next]_vars PROVE MeasuresInv'
  OBVIOUS
<1>1. branch \in Seq(Actions) /\ << >> \in Seq(Actions)
  BY DEF BranchesInv, TypeOK
<1>2. \A acts : KnownOutcomes(acts) \subseteq BOOLEAN
  BY DEF KnownOutcomes
<1>3. ASSUME done' = done \/ done' = << >> PROVE MeasuresInv'
  BY <1>3 DEF BranchesInv, MeasuresInv
<1>4. CASE BranchRestoreFails
  <2> DEFINE b == [Outcome(<< >>, FALSE) EXCEPT !.failed = TRUE]
  <2>1. Finished(b)
    BY <1>4 DEF BranchRestoreFails
  <2>2. b.measures = Outcome(<< >>, FALSE).measures
    BY DEF Outcome
  <2>3. b.measures \in BranchMeasures
    BY <1>1, <2>2, OutcomeIsMeasured
  <2> HIDE DEF b
  <2> QED
    BY <2>1, <2>3, FinishedMeasured
<1>5. CASE BranchWithoutActions
  <2>1. PICK known \in KnownOutcomes(branch) : Finished(Outcome(branch, known))
    BY <1>5 DEF BranchWithoutActions
  <2>2. Outcome(branch, known).measures \in BranchMeasures
    BY <1>1, <1>2, OutcomeIsMeasured
  <2> QED
    BY <2>1, <2>2, FinishedMeasured
<1>6. ASSUME NEW a \in Actions, BranchStep(a) PROVE MeasuresInv'
  <2> DEFINE acts == Append(branch, a)
  <2>1. acts \in Seq(Actions)
    BY <1>1
  <2> HIDE DEF acts
  <2>2. CASE EndsWith(acts)
    <3>1. PICK known \in KnownOutcomes(acts) : Finished(Outcome(acts, known))
      BY <1>6, <2>2 DEF BranchStep, acts
    <3>2. Outcome(acts, known).measures \in BranchMeasures
      BY <1>2, <2>1, OutcomeIsMeasured
    <3> QED
      BY <3>1, <3>2, FinishedMeasured
  <2>3. CASE ~ EndsWith(acts)
    <3>1. done' = done
      BY <1>6, <2>3 DEF BranchStep, acts
    <3> QED
      BY <1>3, <3>1
  <2> QED
    BY <2>2, <2>3
<1>7. CASE StartVisit \/ ReadRaises \/ FinishExploration \/ WriteFile \/ Crash \/ UNCHANGED vars
  <2>1. done' = done \/ done' = << >>
    BY <1>7 DEF StartVisit, ReadRaises, FinishExploration, WriteFile, Crash, vars
  <2> QED
    BY <1>3, <2>1
<1> QED
  BY <1>4, <1>5, <1>6, <1>7 DEF Next

-----------------------------------------------------------------------------
(* The theorems. *)

\* The files, the finished branches and the visit in progress keep each other right.
AllInv == FilesInv /\ BranchesInv /\ VisitInv

LEMMA SpecAllInv == Spec => []AllInv
<1>1. Init => AllInv
  <2> SUFFICES ASSUME Init PROVE AllInv
    OBVIOUS
  <2>1. TypeOK /\ Branches /\ FilesInv
    BY InitTypeOK, InitFilesInv
  <2>2. done = << >> /\ visit.profile = EmptyProfile /\ visit.bestKnown = 0
    BY DEF Init, NoVisit
  <2>3. MeasuresInv
    BY <2>2 DEF MeasuresInv
  <2>4. VisitInv
    BY <2>2, EmptyIsAProfile DEF VisitInv
  <2> QED
    BY <2>1, <2>3, <2>4 DEF AllInv, BranchesInv
<1>2. AllInv /\ [Next]_vars => AllInv'
  <2> SUFFICES ASSUME AllInv, [Next]_vars PROVE AllInv'
    OBVIOUS
  <2>1. FilesInv'
    BY NextFilesInv DEF AllInv
  <2>2. TypeOK' /\ Branches'
    BY NextTypeOK DEF AllInv, BranchesInv
  <2>3. MeasuresInv'
    BY NextMeasuresInv DEF AllInv
  <2>4. VisitInv'
    BY NextVisitInv DEF AllInv
  <2> QED
    BY <2>1, <2>2, <2>3, <2>4 DEF AllInv, BranchesInv
<1> QED
  BY <1>1, <1>2, PTL DEF Spec

\* Whatever the game and the generator, a visit plays at most its branches and a
\* branch at most its horizon, and an update exists exactly while it is written.
THEOREM TypeCorrect == Spec => []TypeOK
<1>1. AllInv => TypeOK
  BY DEF AllInv, BranchesInv
<1>2. QED BY <1>1, SpecAllInv, PTL

\* Whenever the process dies, neither the summary of a root nor the copy in its
\* last update tells of a commit or a hint that a readable model.json lacks.
THEOREM FilesNeverRunAhead == Spec => []NothingAheadOfTheModel
<1>1. AllInv => NothingAheadOfTheModel
  BY DEF AllInv, FilesInv
<1>2. QED BY <1>1, SpecAllInv, PTL

\* While model.json can be read, no visit, write or crash makes it forget a hint, an
\* object, a subgoal, a unit of support or a commit.
THEOREM NothingIsForgotten == Spec => KnowledgeSurvives
<1>1. AllInv /\ [Next]_vars =>
        [Holds(files.model) /\ Holds(files'.model) => KnowsAll(files'.model[1], files.model[1])]_vars
  <2> SUFFICES ASSUME FilesInv, Next, Holds(files.model), Holds(files'.model)
               PROVE  KnowsAll(files'.model[1], files.model[1])
    BY DEF AllInv
  <2>1. IsModel(files.model[1])
    BY FileKinds DEF FilesInv, ModelFile
  <2>2. ASSUME files'.model = files.model
        PROVE  KnowsAll(files'.model[1], files.model[1])
    BY <2>1, <2>2, ModelKnowsItself
  <2>3. CASE StartVisit \/ ReadRaises \/ BranchRestoreFails \/ BranchWithoutActions
             \/ (\E a \in Actions : BranchStep(a)) \/ FinishExploration
    BY <2>2, <2>3
    DEF StartVisit, ReadRaises, BranchRestoreFails, BranchWithoutActions, BranchStep,
        FinishExploration
  <2>4. CASE WriteFile
    <3>1. /\ phase \in {"bundle", "model", "summary", "copy", "decay", "decaySummary"}
          /\ files' = FilesAfter(phase) /\ update = <<update[1]>>
          /\ KnowsAll(update[1], files.model[1])
          /\ DOMAIN files = {"model", "summary", "bundle"}
      BY <2>4, WritingPhases DEF WriteFile, FilesInv, Writes, OtherFiles
    <3>2. CASE phase \in {"model", "decay"}
      <4>1. files'.model = update
        BY <3>1, <3>2 DEF FilesAfter, WritesModel, WritesSummary
      <4>2. QED BY <3>1, <4>1, FileKinds
    <3>3. CASE phase \notin {"model", "decay"}
      <4>1. files'.model = files.model
        BY <3>1, <3>3 DEF FilesAfter, WritesModel, WritesSummary
      <4>2. QED BY <2>2, <4>1
    <3>4. QED BY <3>2, <3>3
  <2>5. CASE Crash
    <3>1. DOMAIN files = {"model", "summary", "bundle"}
      BY DEF FilesInv, OtherFiles
    <3>2. files'.model = files.model \/ files'.model = Torn
      BY <2>5, <3>1 DEF Crash, TornFiles
    <3>3. QED BY <2>2, <3>2, FileKinds
  <2>6. QED BY <2>3, <2>4, <2>5 DEF Next
<1>2. QED
  BY <1>1, SpecAllInv, PTL DEF KnowledgeSurvives, KnowsAll, Spec

\* The profiles that a visit or a readable model holds are of the kind that holds.
LEMMA ProfilesHeldAreProfiles == AllInv => \A p \in ProfilesHeld : IsProfile(p)
  BY FileKinds DEF AllInv, VisitInv, ProfilesHeld, FilesInv, ModelFile, IsModel

\* Through all the visits and crashes, every commit to a root was a distinct or a
\* repeated continuation, is counted under one prefix and is among the newest of the
\* history, and the first of them was distinct
\* (_updated_root_depth_progression_profile).
THEOREM ProgressionCounts == Spec => []ProgressionAddsUp
<1>1. ASSUME NEW p, IsProfile(p)
      PROVE  /\ p.commits = p.distinct + p.repeated
             /\ SumOfCounts(p.counts) = p.commits
             /\ Len(p.history) = Min({p.commits, HistoryLimit})
             /\ p.commits > 0 => p.distinct > 0
             /\ p.repeated >= Cardinality({i \in DOMAIN p.history : ~p.history[i].distinct})
  <2>1. p.commits \in Nat /\ HistoryLimit \in Nat
    BY <1>1, ProgressionAssumption DEF IsProfile, Counters
  <2>2. Min({p.commits, HistoryLimit}) = IF p.commits < HistoryLimit THEN p.commits ELSE HistoryLimit
    <3>1. Min({p.commits, HistoryLimit}) = IF p.commits <= HistoryLimit THEN p.commits ELSE HistoryLimit
      BY <2>1, MinOfTwo
    <3> QED
      BY <2>1, <3>1
  <2>3. Cardinality(Repeats(p.history)) <= p.repeated
    BY <1>1 DEF IsProfile, Remembered
  <2>4. Cardinality(Repeats(p.history)) \in Nat /\ p.repeated \in Nat
    <3>1. IsFiniteSet(DOMAIN p.history)
      <4>1. IsList(p.history)
        BY <1>1 DEF IsProfile, Remembered, Entries
      <4>2. DOMAIN p.history = 1..Len(p.history) /\ 1 \in Int /\ Len(p.history) \in Int
        BY <4>1, ElementsAreFinite
      <4> QED
        BY <4>2, FS_Interval
    <3>2. IsFiniteSet(Repeats(p.history))
      BY <3>1, FS_Subset DEF Repeats
    <3>3. Cardinality(Repeats(p.history)) \in Nat
      BY <3>2, FS_CardinalityType
    <3> QED
      BY <1>1, <3>3 DEF IsProfile, Counters
  <2>5. p.repeated >= Cardinality({i \in DOMAIN p.history : ~p.history[i].distinct})
    BY <2>3, <2>4 DEF Repeats
  <2> QED
    BY <1>1, <2>2, <2>5 DEF IsProfile, Counters, Balanced, Counted, Remembered
<1>2. AllInv => ProgressionAddsUp
  BY <1>1, ProfilesHeldAreProfiles DEF ProgressionAddsUp
<1> QED
  BY <1>2, SpecAllInv, PTL

\* A continuation that the history of a root already holds never counts as a new one
\* when it is committed again, by whatever visit (materially_distinct_from_history).
THEOREM RepeatsAreNotNew == Spec => []NoRepeatCountsAsNew
<1>1. AllInv => NoRepeatCountsAsNew
  BY ProfilesHeldAreProfiles DEF NoRepeatCountsAsNew, IsProfile, Remembered, NoRepeats
<1> QED
  BY <1>1, SpecAllInv, PTL

\* In every visit, a branch that passes the threshold of the commit gate is refused only
\* when it is stuck: the later refusals of _branch_clears_commit_gate are dead code.
THEOREM ThresholdDecidesTheGate == Spec => []GateRefusesOnlyTheStuck
<1>1. AllInv => GateRefusesOnlyTheStuck
  BY GateAsksNoMore DEF AllInv, BranchesInv, MeasuresInv, Comparable, GateRefusesOnlyTheStuck
<1> QED
  BY <1>1, SpecAllInv, PTL
=============================================================================
