-------------------------- MODULE TrajectoryRanking --------------------------
(***************************************************************************)
(* The ranking of memory/frontier.py's TrajectoryFrontier: the sort key of *)
(* its entries and what is left of a list that is sorted and sliced.       *)
(*                                                                         *)
(* An entry is a record [id, value, bonus, order]: the trajectory's id,    *)
(* its maximum cumulative reward, the weighted novelty and diversity       *)
(* scores its caller passed to insert, and its insertion_order.            *)
(***************************************************************************)
EXTENDS Integers, FiniteSets

CONSTANTS
  Ids,             \* trajectory ids
  Values,          \* maximum cumulative rewards
  Bonuses,         \* weighted novelty and diversity scores
  MaxSize,         \* TrajectoryFrontierConfig.max_size
  EnableTiebreak   \* TrajectoryFrontierConfig.enable_diversity_tiebreak

ASSUME ScoresAreIntegers == Values \subseteq Int /\ Bonuses \subseteq Nat
ASSUME MaxSizeIsPositive == MaxSize \in Nat \ {0}
ASSUME TiebreakIsBoolean == EnableTiebreak \in BOOLEAN

Entry == [id : Ids, value : Values, bonus : Bonuses, order : Nat]

RetentionScore(e) == IF EnableTiebreak THEN e.value + e.bonus ELSE e.value

\* e sorts before f under the key (-retention score, insertion order, id).  Two
\* entries of one frontier never share an order, so the id is never reached.
Outranks(e, f) ==
  \/ RetentionScore(e) > RetentionScore(f)
  \/ /\ RetentionScore(e) = RetentionScore(f)
     /\ e.order < f.order

\* The first k entries of S once it is sorted.
BestOf(S, k) == {e \in S : Cardinality({f \in S : Outranks(f, e)}) < k}

DistinctOrders(S) == \A e, f \in S : e.order = f.order => e = f
DistinctIds(S) == \A e, f \in S : e.id = f.id => e = f
IdsOf(S) == {e.id : e \in S}
=============================================================================
