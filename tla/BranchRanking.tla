---------------------------- MODULE BranchRanking -----------------------------
(***************************************************************************)
(* policy/local_explorer.py: how a finished branch is scored, compared and *)
(* admitted.  A branch is a record of its measures against the root:       *)
(*   gain, items, lost, affordances, exits   score, inventory, actions     *)
(*   novel, location, textChanged, inventoryChanged   what the end shows   *)
(*   sameCluster, mostlyMovement, stuck, exhausted, known   judgements     *)
(*   bulk, discard, aggressive, speculative, churn   counts of actions     *)
(*   oscillation, movement, loopReduction   penalties of its steps         *)
(*   noveltyBonus, depthBonus, replayPenalty, expansion   against what was *)
(*     committed from the root before                                      *)
(*   reward, length, finalScore, bestKnown   (best of the campaign)         *)
(* Weights, penalties and scores are in ten-thousandths.                   *)
(***************************************************************************)
EXTENDS Integers, Sequences

CONSTANTS
  CommitThreshold, MovementCap,
  ScoreWeight, InventoryWeight, AffordanceWeight, ExitWeight, LocationWeight, ObjectWeight,
  RoomTextWeight, LoopReductionPercent, InventoryLossPenalty,
  InventoryChurnPenalty, PostGainChurnPenalty, AggressivePenalty, SpeculativePenalty

ASSUME RankingAssumption ==
  {CommitThreshold, MovementCap, ScoreWeight, InventoryWeight, AffordanceWeight, ExitWeight,
   LocationWeight, ObjectWeight, RoomTextWeight, LoopReductionPercent, InventoryLossPenalty,
   InventoryChurnPenalty, PostGainChurnPenalty, AggressivePenalty, SpeculativePenalty} \subseteq Nat

AtMost(x, cap) == IF x > cap THEN cap ELSE x
Positive(x) == IF x > 0 THEN x ELSE 0

-----------------------------------------------------------------------------
(* Judgements. *)

Landmark(b) ==
  b.location /\ (b.novel > 0 \/ b.affordances > 0 \/ b.exits > 0 \/ b.items > 0 \/ b.gain > 0)

\* _branch_has_exploratory_location_progress
Exploratory(b) ==
  /\ b.gain <= 0 /\ b.items <= 0 /\ b.lost <= 0
  /\ ~b.sameCluster /\ b.location /\ (b.exits > 0 \/ Landmark(b))

\* _branch_has_commit_anchor
Anchored(b) == b.gain > 0 \/ (b.items > 0 /\ b.lost <= 0) \/ Exploratory(b) \/ b.expansion

\* _is_low_value_movement_branch
LowValueMovement(b) == b.mostlyMovement /\ b.gain <= 0 /\ b.items <= 0 /\ b.affordances <= 0

\* _is_low_value_object_churn_branch
ObjectChurn(b) ==
  b.gain <= 0 /\ b.items <= 0 /\ b.exits <= 0 /\ b.affordances > 0 /\ b.novel <= 0

\* _inventory_churn_penalty
ChurnPenalty(b) ==
  IF b.gain > 0 \/ b.exits > 0 THEN 0
  ELSE InventoryChurnPenalty * (Positive(b.bulk)
                                + (IF b.items > 0 /\ b.lost > 0 THEN 1 ELSE 0)
                                + (IF b.items > 1 THEN b.items - 1 ELSE 0))
       + PostGainChurnPenalty * (b.discard + b.churn)
       + AggressivePenalty * b.aggressive + SpeculativePenalty * b.speculative

\* _branch_has_simple_inventory_progress
SimpleInventory(b) ==
  \/ b.gain > 0
  \/ /\ b.items > 0 /\ b.lost <= 0
     /\ b.discard <= 0 /\ b.aggressive <= 0 /\ b.speculative <= 0 /\ b.churn <= 0
     /\ b.items > 1 => b.affordances > 0 \/ b.exits > 0

\* _branch_is_zero_score_inventory_scene_churn
SceneChurn(b) ==
  /\ b.gain <= 0 /\ b.items > 0 /\ b.exits <= 0
  /\ b.oscillation > 0 \/ b.stuck \/ ChurnPenalty(b) > 0 \/ b.churn > 0 \/ b.exhausted > 0

\* _branch_is_inventory_churn_reject
InventoryChurn(b) ==
  /\ b.gain <= 0 /\ b.exits <= 0
  /\ b.bulk > 0 \/ b.discard > 0 \/ b.aggressive > 0 \/ b.churn > 0
  /\ ChurnPenalty(b) > 0

\* _branch_has_durable_progress
Durable(b) == b.gain > 0 \/ (SimpleInventory(b) /\ b.bulk <= 0)

-----------------------------------------------------------------------------
(* The progress score. *)

\* _room_text_only_gain
RoomText(b) ==
  /\ b.textChanged /\ b.gain = 0 /\ ~b.inventoryChanged
  /\ b.affordances <= 0 /\ b.novel <= 0 /\ ~Landmark(b)

\* A gain that the campaign had already reached is worth nothing here.
RepeatedScore(b) == b.gain > 0 /\ b.finalScore <= b.bestKnown

\* _branch_progress_score, and what is added to it before it is capped.
RawProgress(b) ==
  (IF RepeatedScore(b) THEN 0 ELSE ScoreWeight * Positive(b.gain))
  + InventoryWeight * b.items + AffordanceWeight * b.affordances + ExitWeight * b.exits
  + (IF Landmark(b) THEN LocationWeight ELSE 0)
  + ObjectWeight * b.novel + (IF RoomText(b) THEN RoomTextWeight ELSE 0)
  + (LoopReductionPercent * b.loopReduction) \div 100
  - InventoryLossPenalty * b.lost - b.oscillation - b.movement
  + (IF Exploratory(b) THEN LocationWeight ELSE 0)
  + b.noveltyBonus + b.depthBonus - b.replayPenalty - ChurnPenalty(b)

\* The reasons to hold a branch under the cap of mere movement.
Capped(b) ==
  \/ b.known /\ b.gain <= 0 /\ ~Exploratory(b)
  \/ b.exhausted > 0 /\ ~Durable(b) /\ b.sameCluster
  \/ b.gain <= 0 /\ b.items <= 0 /\ b.exits <= 0 /\ b.affordances <= 0

ZeroedButForAnchors(b) ==
  \/ LowValueMovement(b)
  \/ ObjectChurn(b)
  \/ ChurnPenalty(b) > 0
  \/ b.gain <= 0 /\ b.items > 0 /\ ~SimpleInventory(b)
  \/ SceneChurn(b)

\* The reasons to leave a branch nothing.
Zeroed(b) ==
  \/ LowValueMovement(b)
  \/ ObjectChurn(b)
  \/ ChurnPenalty(b) > 0
  \/ b.gain <= 0 /\ b.items > 0 /\ ~SimpleInventory(b)
  \/ ~Anchored(b)
  \/ SceneChurn(b)

ProgressScore(b) ==
  LET capped == IF Capped(b) THEN AtMost(RawProgress(b), MovementCap) ELSE RawProgress(b)
  IN  IF Zeroed(b) THEN AtMost(capped, 0) ELSE capped

-----------------------------------------------------------------------------
(* Comparison and admission. *)

\* _branch_sort_key
SortKey(b) ==
  << ProgressScore(b), b.gain, b.items, b.affordances, b.exits, -b.lost,
     10000 * b.reward - b.oscillation - b.movement, -b.movement,
     IF b.stuck THEN 0 ELSE 1, -b.length >>

Precedes(k, l) ==
  \E i \in DOMAIN k : k[i] > l[i] /\ \A j \in 1..(i - 1) : k[j] = l[j]

\* _branch_is_..._reject: churn and wandering.
Rejected(b) == LowValueMovement(b) \/ ObjectChurn(b) \/ InventoryChurn(b) \/ SceneChurn(b)

\* What only needs not to be stuck.
NewGround(b) == Exploratory(b) \/ (b.expansion /\ ~Rejected(b))

KeptGain(b) == b.gain > 0 \/ (b.items > 0 /\ b.lost <= 0 /\ SimpleInventory(b))

\* _branch_clears_commit_gate: "cleared", or why the branch is refused.
Gate(b) ==
  IF ProgressScore(b) <= CommitThreshold THEN "below threshold"
  ELSE IF NewGround(b) THEN (IF b.stuck THEN "stuck" ELSE "cleared")
  ELSE IF ~Rejected(b) /\ KeptGain(b) THEN "cleared" ELSE "no durable gain"
=============================================================================
