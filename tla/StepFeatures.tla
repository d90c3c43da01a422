----------------------------- MODULE StepFeatures -----------------------------
(***************************************************************************)
(* What the policies read off a step (types.py and the counters of the     *)
(* runner and of the explorer): progress between two views, reversible     *)
(* loops and wandering.  Texts are tokens; two texts resemble each other   *)
(* when they are equal or listed as lookalikes (their token overlap is     *)
(* above the threshold).  Penalties are in hundredths.                     *)
(***************************************************************************)
EXTENDS JerichoEnv, FiniteSets

CONSTANTS
  Valid,         \* [Worlds -> SUBSET Actions]: valid_actions of a view
  Movement,      \* the actions that are movements
  Inverses,      \* pairs of actions: the second undoes the first
  Opposites,     \* pairs of movements in opposite directions
  Targets,       \* [Actions -> sets of nouns]: action_target_tokens
  Nouns,         \* [Worlds -> sets of nouns]: observation and inventory
  Items,         \* [Worlds -> sets of nouns]: inventory_item_tokens
  Cluster,       \* [Worlds -> clusters]: derive_state_cluster_id
  Lookalikes,    \* pairs of texts
  ImmediateInversePenalty, RepeatedPairPenalty, ReversiblePenalty,
  RepeatedMovementPenalty, MovementCyclePenalty, SameRegionPenalty

\* A view lists finitely many actions and objects, and an action names finitely many.
ASSUME FeaturesAssumption ==
  /\ Valid \in [Worlds -> SUBSET Actions] /\ Movement \subseteq Actions
  /\ Inverses \subseteq Actions \X Actions /\ Opposites \subseteq Movement \X Movement
  /\ {ImmediateInversePenalty, RepeatedPairPenalty, ReversiblePenalty, RepeatedMovementPenalty,
      MovementCyclePenalty, SameRegionPenalty} \subseteq Nat
  /\ \A w \in Worlds : IsFiniteSet(Valid[w]) /\ IsFiniteSet(Items[w])
  /\ \A a \in Actions : IsFiniteSet(Targets[a])

Resembles(s, t) == s = t \/ <<s, t>> \in Lookalikes \/ <<t, s>> \in Lookalikes

-----------------------------------------------------------------------------
(* Progress from the view of v to the view of w. *)

ScoreGain(v, w) == Score[w] - Score[v]
InventoryChanged(v, w) == Inventory[w] # Inventory[v]
InventoryGained(v, w) == Items[w] \ Items[v] # {}
InventoryLost(v, w) == Items[v] \ Items[w] # {}
MateriallyNewActions(v, w) == Valid[w] \ Movement # Valid[v] \ Movement
NovelObjects(v, w) == Nouns[w] \ Nouns[v]

PersistentAffordances(v, w) ==
  LET known == UNION {Targets[a] : a \in Valid[v] \ Movement}
      fresh == {a \in Valid[w] \ Movement : Targets[a] \ known # {}}
  IN  Min({Cardinality(fresh), 4})
NewExitActions(v, w) == Cardinality((Valid[w] \ Valid[v]) \cap Movement)
AffordanceGain(v, w) == PersistentAffordances(v, w) + NewExitActions(v, w)

RevealedNewObject(a, v, w) ==
  /\ NovelObjects(v, w) # {}
  /\ a \in Movement => AffordanceGain(v, w) > 0 \/ MateriallyNewActions(v, w)

\* _step_has_durable_progress
DurableProgress(a, v, w) ==
  \/ ScoreGain(v, w) > 0
  \/ InventoryGained(v, w)
  \/ AffordanceGain(v, w) > 0
  \/ RevealedNewObject(a, v, w) /\ a \notin Movement

\* _room_text_only_gain, in hundredths
RoomTextOnlyGain(v, w) ==
  IF \/ Observation[v] = Observation[w] \/ ScoreGain(v, w) # 0 \/ InventoryChanged(v, w)
     \/ AffordanceGain(v, w) > 0 \/ NovelObjects(v, w) # {}
  THEN 0
  ELSE IF Cluster[v] # Cluster[w] THEN 100 ELSE 50

-----------------------------------------------------------------------------
(* Reversible loops.  `actions` ends with the action under evaluation, and *)
(* `views` is the history of the worlds seen before its effect.            *)

At(s, back) == s[Len(s) - back + 1]
LastOf(s) == At(s, 1)

InverseOfPrevious(actions) ==
  Len(actions) > 1 /\ <<At(actions, 2), LastOf(actions)>> \in Inverses

\* count_repeated_inverse_pairs: how often the last pair was played before.
RepeatedPairs(actions) ==
  IF Len(actions) < 4 \/ ~InverseOfPrevious(actions) THEN 0
  ELSE Max({k \in 0..((Len(actions) \div 2) - 1) :
              \A i \in 1..k : /\ At(actions, 2 * i + 1) = LastOf(actions)
                              /\ At(actions, 2 * i + 2) = At(actions, 2)})

\* How far back the view is that the outcome is compared with.
LoopReference(actions, views) ==
  LET span == 2 * (RepeatedPairs(actions) + 1)
  IN  IF RepeatedPairs(actions) > 0 /\ Len(views) >= span THEN span
      ELSE IF InverseOfPrevious(actions) /\ Len(views) >= 2 THEN 2 ELSE 1

NoChange(v, w) ==
  /\ ScoreGain(v, w) = 0 /\ ~InventoryChanged(v, w) /\ Valid[v] = Valid[w]
  /\ Resembles(Observation[v], Observation[w])

LoopNoProgress(actions, views, w) == NoChange(At(views, LoopReference(actions, views)), w)

\* evaluate_reversible_action_loop, total_penalty
LoopPenalty(actions, views, w) ==
  LET pairs == RepeatedPairs(actions)
  IN  IF ~LoopNoProgress(actions, views, w) THEN 0
      ELSE (IF InverseOfPrevious(actions) THEN ImmediateInversePenalty ELSE 0)
           + RepeatedPairPenalty * pairs
           + (IF InverseOfPrevious(actions) \/ pairs > 0 THEN ReversiblePenalty ELSE 0)

\* estimate_candidate_loop_penalty: the same, before the action is played.
CandidateLoopPenalty(actions, lastNoProgress) ==
  LET pairs == RepeatedPairs(actions)
  IN  IF ~lastNoProgress \/ ~(InverseOfPrevious(actions) \/ pairs > 0) THEN 0
      ELSE (IF InverseOfPrevious(actions) THEN ImmediateInversePenalty ELSE 0)
           + RepeatedPairPenalty * pairs + ReversiblePenalty

-----------------------------------------------------------------------------
(* Wandering. *)

\* count_repeated_movement_actions
MovementRepeats(actions) ==
  IF LastOf(actions) \notin Movement THEN 0
  ELSE Max({k \in 0..(Len(actions) - 1) : \A i \in 2..(k + 1) : At(actions, i) = LastOf(actions)})

\* count_movement_cycle_repetitions
MovementCycles(actions) ==
  IF \/ Len(actions) < 4 \/ ~(\A i \in 1..4 : At(actions, i) \in Movement)
     \/ At(actions, 1) # At(actions, 3) \/ At(actions, 2) # At(actions, 4)
     \/ At(actions, 1) = At(actions, 2)
  THEN 0
  ELSE Max({k \in 1..((Len(actions) \div 2) - 1) :
              \A i \in 1..k : /\ At(actions, 2 * i + 1) = At(actions, 1)
                              /\ At(actions, 2 * i + 2) = At(actions, 2)})

MovementCycleCount(actions) ==
  IF MovementCycles(actions) > 0 THEN MovementCycles(actions)
  ELSE IF Len(actions) > 1 /\ <<At(actions, 2), LastOf(actions)>> \in Opposites THEN 1 ELSE 0

MovementNoProgress(v, w) ==
  /\ ScoreGain(v, w) = 0 /\ ~InventoryChanged(v, w)
  /\ ~MateriallyNewActions(v, w) /\ NovelObjects(v, w) = {}

SameRegionRepeat(v, w, visits) ==
  Cluster[v] = Cluster[w] /\ visits > 1 /\ Resembles(Observation[v], Observation[w])

\* evaluate_movement_action, total_penalty
MovementPenalty(actions, v, w, visits) ==
  IF LastOf(actions) \notin Movement \/ ~MovementNoProgress(v, w) THEN 0
  ELSE RepeatedMovementPenalty * MovementRepeats(actions)
       + MovementCyclePenalty * MovementCycleCount(actions)
       + (IF SameRegionRepeat(v, w, visits) THEN SameRegionPenalty * Max({visits - 1, 1}) ELSE 0)

\* compute_region_novelty_score, in hundredths
RegionNovelty(a, v, w, visits, seenBefore) ==
  LET objects == RevealedNewObject(a, v, w) \/ MateriallyNewActions(v, w)
      first == visits <= 1 /\ ~seenBefore
      reveals == AffordanceGain(v, w) > 0
  IN  IF ScoreGain(v, w) > 0 THEN 100
      ELSE IF InventoryChanged(v, w) THEN 85
      ELSE IF reveals /\ objects THEN 70
      ELSE IF objects \/ (reveals /\ first) THEN 45
      ELSE IF first THEN 25
      ELSE IF a \in Movement THEN (IF visits = 2 THEN 5 ELSE 2)
      ELSE IF visits = 2 THEN (IF seenBefore THEN 4 ELSE 8)
      ELSE (IF seenBefore THEN 2 ELSE 5)
=============================================================================
