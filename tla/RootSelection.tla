----------------------------- MODULE RootSelection -----------------------------
(***************************************************************************)
(* policy/state_selector.py: which archived state the glow loop restores   *)
(* next.  Every state is scored by what was achieved from it and what may  *)
(* be, less what its earlier revisits cost; the best is taken, or the      *)
(* language model picks one of the first few.                              *)
(* Scores are in ten-thousandths.                                          *)
(***************************************************************************)
EXTENDS StateArchive

CONSTANTS
  Weights,          \* the weights and penalties of policy.state_selection_*
  EnablePotential,  \* experiment.enable_potential_value_selection
  AssistedByModel,  \* archive_state_selection_mode is llm_assisted
  PromptLimit       \* state_selection_prompt_candidate_limit

ASSUME SelectionAssumption ==
  /\ Weights \in [{"achieved", "potential", "direct", "supporting", "source", "native",
                   "selection", "visit", "barren", "fruitless", "saturation"} -> Nat]
  /\ {EnablePotential, AssistedByModel} \subseteq BOOLEAN
  /\ PromptLimit \in Nat \ {0}

\* What is still to be had from a state of potential p.
Gap(state, p) == Max({0, p - state.achieved})

\* The part of a potential gap that an annotation grants, and its bonus.
Alignment(id, state, note) ==
  IF id = note.critical THEN [percent |-> 100, bonus |-> Weights.direct]
  ELSE IF id \in note.supporting THEN [percent |-> 85, bonus |-> Weights.supporting]
  ELSE IF state.prov \in note.sources THEN [percent |-> 15, bonus |-> Weights.source]
  ELSE [percent |-> 0, bonus |-> 0]

Granted(id, state, note) ==
  LET match == Alignment(id, state, note)
  IN  (Weights.potential * Gap(state, note.potential) * match.percent) \div 100 + match.bonus

\* The best of the cached potential and of the annotations: they do not add up.
PotentialContribution(id, state, insight) ==
  LET cached == IF state.projected = NoValue THEN {}
                ELSE {Weights.potential * Gap(state, state.projected)}
      granted == {Granted(id, state, note) : note \in insight}
  IN  IF EnablePotential THEN Max({0} \cup cached \cup granted) ELSE 0

\* A reference to a snapshot earns the bonus, whether or not there is a snapshot.
SnapshotBonus(state) ==
  IF state.native # NoNative \/ state.referenced THEN Weights.native ELSE 0

RevisitCost(state) ==
  Weights.barren * state.barren + Weights.fruitless * state.fruitless
  + Weights.saturation * state.saturation
  + Weights.selection * state.selections + Weights.visit * state.visits

\* _score_archive_candidate
SelectionScore(id, state, insight) ==
  Weights.achieved * state.achieved + PotentialContribution(id, state, insight)
  + SnapshotBonus(state) - RevisitCost(state)

\* _generate_archive_candidates.  The last tie is broken by a hash.
CandidateKey(id, state, insight) ==
  << -SelectionScore(id, state, insight), -PotentialContribution(id, state, insight),
     -state.achieved >> \o IdKey(state.prov) \o <<state.timestep>>

\* How many candidates the choice is between: the model sees the first few.
Considered == IF AssistedByModel THEN PromptLimit ELSE 1

\* select_archive_state.  The model is asked for one of the candidates in its prompt;
\* without an answer that names one, the first is taken.
Selectable(archive, insight) ==
  LET keys == [s \in DOMAIN archive |-> CandidateKey(s, archive[s], insight)]
  IN  {s \in DOMAIN archive :
         Cardinality({t \in DOMAIN archive : Before(keys[t], keys[s])}) < Considered}
=============================================================================
