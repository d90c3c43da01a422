---------------------------- MODULE FrontierAnalysis ----------------------------
(***************************************************************************)
(* policy/frontier_analyzer.py: the critical states that an analysis of    *)
(* the retained trajectories names, each with the value that may be        *)
(* reached from it.  An insight is a set of such annotations.  The         *)
(* analyzer asks a language model, and falls back to the trajectories when *)
(* there is none, when the call fails or when the answer says nothing.     *)
(***************************************************************************)
EXTENDS StateArchive

CONSTANTS
  \* What the language model may answer: sets of [critical, supporting, sources,
  \* achieved, potential], the empty one naming bottlenecks only.  None without a model.
  AnalysisAnswers,
  ListedStates,        \* 10: the archived states that the fallback looks at
  NamedStates,         \* 5: the critical states that it names
  CitedTrajectories    \* 4: the trajectories that it cites for one of them

ASSUME AnalysisAssumption ==
  {ListedStates, NamedStates, CitedTrajectories} \subseteq Nat \ {0}

\* An answer names finitely many states, and its values are parsed as numbers.
ASSUME AnswersAssumption ==
  \A answer \in AnalysisAnswers :
    /\ IsFiniteSet(answer)
    /\ \A block \in answer : block.achieved \in Int /\ block.potential \in Int

NoInsight == {}

\* _supporting_trajectory_ids_by_state, over the retained trajectories.
Through(retained, s) == {t \in retained : Visits(t, s) # {}}

\* _potential_value_by_state_id: what the best continuation of a state reached.
ReachedAfter(retained, s) == {TrajectoryValue(t.steps) : t \in Through(retained, s)}

PotentialOf(archive, retained, s) == Max({archive[s].achieved} \cup ReachedAfter(retained, s))

\* The best ranked of the trajectories through a state.
Cited(retained, rank, s) ==
  LET through == Through(retained, s)
  IN  {t.id : t \in {u \in through :
         Cardinality({v \in through : rank[v.id] < rank[u.id]}) < CitedTrajectories}}

FallbackNote(archive, retained, rank, s) ==
  [critical |-> s, supporting |-> {s}, sources |-> Cited(retained, rank, s),
   potential |-> PotentialOf(archive, retained, s)]

\* The first k of a list sorted by `key`, the last tie of which a hash breaks.
FirstOnes(key, k) ==
  {first \in SUBSET DOMAIN key :
     /\ Cardinality(first) = Min({k, Cardinality(DOMAIN key)})
     /\ \A s \in first, t \in DOMAIN key \ first : ~Before(key[t], key[s])}

\* The states at the head of sorted_states.
Listed(archive) == FirstOnes([s \in DOMAIN archive |-> ArchiveOrder(archive[s])], ListedStates)

\* The widest gaps come first, then the highest achieved values.
Urgency(archive, retained, s) ==
  << archive[s].achieved - PotentialOf(archive, retained, s), -archive[s].achieved >>

Named(archive, retained, listed) ==
  FirstOnes([s \in {u \in listed : Through(retained, u) # {}} |-> Urgency(archive, retained, s)],
            NamedStates)

\* _heuristic_critical_states
FallbackInsights(archive, retained, rank) ==
  {{FallbackNote(archive, retained, rank, s) : s \in named} :
     named \in UNION {Named(archive, retained, listed) : listed \in Listed(archive)}}

\* _annotation_from_block: states and trajectories the analyzer was not shown are
\* dropped, the critical state itself is taken at its word.
Annotation(block, archive, retained) ==
  [critical |-> block.critical,
   supporting |-> block.supporting \cap DOMAIN archive,
   sources |-> block.sources \cap {t.id : t \in retained},
   potential |-> Max({block.potential, block.achieved})]

\* analyze_frontier, of all the trajectories that are retained.
Insights(archive, retained, rank) ==
  FallbackInsights(archive, retained, rank)
    \cup {{Annotation(block, archive, retained) : block \in answer} : answer \in AnalysisAnswers}
=============================================================================
