--------------------------- MODULE RootProgression ----------------------------
(***************************************************************************)
(* policy/local_explorer.py, types.py RootDepthProgressionProfile: what is *)
(* remembered of the continuations committed from one root, and what a     *)
(* branch is worth against it.  A profile is a record                      *)
(*   history   committed_branch_history: [prefix, actions, distinct]       *)
(*   counts    committed_prefix_counts                                     *)
(*   commits, distinct, repeated, saturation     the counters              *)
(*   clusters, finals, hashes   what the committed branches visited        *)
(* A branch is a record with (at least) its actions, the clusters and      *)
(* worlds it visited, the cluster it ended in, and the positions of its    *)
(* last meaningful step and of its first gain, 0 when it has none.         *)
(***************************************************************************)
EXTENDS Integers, Sequences, SequencesExt, FiniteSets

CONSTANTS
  PrefixHorizon, HistoryLimit,              \* branch_root_prefix_horizon, and 64
  NoveltyBonus, DepthBonus, ReplayPenalty   \* weights, in ten-thousandths

ASSUME ProgressionAssumption ==
  {PrefixHorizon, HistoryLimit} \subseteq Nat \ {0} /\ {NoveltyBonus, DepthBonus, ReplayPenalty} \subseteq Nat

NewestOf(s, n) == SubSeq(s, Max({1, Len(s) - n + 1}), Len(s))

EmptyProfile ==
  [history |-> << >>, counts |-> [p \in {} |-> 0], commits |-> 0, distinct |-> 0, repeated |-> 0,
   saturation |-> 0, clusters |-> {}, finals |-> {}, hashes |-> {}]

NeverCommitted(profile, prefix) == 0
TimesCommitted(profile, prefix) ==
  IF prefix \in DOMAIN profile.counts THEN profile.counts[prefix] ELSE 0

\* _continuation_prefix_actions
PrefixOf(b) ==
  LET boundary == IF b.meaningful > 0 THEN b.meaningful
                  ELSE IF b.firstGain > 0 THEN b.firstGain ELSE PrefixHorizon
  IN  SubSeq(b.actions, 1, Min({Len(b.actions), PrefixHorizon, boundary}))

\* _longest_action_prefix
SharedLength(s, t) == Len(LongestCommonPrefix({s, t}))

\* How many actions the branch goes beyond the committed ones it follows the longest.
DeeperBy(b, profile) ==
  LET lengths == {<<SharedLength(b.actions, h.actions), Len(h.actions)>> : h \in ToSet(profile.history)}
      followed == {l \in lengths : l[1] > 0 /\ \A k \in lengths : k[1] <= l[1]}
  IN  IF followed = {} THEN 0
      ELSE Max({0, Len(b.actions) - Max({l[2] : l \in followed})})

\* _branch_root_progression_features
Replays(b, profile) == TimesCommitted(profile, PrefixOf(b))

IsNewContinuation(b, profile) ==
  \/ Replays(b, profile) = 0
  \/ DeeperBy(b, profile) > 0
  \/ ~(b.clusters \subseteq profile.clusters)
  \/ ~(b.hashes \subseteq profile.hashes)
  \/ b.finalCluster \notin profile.finals

MateriallyDistinct(b, profile) == b.actions # << >> /\ IsNewContinuation(b, profile)
Productive(profile) == profile.commits > 0
Expansion(b, profile) == Productive(profile) /\ MateriallyDistinct(b, profile)

NoveltyBonusOf(b, profile) ==
  LET clusters == Cardinality(b.clusters \ profile.clusters)
      hashes == Cardinality(b.hashes \ profile.hashes)
      percent == (IF Replays(b, profile) = 0 /\ b.actions # << >> THEN 100 ELSE 0)
                 + (IF b.finalCluster \notin profile.finals THEN 50 ELSE 0)
                 + Min({100, 35 * clusters}) + Min({75, 25 * hashes})
  IN  IF Productive(profile) THEN (percent * NoveltyBonus) \div 100 ELSE 0

DepthBonusOf(b, profile) ==
  IF Productive(profile) THEN DepthBonus * Min({2, DeeperBy(b, profile)}) ELSE 0

ReplayPenaltyOf(b, profile) ==
  IF Productive(profile) /\ ~Expansion(b, profile) THEN ReplayPenalty * Replays(b, profile) ELSE 0

-----------------------------------------------------------------------------
(* _updated_root_depth_progression_profile *)

Saturated(profile) ==
  [profile EXCEPT !.saturation =
     Max({0, profile.repeated - Max({0, profile.distinct - 1})})]

CommittedKeepingFinals(profile, b) ==
  LET prefix == PrefixOf(b)
      fresh == IsNewContinuation(b, profile)
  IN  Saturated(
        [profile EXCEPT
           !.history = NewestOf(Append(@, [prefix |-> prefix, actions |-> b.actions, distinct |-> fresh]),
                                HistoryLimit),
           !.counts = [p \in DOMAIN @ \cup {prefix} |->
                        TimesCommitted(profile, p) + (IF p = prefix THEN 1 ELSE 0)],
           !.commits = @ + 1,
           !.distinct = IF fresh THEN @ + 1 ELSE @,
           !.repeated = IF fresh THEN @ ELSE @ + 1,
           !.clusters = @ \cup b.clusters,
           !.hashes = @ \cup b.hashes])

\* A branch that was admitted, with at least one action.
CommittedTo(profile, b) ==
  LET prefix == PrefixOf(b)
      fresh == IsNewContinuation(b, profile)
  IN  Saturated(
        [profile EXCEPT
           !.history = NewestOf(Append(@, [prefix |-> prefix, actions |-> b.actions, distinct |-> fresh]),
                                HistoryLimit),
           !.counts = [p \in DOMAIN @ \cup {prefix} |->
                        TimesCommitted(profile, p) + (IF p = prefix THEN 1 ELSE 0)],
           !.commits = @ + 1,
           !.distinct = IF fresh THEN @ + 1 ELSE @,
           !.repeated = IF fresh THEN @ ELSE @ + 1,
           !.clusters = @ \cup b.clusters,
           !.finals = @ \cup {b.finalCluster},
           !.hashes = @ \cup b.hashes])

UpdatedProfile(profile, b, allowed) ==
  IF allowed /\ b.actions # << >> THEN CommittedTo(profile, b) ELSE Saturated(profile)
=============================================================================
