----------------------------- MODULE StateArchive -----------------------------
(***************************************************************************)
(* memory/archive_updater.py: the archive of states, a function from state *)
(* ids to archived states.  Each operation of ArchiveUpdater is an         *)
(* operator from the archive to its next value.                            *)
(*                                                                         *)
(* A trajectory is a record [id, steps]; a step is a record [world,        *)
(* reward, replay], where replay is the action history of the wrapper when *)
(* the step was taken (world_state_snapshot.replay_actions).               *)
(*                                                                         *)
(* Of an archived state the model keeps what a later restore, prefix,      *)
(* merge, refresh or selection reads.                                      *)
(***************************************************************************)
EXTENDS SavedNodes

CONSTANTS
  StateId,   \* [Worlds -> ids]: the identity derived from world_state_hash
  NoValue,   \* None, of a projected_potential_value
  Summary    \* [texts -> texts]: _truncate_text of observations and inventories

ASSUME NoneIsNotAValue == NoValue \notin Int

Cumulative(steps, i) ==
  FoldLeft(LAMBDA sum, step : sum + step.reward, 0, SubSeq(steps, 1, i))

\* max_cumulative_reward_achieved.
TrajectoryValue(steps) == Max({Cumulative(steps, i) : i \in 1..Len(steps)})

\* barren and fruitless are the streaks of revisits without an achievement, and
\* without anything new at all; saturation that of a productive root.
Archived(w, id, timestep, replay, native, referenced) ==
  [prov |-> id, timestep |-> timestep, replay |-> replay, native |-> native,
   referenced |-> referenced,
   score |-> Score[w], observation |-> Summary[Observation[w]],
   inventory |-> Summary[Inventory[w]],
   achieved |-> 0, projected |-> NoValue, support |-> {},
   selections |-> 0, visits |-> 0, failures |-> 0, barren |-> 0, fruitless |-> 0,
   saturation |-> 0]

\* archived_state_for_live_state: the root of an episode.
RootState(e, id) ==
  Archived(e.world, id, 0, e.history, IF NativeSnapshots THEN e.world ELSE NoNative,
           NativeSnapshots)

StateForStepWithoutHistory(t, i) ==
  Archived(t.steps[i].world, t.id, i - 1, << >>, NoNative, TRUE)

\* _archived_state_for_step.  The snapshot of a step is recorded without its
\* native payload, but with a reference to it.
StateForStep(t, i) ==
  Archived(t.steps[i].world, t.id, i - 1, t.steps[i].replay, NoNative, TRUE)

MergeForgettingVisits(old, new) ==
  [old EXCEPT !.native = IF new.native # NoNative THEN new.native ELSE @,
              !.score = new.score, !.selections = new.selections, !.visits = new.visits]

\* _merge_archived_state: the provenance, the value fields and the counters of the
\* old entry are kept, the summaries are those of the latest visit, and a replay is
\* only replaced by one that comes with a native snapshot or when it is empty.
MergeState(old, new) ==
  LET newReplay == new.native # NoNative \/ (old.replay = << >> /\ new.replay # << >>)
  IN  [old EXCEPT !.native = IF new.native # NoNative THEN new.native ELSE @,
                  !.referenced = @ \/ new.referenced,
                  !.replay = IF newReplay THEN new.replay ELSE @,
                  !.score = new.score,
                  !.observation = IF new.observation # EmptyText THEN new.observation ELSE @,
                  !.inventory = IF new.inventory # EmptyText THEN new.inventory ELSE @]

\* upsert_archived_state
Upsert(archive, id, new) ==
  [s \in DOMAIN archive \cup {id} |->
     IF s # id THEN archive[s]
     ELSE IF id \in DOMAIN archive THEN MergeState(archive[id], new) ELSE new]

IngestTheLastStep(archive, t) ==
  LET i == Len(t.steps) IN Upsert(archive, StateId[t.steps[i].world], StateForStep(t, i))

\* ingest_episode_trajectory
Ingest(archive, t) ==
  FoldLeftDomain(LAMBDA a, i : Upsert(a, StateId[t.steps[i].world], StateForStep(t, i)),
                 archive, t.steps)

\* The trajectories of a cycle, in the order they were explored.
IngestAll(archive, batch) == FoldLeft(Ingest, archive, batch)

Visits(t, s) == {i \in 1..Len(t.steps) : StateId[t.steps[i].world] = s}

RefreshUpwardOnly(archive, retained) ==
  [s \in DOMAIN archive |->
     LET supporting == {t \in retained : Visits(t, s) # {}}
         achieved == {archive[s].achieved} \cup
                       UNION {{Cumulative(t.steps, i) : i \in Visits(t, s)} : t \in supporting}
     IN  [archive[s] EXCEPT !.achieved = Max(achieved),
                            !.support = {t.id : t \in supporting}]]

\* refresh_achieved_values_from_frontier over the set of retained trajectories.
\* The branch that archives a retained state first is never taken: every
\* trajectory is ingested in the cycle that inserts it (ArchiveReflectsFrontier).
Refresh(archive, retained) ==
  [s \in DOMAIN archive |->
     LET supporting == {t \in retained : Visits(t, s) # {}}
         achieved == {0} \cup UNION {{Cumulative(t.steps, i) : i \in Visits(t, s)} : t \in supporting}
     IN  [archive[s] EXCEPT !.achieved = Max(achieved),
                            !.support = {t.id : t \in supporting}]]

\* The potentials that an insight grants a state, by name or as a supporting one.
Promised(insight, s) ==
  {note.potential : note \in {n \in insight : s = n.critical \/ s \in n.supporting}}

ProjectTheAnalysis(archive, insight) ==
  [s \in DOMAIN archive |->
     [archive[s] EXCEPT !.projected =
        IF Promised(insight, s) = {} THEN NoValue ELSE Max(Promised(insight, s))]]

ProjectKeepingTheOld(archive, insight) ==
  [s \in DOMAIN archive |->
     [archive[s] EXCEPT !.projected =
        IF Promised(insight, s) = {} THEN @
        ELSE Max(Promised(insight, s) \cup {archive[s].achieved})]]

\* apply_projected_potential_from_frontier_analysis.  An insight may name states
\* that are not archived.
Project(archive, insight) ==
  [s \in DOMAIN archive |->
     [archive[s] EXCEPT !.projected =
        IF Promised(insight, s) = {} THEN NoValue
        ELSE Max(Promised(insight, s) \cup {archive[s].achieved})]]

-----------------------------------------------------------------------------
(* What a revisit leaves behind. *)

\* note_selection and note_restore_result
NoteRestore(archive, s, success) ==
  [archive EXCEPT ![s].selections = @ + 1,
                  ![s].visits = IF success THEN @ + 1 ELSE @,
                  ![s].failures = IF success THEN @ ELSE @ + 1]

\* note_revisit_progress
NoteRevisit(archive, s, achieved, exploratory, saturation) ==
  [archive EXCEPT ![s].barren = IF achieved THEN 0 ELSE @ + 1,
                  ![s].fruitless = IF achieved \/ exploratory THEN 0 ELSE @ + 1,
                  ![s].saturation = saturation]

-----------------------------------------------------------------------------
\* The order of trajectory ids as strings: "-cycle-" comes before "-root".
IdKey(id) == <<id[1], IF id[2] = 0 THEN 1 ELSE 0, id[2], id[3]>>

Before(k, l) == \E i \in DOMAIN k : k[i] < l[i] /\ \A j \in 1..(i - 1) : k[j] = l[j]

\* sorted_states.  A potential of zero counts as none, and the last tie is broken by
\* a hash.
ArchiveOrder(a) ==
  << -a.achieved, -(IF a.projected \in {NoValue, 0} THEN a.achieved ELSE a.projected),
     -Cardinality(a.support), a.selections >> \o IdKey(a.prov) \o <<a.timestep>>

-----------------------------------------------------------------------------
\* _saved_node_from_archived_state, for a state whose observation is not empty.
ArchivedNode(a) ==
  [native |-> a.native, prefix |-> a.replay, stepIndex |-> a.timestep,
   observation |-> a.observation, inventory |-> a.inventory, score |-> a.score,
   world |-> Play(SeededStart, a.replay), start |-> SeededStart]

\* _restore_archived_state: a state without an observation has no saved node, and
\* its restore is a reset that reports success.
RestoreArchived(e, a) ==
  IF a.observation = EmptyText
  THEN {[env |-> EnvReset(w), result |-> [success |-> TRUE, mode |-> "RESET_ONLY"]] : w \in Starts}
  ELSE RestoreOutcomes(e, ArchivedNode(a), UnrecordedSteps(ArchivedNode(a)))
=============================================================================
