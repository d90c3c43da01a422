------------------------------ MODULE GlowEpisode ------------------------------
(***************************************************************************)
(* experiment/episode_runner.py, _run_glow_episode: the control loop of    *)
(* the glow_faithful runner, over the state archive, the trajectory        *)
(* frontier, the wrapper and the archive snapshot on disk.                 *)
(*                                                                         *)
(* A process runs one episode after another over one archive directory.    *)
(* It may die at any point, in the middle of the write of a snapshot too.  *)
(* The next root is chosen by RootSelection from the archive and from what *)
(* FrontierAnalysis said of it.  The actions of a branch, what a revisit   *)
(* is judged to have brought, and the commit gate are open choices here;   *)
(* LocalExplorer models how they are made.                                 *)
(***************************************************************************)
EXTENDS RootSelection, FrontierAnalysis

CONSTANTS
  EpisodeIds,          \* episode ids
  EpisodeOf,           \* [1..MaxRuns -> EpisodeIds]: the id each run is given
  MaxRuns,             \* model bound on the episodes started
  MaxSteps,            \* experiment.max_steps
  MaxReplayAttempts,   \* experiment.max_replay_attempts
  BranchesPerRoot,     \* experiment.glow_local_branches_per_root
  RolloutDepth,        \* policy.rollout_depth
  BranchPatience,      \* policy.post_score_scene_branch_patience
  FrontierSize,        \* experiment.glow_frontier_size
  EnableAnalysis,      \* experiment.enable_global_frontier_analysis
  AnalysisFrequency,   \* experiment.glow_frontier_analysis_frequency
  SaturationLevels,    \* model bound on the saturation of a root
  MaxCycles            \* model bound on cycle_count

ASSUME EpisodeAssumption ==
  /\ {MaxRuns, MaxCycles} \subseteq Nat
  /\ EpisodeOf \in [1..MaxRuns -> EpisodeIds]
  /\ {MaxSteps, BranchesPerRoot, RolloutDepth, BranchPatience, FrontierSize, AnalysisFrequency}
       \subseteq Nat \ {0}
  /\ MaxReplayAttempts \in 0..MaxSteps
  /\ EnableAnalysis \in BOOLEAN
  /\ SaturationLevels \subseteq Nat
  /\ MaxCycles > MaxSteps + MaxReplayAttempts + 1

VARIABLES
  phase,      \* where the process is in the loop
  run,        \* episodes started so far
  cycle,      \* cycle_count
  total,      \* total_rollout_steps
  env,        \* the JerichoEnv
  archive,    \* archive_by_state_id
  paths,      \* steps of the retained trajectories, by id
  base,       \* the node of the restored root
  selected,   \* selected_archived_state
  branches,   \* trajectory steps of the branches explored in this cycle
  batch,      \* branch_trajectories
  inserted,   \* how many of them are in the frontier
  best,       \* [value, score] of best_trajectory, or NoBest
  insight,    \* frontier_analysis_result.insight, a set of annotations
  committed,  \* the best branch of this cycle is terminal and may be committed
  (* the trajectory frontier of the episode *)
  entries, trajectories, insertionCounter, dropped, demoted,
  disk,       \* the latest archive snapshot
  (* history variables *)
  written,    \* state ids of the completed writes
  torn        \* a write was cut short

\* What the process loses when it dies, or drops when an episode returns.
episodeVars == <<cycle, total, env, archive, paths, base, selected, branches, batch, inserted,
                 best, insight, committed>>
frontierVars == <<entries, trajectories, insertionCounter, dropped, demoted>>
diskVars == <<disk, written, torn>>
vars == <<phase, run, episodeVars, frontierVars, diskVars>>

-----------------------------------------------------------------------------
Nothing == [s \in {} |-> 0]
NoBest == [value |-> NoValue, score |-> NoValue]
NoBase == NodeAt(EnvReset(SeededStart), NoNative, -1)

TrajectoryIds == EpisodeIds \X (1..MaxCycles) \X (1..BranchesPerRoot)
RootId(r) == <<EpisodeOf[r], 0, 0>>

\* The runner inserts every trajectory with the default scores of insert.
Frontier == INSTANCE TrajectoryFrontier
  WITH Ids <- TrajectoryIds, Values <- Int, Bonuses <- {0},
       MaxSize <- FrontierSize, EnableTiebreak <- FALSE,
       MaxInsertions <- MaxCycles * BranchesPerRoot

Init ==
  /\ phase = "idle" /\ run = 0
  /\ cycle = 0 /\ total = 0 /\ env = EnvReset(SeededStart)
  /\ archive = Nothing /\ paths = Nothing /\ base = NoBase /\ selected = "none"
  /\ branches = << >> /\ batch = << >> /\ inserted = 0
  /\ best = NoBest /\ insight = NoInsight /\ committed = FALSE
  /\ entries = {} /\ trajectories = Nothing /\ insertionCounter = 0
  /\ dropped = {} /\ demoted = FALSE
  /\ disk = [states |-> Nothing, garbled |-> FALSE]
  /\ written = {} /\ torn = FALSE

\* The process drops the episode.
Forget ==
  /\ phase' = "idle"
  /\ cycle' = 0 /\ total' = 0 /\ env' = EnvReset(SeededStart)
  /\ archive' = Nothing /\ paths' = Nothing /\ base' = NoBase /\ selected' = "none"
  /\ branches' = << >> /\ batch' = << >> /\ inserted' = 0
  /\ best' = NoBest /\ insight' = NoInsight /\ committed' = FALSE
  /\ entries' = {} /\ trajectories' = Nothing /\ insertionCounter' = 0
  /\ dropped' = {} /\ demoted' = FALSE

-----------------------------------------------------------------------------
(* The start of an episode. *)

\* read_jsonl raises on a line that was cut: the episode fails before the reset.
LoadFails ==
  /\ phase = "idle" /\ run < MaxRuns /\ disk.garbled
  /\ run' = run + 1
  /\ UNCHANGED <<phase, episodeVars, frontierVars, diskVars>>

\* _load_persisted_archive, reset with the seed, and the upsert of the root.
StartEpisode ==
  /\ phase = "idle" /\ run < MaxRuns /\ ~disk.garbled
  /\ run' = run + 1
  /\ phase' = "write"
  /\ env' = EnvReset(SeededStart)
  /\ archive' = Upsert(disk.states, StateId[SeededStart], RootState(env', RootId(run')))
  /\ UNCHANGED <<cycle, total, paths, base, selected, branches, batch, inserted, best, insight,
                 committed, frontierVars, diskVars>>

-----------------------------------------------------------------------------
(* One cycle. *)

Loop == phase = "select" /\ total < MaxSteps /\ cycle < MaxCycles

NeverExhausted(n) == FALSE
AttemptsExhausted(n) == n >= MaxReplayAttempts + 1

\* The restore of the selected state fails: the loop goes on to another
\* selection, unless the cycles used up max_replay_attempts.
RestoreFails(s) ==
  /\ Loop
  /\ \E outcome \in RestoreArchived(env, archive[s]) :
       /\ ~outcome.result.success
       /\ env' = outcome.env
  /\ archive' = NoteRestore(archive, s, FALSE)
  /\ cycle' = cycle + 1
  /\ phase' = IF AttemptsExhausted(cycle') THEN "close" ELSE "select"
  /\ UNCHANGED <<run, total, paths, base, selected, branches, batch, inserted, best,
                 insight, committed, frontierVars, diskVars>>

RestoreSucceeds(s) ==
  /\ Loop
  /\ \E outcome \in RestoreArchived(env, archive[s]) :
       /\ outcome.result.success
       /\ env' = outcome.env
       /\ base' = NodeAt(outcome.env, IF NativeSnapshots THEN outcome.env.world ELSE NoNative,
                         Len(outcome.env.history) - 1)
  /\ archive' = NoteRestore(archive, s, TRUE)
  /\ cycle' = cycle + 1
  /\ selected' = s
  /\ phase' = "explore"
  /\ UNCHANGED <<run, total, paths, branches, batch, inserted, best, insight, committed,
                 frontierVars, diskVars>>

Remaining == Max({1, MaxSteps - total})
BranchCountOfTheBudget == Remaining
BranchCount == Max({1, Min({BranchesPerRoot, Remaining})})
BranchHorizonOfTheBudget == Max({1, Min({RolloutDepth, Remaining})})
BranchHorizon == Max({1, Min({RolloutDepth, Max({1, Remaining \div BranchCount})})})

\* The steps recorded while `actions` are played from e.
StepsOf(e, actions) ==
  [i \in 1..Len(actions) |->
     LET before == Play(e.world, SubSeq(actions, 1, i - 1))
         after == Move[<<before, actions[i]>>]
     IN  [world |-> after, reward |-> Score[after] - Score[before],
          replay |-> e.history \o SubSeq(actions, 1, i)]]

\* The wrapper after `actions` were played from e.
RolledOut(e, actions) == FoldLeft(EnvStep, e, actions)

\* The rollouts a branch may make from e: it stops at a final state, at the
\* horizon, and anywhere before that for want of proposals or because of a loop.
Rollouts(e) ==
  {actions \in SeqOf(Actions, BranchHorizon) :
     \A i \in 1..Len(actions) :
       LET before == Play(e.world, SubSeq(actions, 1, i - 1))
       IN  /\ <<before, actions[i]>> \notin Raises
           /\ i > 1 => ~Terminal[before]}

BranchStartUnrestored == {[env |-> env, result |-> [success |-> TRUE, mode |-> "RESET_ONLY"]]}

\* _restore_branch_start
BranchStart == RestoreOutcomes(env, base, UnrecordedSteps(base))

\* _run_branch: every branch first restores the base.
ExploreBranch ==
  /\ phase = "explore" /\ Len(branches) < BranchCount
  /\ \E outcome \in BranchStart :
       IF outcome.result.success
       THEN \E actions \in Rollouts(outcome.env) :
              /\ env' = RolledOut(outcome.env, actions)
              /\ branches' = Append(branches, StepsOf(outcome.env, actions))
       ELSE env' = outcome.env /\ branches' = Append(branches, << >>)
  /\ UNCHANGED <<phase, run, cycle, total, archive, paths, base, selected, batch, inserted, best,
                 insight, committed, frontierVars, diskVars>>

\* _prefix_steps_for_archived_state
PrefixSteps(a) ==
  IF a.prov \in DOMAIN paths
  THEN SubSeq(paths[a.prov], 1, Min({a.timestep + 1, Len(paths[a.prov])}))
  ELSE << >>

\* _build_glow_branch_trajectories: one trajectory per branch that took a step.
BranchTrajectories ==
  LET prefix == PrefixSteps(archive[selected])
      WithBranch(built, b) ==
        IF branches[b] = << >> THEN built
        ELSE Append(built, [id |-> <<EpisodeOf[run], cycle, b>>, steps |-> prefix \o branches[b]])
  IN  FoldLeftDomain(WithBranch, << >>, branches)

StepsTaken == FoldLeft(LAMBDA sum, branch : sum + Len(branch), 0, branches)

\* _is_post_score_stale_branch, which reads affordances and clusters too: only a
\* branch that gained no score can be stale, and it need not be.
MayBeStale(branch) == branch # << >> => Score[Last(branch).world] =< base.score

\* The early stop of explore_from_state, in a scene that has already scored.
SceneMayBeStale ==
  /\ base.score > 0 /\ Len(branches) >= BranchPatience
  /\ \A b \in (Len(branches) - BranchPatience + 1)..Len(branches) : MayBeStale(branches[b])

BranchesThatMoved == {b \in DOMAIN branches : branches[b] # << >>}

\* _classify_revisit_progress: a gain of score is an achievement, and a branch that
\* took a step may have been another one, or only have shown something new.
Judgements ==
  LET gained == \E b \in BranchesThatMoved : Score[Last(branches[b]).world] > base.score
  IN  {j \in [achieved : BOOLEAN, exploratory : BOOLEAN] :
         /\ gained => j.achieved
         /\ BranchesThatMoved = {} => ~j.achieved /\ ~j.exploratory}

\* The exploration ends after its last branch or early, and the revisit is judged.
\* Its best branch may be terminal and clear the commit gate.
FinishExploration ==
  /\ phase = "explore"
  /\ \/ Len(branches) = BranchCount
     \/ SceneMayBeStale
  /\ total' = total + StepsTaken
  /\ batch' = BranchTrajectories
  /\ phase' = IF batch' = << >> THEN "close" ELSE "insert"
  /\ \E best_is_final \in BOOLEAN :
       /\ best_is_final => \E b \in BranchesThatMoved : Terminal[Last(branches[b]).world]
       /\ committed' = best_is_final
  /\ \E j \in Judgements, level \in SaturationLevels :
       archive' = NoteRevisit(archive, selected, j.achieved, j.exploratory, level)
  /\ UNCHANGED <<run, cycle, env, paths, base, selected, branches, inserted, best, insight,
                 frontierVars, diskVars>>

PreferTheLatest(old, t) ==
  [value |-> TrajectoryValue(t.steps), score |-> Score[Last(t.steps).world]]

\* _prefer_higher_value_trajectory
PreferHigherValue(old, t) ==
  LET value == TrajectoryValue(t.steps)
      score == Score[Last(t.steps).world]
      better == old = NoBest \/ value > old.value \/ (value = old.value /\ score > old.score)
  IN  IF better THEN [value |-> value, score |-> score] ELSE old

InsertTrajectory ==
  /\ phase = "insert"
  /\ LET t == batch[inserted + 1]
         stored == [id \in DOMAIN paths \cup {t.id} |-> IF id = t.id THEN t.steps ELSE paths[id]]
     IN  /\ Frontier!InsertNew(t.id, TrajectoryValue(t.steps), 0)
         /\ paths' = Restrict(stored, DOMAIN trajectories')
         /\ best' = PreferHigherValue(best, t)
  /\ inserted' = inserted + 1
  /\ phase' = IF inserted' = Len(batch) THEN "update" ELSE "insert"
  /\ UNCHANGED <<run, cycle, total, env, archive, base, selected, branches, batch, insight, committed,
                 diskVars>>

AnalysisIsDue ==
  /\ EnableAnalysis
  /\ cycle % AnalysisFrequency = 0
  /\ entries # {}

RetainedTrajectories == {[id |-> id, steps |-> paths[id]] : id \in DOMAIN paths}

\* How many retained trajectories come before one of them in the frontier.
Rank ==
  [id \in DOMAIN paths |->
     Cardinality({f \in entries : \E e \in entries : e.id = id /\ Frontier!Outranks(f, e)})]

\* Ingestion, refresh, analysis and projection: the analysis of an earlier cycle
\* is applied again when none is due.
UpdateArchive ==
  /\ phase = "update"
  /\ LET refreshed == Refresh(IngestAll(archive, batch), RetainedTrajectories)
     IN  \E named \in (IF AnalysisIsDue THEN Insights(refreshed, RetainedTrajectories, Rank)
                       ELSE {insight}) :
           /\ insight' = named
           /\ archive' = Project(refreshed, named)
  /\ phase' = "write"
  /\ UNCHANGED <<run, cycle, total, env, paths, base, selected, branches, batch, inserted, best,
                 committed, frontierVars, diskVars>>

-----------------------------------------------------------------------------
(* The archive snapshot. *)

OnDiskWhenRetained(states) ==
  [s \in {t \in DOMAIN states : states[t].support # {}} |-> [states[s] EXCEPT !.native = NoNative]]

\* A record on disk: native snapshots are not written.
OnDisk(states) == [s \in DOMAIN states |-> [states[s] EXCEPT !.native = NoNative]]

\* write_states: the file of the episode is opened, truncated and written.
WriteSnapshot ==
  /\ phase = "write"
  /\ disk' = [states |-> OnDisk(archive), garbled |-> FALSE]
  /\ written' = written \cup DOMAIN archive
  /\ phase' = IF committed THEN "close" ELSE "select"
  /\ branches' = << >> /\ batch' = << >> /\ inserted' = 0 /\ committed' = FALSE
  /\ base' = NoBase /\ selected' = "none"
  /\ UNCHANGED <<run, cycle, total, env, archive, paths, best, insight, frontierVars, torn>>

\* The process dies while it writes: the records of some first states of
\* sorted_states reached the disk, and the line after them perhaps in part.
CrashWhileWriting ==
  /\ phase = "write"
  /\ \E kept \in SUBSET DOMAIN archive, garbled \in BOOLEAN :
       /\ \A s \in kept, t \in DOMAIN archive \ kept :
            ~Before(ArchiveOrder(archive[t]), ArchiveOrder(archive[s]))
       /\ kept = DOMAIN archive => ~garbled
       /\ disk' = [states |-> OnDisk(Restrict(archive, kept)), garbled |-> garbled]
  /\ torn' = TRUE
  /\ Forget
  /\ UNCHANGED <<run, written>>

\* The process dies, or an exception leaves the loop, between two steps.
Crash ==
  /\ phase # "idle"
  /\ Forget
  /\ UNCHANGED <<run, diskVars>>

BudgetSpent ==
  /\ phase = "select" /\ total >= MaxSteps
  /\ phase' = "close"
  /\ UNCHANGED <<run, episodeVars, frontierVars, diskVars>>

\* env.close, and the result is returned.
Close ==
  /\ phase = "close"
  /\ Forget
  /\ UNCHANGED <<run, diskVars>>

-----------------------------------------------------------------------------
Proceed ==
  \/ \E s \in Selectable(archive, insight) : RestoreFails(s) \/ RestoreSucceeds(s)
  \/ ExploreBranch
  \/ FinishExploration
  \/ InsertTrajectory
  \/ UpdateArchive
  \/ WriteSnapshot
  \/ BudgetSpent
  \/ Close

Next == LoadFails \/ StartEpisode \/ Proceed \/ Crash \/ CrashWhileWriting

Spec == Init /\ [][Next]_vars

\* The loop is one thread: as long as it can take a step, it does.
FairSpec == Spec /\ WF_vars(Proceed)

-----------------------------------------------------------------------------
TypeOK ==
  /\ phase \in {"idle", "write", "select", "explore", "insert", "update", "close"}
  /\ run \in 0..MaxRuns
  /\ DOMAIN archive \subseteq {StateId[w] : w \in Worlds}
  /\ DOMAIN paths = DOMAIN trajectories
  /\ inserted =< Len(batch) /\ Len(batch) =< Len(branches)
  /\ Len(branches) =< BranchesPerRoot
  /\ best # NoBest => best.value \in Int /\ best.score \in Int

\* The rollouts of an episode, over all cycles and branches, take at most
\* max_steps steps of the environment, and every cycle is accounted for by a
\* step taken or by a tolerated restore failure.
BudgetRespected ==
  /\ total =< MaxSteps
  /\ cycle =< MaxSteps + MaxReplayAttempts + 1

CanLeadTo(actions, s) == \E start \in Starts : StateId[Play(start, actions)] = s

\* Whatever was merged, evicted, written, lost and loaded again: the action
\* history that an archived state is restored by leads from a state that a reset
\* can produce to that very state, and its native snapshot is one of that state.
ReplayReachesTheState ==
  \A states \in {archive, disk.states} : \A s \in DOMAIN states :
    /\ CanLeadTo(states[s].replay, s)
    /\ states[s].native # NoNative => StateId[states[s].native] = s

Follows(step, before) ==
  /\ \E a \in Actions : Move[<<before.world, a>>] = step.world
  /\ step.reward = Score[step.world] - Score[before.world]

\* A trajectory of the frontier is one play of the game: where the prefix taken
\* from its provenance ends, the branch explored from the restored root goes on.
TrajectoriesAreWhole ==
  \A id \in DOMAIN paths : \A i \in 2..Len(paths[id]) : Follows(paths[id][i], paths[id][i - 1])

Refreshed == entries # {} /\ phase \in {"write", "select", "explore"}

\* Between the refresh and the next insertion, archive and frontier agree: every
\* state of a retained trajectory is archived and supported by it, no evicted
\* trajectory supports a state, and no archived value exceeds what the best
\* retained trajectory achieved, whatever an earlier run had stored.
ArchiveReflectsFrontier ==
  Refreshed =>
    /\ \A s \in DOMAIN archive : archive[s].support \subseteq {e.id : e \in entries}
    /\ \A id \in DOMAIN paths : \A i \in 1..Len(paths[id]) :
         LET s == StateId[paths[id][i].world]
         IN  s \in DOMAIN archive /\ id \in archive[s].support
    /\ Max({archive[s].achieved : s \in DOMAIN archive}) = Max({0} \cup {e.value : e \in entries})

\* ArchivedState.validate_invariants never raises: the potential of a state in
\* memory or on disk, stale as its analysis may be, is at least what it achieved.
PotentialBoundsAchieved ==
  \A states \in {archive, disk.states} : \A s \in DOMAIN states :
    states[s].projected # NoValue => states[s].projected >= states[s].achieved

\* The trajectory an episode reports as its result is never worth less than one
\* it retains, nor more: the bounded frontier still holds one of that value.
BestIsTheFrontiersTop ==
  best # NoBest => best.value = Max({e.value : e \in entries})

\* What revisits cost is not forgotten: in the snapshots on disk, through merges,
\* refreshes, deaths of the process and reloads, the counters of a state never fall
\* while the state is known (ArchiveUpdater._merge_archived_state, note_selection).
RevisitsAreRemembered ==
  [][\A s \in DOMAIN disk.states \cap DOMAIN disk'.states :
       /\ disk'.states[s].selections >= disk.states[s].selections
       /\ disk'.states[s].visits >= disk.states[s].visits]_vars

\* Where no language model speaks, nothing is promised that no retained trajectory
\* reached: stale analyses and reloaded states leave no potential above the best of
\* the frontier (apply_projected_potential_from_frontier_analysis).
PotentialWasReached ==
  Refreshed /\ AnalysisAnswers = {} =>
    \A s \in DOMAIN archive :
      archive[s].projected # NoValue => archive[s].projected =< Max({0} \cup {e.value : e \in entries})

\* Unless a write was cut short, every state that a snapshot ever held is known
\* to every later episode: crashes between two writes lose no archived state.
KnownStatesSurvive ==
  ~torn /\ phase # "idle" => written \subseteq DOMAIN archive

\* An episode ends: its budget is spent, a restore fails late, or it breaks off.
EpisodeEnds == phase # "idle" ~> phase = "idle"

-----------------------------------------------------------------------------
(* What the documents say, and the code does not do. *)

\* A selected state can be restored.
RestoreRemainsExact == [][cycle' = cycle + 1 => phase' = "explore"]_vars

\* The achieved value of an archived state is the score gained on the way to it.
AchievedIsTheScoreGained ==
  Refreshed =>
    \A s \in DOMAIN archive :
      archive[s].support # {} =>
        archive[s].achieved >= Score[Play(SeededStart, archive[s].replay)] - Score[SeededStart]
=============================================================================
