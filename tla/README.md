# Formal models of the GLoW agent for Jericho

TLA+ models of the program in this repository: an agent that plays interactive
fiction through a Jericho emulator, remembers complete trajectories in a bounded
frontier and single states in an archive, and goes back to archived states to
explore from them. Source paths below are relative to `src/zork_agent/`.

## 1. The system

| component | source | state | operations |
|---|---|---|---|
| Trajectory frontier | `memory/frontier.py` `TrajectoryFrontier` | ranked list `_entries`, table `_trajectories`, insertion counter | `insert`, trim, top-k reads |
| Legacy state frontier | `memory/frontier.py` `FrontierQueue` | ranked entries, family and cluster penalties, revisit counters | `add`, `pop_best`, `note_revisit_outcome`, native snapshot pruning |
| Jericho wrapper | `env/jericho_env.py` | emulator, `_action_history`, `_step_index`, `_last_state` | `reset`, `step`, `set_native_state`, `validate_restored_state`, `capture_state`, snapshots |
| Replay | `env/replay.py` | recorded steps | native restore, reset and replay, validation |
| State archive | `memory/archive_updater.py` | archived states by id | ingestion, merge, refresh of achieved values, projection of potentials, counters |
| Archive store | `memory/archive_store.py`, `utils/serialization.py` | one JSONL snapshot per episode id | write in place, load of the latest by modification time |
| GLoW loop | `experiment/episode_runner.py` `_run_glow_episode` | cycle and step counters, archive, best trajectory, last insight | select, restore, explore, insert, ingest, refresh, analyse, project, write |
| Legacy loop | same file, `_run_legacy_episode` | steps, pending branch actions, replay attempts, cooldowns, stall counters | explore on a cadence, commit, step, record |
| Episode map, action history | `types.py` `EpisodeMapMemory`, `ActionClusterHistory` | regions, exits, opportunities, attempts per object | record a state, record a transition, guidance, exhaustion |
| Local explorer | `policy/local_explorer.py` | root profiles, local world models | branch rollouts, comparison, commit gate |
| MAR and local world models | `policy/mar_reflector.py`, `memory/local_world_model_store.py` | a model per root, on disk | infer, merge, write, read |
| State selector | `policy/state_selector.py` | last result | heuristic ranking, choice by the LLM with fallback |
| Frontier analyzer | `policy/frontier_analyzer.py` | last result | analysis by the LLM with fallback |
| Action generator, reflection | `policy/` | last result | proposals, reranking, guidance |
| LLM client | `llm/base.py`, `llm/lmstudio_client.py` | counters per stage | a call with retries over HTTP |
| CLI, evaluator, configuration, records | `cli.py`, `experiment/evaluator.py`, `config.py`, `types.py` | none of their own | batches, validation, conversions |

How they interact: everything is one thread. The GLoW loop selects an archived
state, restores it through replay (native snapshot first), lets the local
explorer run branches on the same wrapper (each of which restores the root
again), turns the branches into trajectories that begin with the prefix retained
for their root, inserts those into the frontier, and derives the archive's values
from what the frontier retains. The archive is the only thing that outlives a
process: the next episode loads the latest snapshot. The stages that consult the
LLM all go through the one client.

What is hard here is not parallelism but history: values that are read from a
summary, an index, an id or a snapshot that belongs to another visit, another
cycle or another run; restores that fail half way; evictions that take away what
something else still refers to; and a process that dies while it writes. The full
list, each at its line, is under `hazards` in `PROJECT.json`.

What makes each component correct:

- frontier: list and table agree; the bound holds; greedy trimming keeps the best;
- wrapper and replay: the recorded history explains the machine state; a restore
  that reports success is at the node; a faithful replay is not called a failure;
- archive: an archived state can be reached by its replay; its values are those of
  the retained trajectories; its potential is never below what was achieved;
- store: no archived state is lost unless a write was torn;
- loop: the step budget holds, trajectories are whole, the result is the best
  retained, and the episode ends;
- client: counters add up, duplication is bounded, every call ends;
- legacy loop: planning leaves no trace in the playthrough; stalls are noticed;
  map and history say only what was played;
- legacy frontier: no two entries that always look alike, and no kind of state lost
  while there is room;
- explorer: score and gate agree; counters, prefixes and history of a root agree;
- local world models: no write order and no crash makes a root forget or contradict
  itself.

## 2. Modules

| module | models | builds on |
|---|---|---|
| `TrajectoryRanking` | sort key and truncation of the trajectory frontier | |
| `TopTrajectories` | abstract frontier: of everything offered, the best are kept | `TrajectoryRanking` |
| `TrajectoryFrontier` | `insert`, `_resort_and_trim`, top-k reads; refines `TopTrajectories` | `TrajectoryRanking` |
| `JerichoEnv` | each method of the wrapper as an operator on its state | |
| `SavedNodes` | `restore_saved_node` and the replay loops as operators to sets of outcomes | `JerichoEnv` |
| `Replay` | a program that steps, saves and restores in any order | `SavedNodes` |
| `StateArchive` | each operation of `ArchiveUpdater` as an operator on the archive | `SavedNodes` |
| `FrontierAnalysis` | what an analysis names: answers of the LLM and the fallback | `StateArchive` |
| `RootSelection` | score, penalties and order of archived states, choice with and without LLM | `StateArchive` |
| `GlowEpisode` | the GLoW loop over archive, frontier, wrapper and disk; restarts | `FrontierAnalysis`, `RootSelection`, an instance of `TrajectoryFrontier` |
| `StepFeatures` | what is measured of one step: durable progress, affordances, loop and movement penalties | |
| `StateFrontier` | each operation of `FrontierQueue` as an operator on the queue | `StepFeatures` |
| `MapMemory` | `EpisodeMapMemory` and `ActionClusterHistory` | `StateFrontier` |
| `LegacyEpisode` | the legacy loop over frontier, map, history and restores | `MapMemory`, `SavedNodes` |
| `BranchRanking` | score of a branch, comparison, commit gate | |
| `RootProgression` | the profile of what was committed from a root, and what a branch is worth against it | |
| `LocalWorldModel` | the lesson of a visit and its merge into the model of the root | `BranchRanking` |
| `LocalExplorer` | visits to one root: rollouts, early aborts, gate, lesson, files, crashes | `LocalWorldModel`, `RootProgression`, `StepFeatures`, `JerichoEnv` |
| `LlmClient` | a call with its attempts, the server, the stage counters | |
| `DataInduction` | lemmas on sequences, folds, maxima and sums, by induction over sets | |
| `SavedNodesProofs` | lemmas and theorems on the wrapper and on restores | `SavedNodes`, `DataInduction` |
| `ReplayProofs`, `GlowEpisodeProofs`, `LegacyEpisodeProofs` | theorems on `Replay`, `GlowEpisode` and `LegacyEpisode` | `SavedNodesProofs` |
| `TrajectoryFrontierProofs`, `LlmClientProofs` | theorems on the modules of those names | |
| `LocalExplorerProofs` | theorems on `LocalExplorer` | `DataInduction` |

`MC...` modules hold the small instances. A definition of a component whose name
says how it departs from the code (`ClipOneTooMany`, `NeverExhausted`, ...) is a
mutant, listed in `PROJECT.json` with the property that fails once it stands in
the place of the definition below it.

### Correspondence

*Trajectory frontier.* `entries` is `_entries` as a set, because the order of the
list is a function of its elements (`Outranks`, the sort key). `trajectories` is
`_trajectories` reduced to the value it is ranked by. `InsertNew` and `Reinsert`
are the two ways through `insert`, with the trim; the table is rebuilt only when
the list was too long, as in the code. `dropped` and `demoted` are history
variables. The weighted novelty and diversity scores are one number, `bonus`.

*Wrapper and replay.* The emulator is not in the repository. It is a
deterministic machine `Move` whose state includes its random generator, so two
resets may start two different machines (`Starts`); `SeededStart` is the one the
seed of the episode gives. `Capture` reproduces what the code believes it sees:
`done` from the last seen state, and the expected observation where the backend
shows none. Texts are tokens of which none contains another, so that `_texts_match`
is equality up to the empty text. `RestoreOutcomes` is a set because the fallback
resets without a seed and because `set_state()` may raise.

*State archive.* An archived state keeps what a restore, a prefix, a merge, a
refresh or a selection reads, its counters of selections, visits and revisits
included. `StateId` is the identity by world-state hash, `Summary` the
truncation to 200 and 120 characters.

*Selection and analysis.* `SelectionScore` ranks every archived state by achieved and
potential value, alignment with the current insight, native bonus and what earlier
selections and revisits cost, in ten-thousandths, with the weights of the default
configuration. With the LLM any of the first `PromptLimit` candidates may be
chosen, and an unusable answer falls back to the first. The last tie-break, on the
hash of the state id, is left open; so is how saturated a root is among
`SaturationLevels`. Whether a revisit counts as achieving something is open, except
that a gain in score forces it. An insight is a set of annotations; a critical
state's potential is the maximum over the trajectories through it. The fallback looks at
the first `ListedStates` of the sorted archive (10 in the code), names the
`NamedStates` (5) with the widest gaps, and cites the `CitedTrajectories` (4) best
ranked trajectories through each; ties that the code breaks by a hash are open.

*GLoW loop.* One action per step of the loop body: `RestoreFails`,
`RestoreSucceeds`, `ExploreBranch` (one branch, from its restore to its last
action), `FinishExploration` (trajectories and step total), `InsertTrajectory`,
`UpdateArchive` (ingest, refresh, analyse when due, project), `WriteSnapshot`.
Which actions are proposed, whether a stale scene is left
early (possible only after `BranchPatience` branches without a gain in score),
whether the best branch clears the commit gate and what the LLM answers are
nondeterministic, within what the code can produce. `Crash` stands for a death of
the process and for an exception that leaves the loop; `CrashWhileWriting` leaves a
prefix of the sorted records and perhaps half a line, on which `LoadFails`.

*LLM client.* The server may lose a request, answer it, or complete an attempt
after the client gave it up. An attempt ends as the code tells outcomes apart:
transport failure, transient status, other status, no JSON object, no text, text.

*Legacy loop.* `views` and `acts` are the recorded episode, `env` the wrapper that
planning drives as well. `Plan` is one planning pass: the selected entry is restored, branches are run, the episode's own state is restored
(`RestoredEpisode`), and an accepted plan is left in `pending`; `PlanFromRestored`
and `GiveUpPlanning` are its ways out, `PlanningRaises` the exceptions. `TakeStep` is
the rest of the loop body: step, map, history, frontier, revisit outcome, cooldown,
fail-fast counters. `lost` is a history variable: a restore of
the episode's state failed, or was made by a replay from another random start.
`StepFeatures` and `MapMemory` read a game through what the code parses out of its
texts: objects, exits, items, the region of a state.
The frontier compares summaries, as the code does, by the words they have in common
among all their words, against a threshold. A summary (`SummaryOf`) consists of the words
for inventory, first actions and observation, which are those of the state, and of
depth, score and recent gain as one word each. So two recordings of one state may differ,
two states may be similar at one depth and not at another, and similarity is not transitive.

*Local explorer.* The game of the model is deterministic, so a branch is its action
sequence from the root, and every measure a function of it. `BranchStep` is one pass
of the rollout loop, `EndsWith` its ends in order; `ProgressScore`, `SortKey` and `Gate`
are the score, the comparison and the commit gate; penalties keep their order and their caps.
`FinishExploration` is what follows the loop: profile, lesson, merged model.
`WriteFile` writes one file at a time: the bundle of the update, `model.json`, the
summary, the copy inside the bundle's directory, and then, because the runner
rewrites the decayed profile after the revisit, model and summary again. `Crash` tears
the file being written or loses what is in memory; it stands for the death of the
process and for exceptions (the emulator, an answer with a number that is none). A
torn `model.json` makes every later visit of the root raise (`ReadRaises`). Proposals,
LLM answers, the best known score and whether a step's guidance matched are open. The
lists of a lesson are cut to `LessonLimit` items (4 in the code).

## 3. Runs

| run | configuration | shows |
|---|---|---|
| `trajectory_frontier` | 3 ids, 2 values, 2 bonuses, 2 places, 4 insertion orders | agreement, bound, top-k, refinement of `TopTrajectories` |
| `replay` | two random seeds that look alike until a fight, histories of 2, 2 nodes | `HistoryExplainsWorld`, `NoFalseDivergence`, `SuccessMeansAtTheNode` |
| `glow_episode` | one episode, 4 steps, replay only, selection with LLM, analysis every 2 cycles (376 000 states) | budget, whole trajectories, values, potentials never below what was achieved |
| `glow_ends` | one episode, 3 steps, replay only, selection without LLM, fair | `EpisodeEnds` |
| `glow_restarts` | two episodes, 2 steps, native snapshots, LLM that never answers (225 000 states) | archive after merges, evictions, deaths and loads; revisit counters; where potentials come from |
| `legacy_episode` | 6 steps, two revisits, any proposals, two random starts | one playthrough, stalls, cooldown, frontier, map, exhaustion |
| `local_explorer` | two visits of two branches of two actions (187 000 states) | gate, counters of the root, files after crashes |
| `llm_client` | 2 stages, 2 calls each, 3 attempts per call | counters, bounded duplication, no repeat of refusals, every call ends |
| `glow_restore_exact` | as `glow_episode`, 3 steps | finding: an archived state that can never be restored by replay |
| `glow_reused_id` | as `glow_restarts`, two places, one episode id | finding: a prefix from an unrelated trajectory |
| `glow_prefix_lost` | as `glow_restarts`, two places | finding: achieved values that restart at zero |
| `commit_truncates_gain` | as `local_explorer` | finding: a plan that stops before the gain it was admitted for |

**Bounds.** Three trajectories for two places give eviction, re-insertion after
eviction, ties broken by age and by bonus. Two histories of two actions reach the
win that only the seeded machine allows, the loss and the raising step on the other,
and nodes of one history restored over another. The game of the loop has four places: a way with two scores, a
place whose inventory outgrows its summary, a negative reward on the way back, and
a final state. With two branches, two, three and four steps divide the budget with and
without rest; four give rollouts of two actions, and what a first cycle leaves of them a second
and third one with a prefix; a frontier of two
is filled by the first cycle, so every later one evicts; across restarts it has one
place, so that states outlive their trajectories within a cycle. `MaxCycles` lies above the
bound that `BudgetRespected` states, so it cuts nothing off. An analysis every second
cycle leaves a cycle on which the old insight meets new values. The lists of an analysis
are cut to three states, two names and one trajectory, so that every cut bites.
The game of the legacy loop has a way in and out of a house, a sword that scores where it
is taken and where it is brought, and a second random start in which the same moves end in
death. The hall always looks the same under both starts and like nothing else. The field
with the sword looks like the field and, for what is carried, like the hall where the sword
was taken; these two do not look like each other, so that a chain arises, of which the
frontier does keep two similar entries. In a frontier of
three there is room for one more than that, so that a loss would show, and one snapshot
makes it prune; its trim is not reached here. Six steps reach every fail-fast threshold, the
cooldown and a plan after it.
The game of the explorer has a lid to open and a lamp to take in either order, a move
on, a way back, a dig, a blow, and a final state; two branches give one better than
the other and ties, a second visit meets the history of the first, and
`HistoryLimit` 2 is filled (its trim is not reached). `LessonLimit` is 1, so that the lists
of a lesson are cut; the cut of the subgoals to three is not reached.
`MaxInsertions`, `MaxHistory`, `MaxNodes`, `MaxRuns`, `MaxVisits` and `MaxCalls`
bound counters and the environment's choices. The configurations of the loops, of the
explorer and of the client turn the deadlock check off, because these models stop on purpose:
when their runs, steps, visits or calls are used up.

**Fairness.** `GlowEpisode` assumes weak fairness of `Proceed`, the disjunction of
the loop's own steps: one thread that takes its next step whenever there is one.
Nothing is assumed of crashes or of new episodes. `LlmClient` assumes weak fairness
of the client's steps, which include the timeout httpx enforces on each attempt;
nothing is assumed of the server.

**Findings.** Four statements of documents and docstrings are not what the code does:

- *Restore remains exact* (`docs/archive_memory_design_note.md:98`). A saved node
  built from an archived state expects the shortened inventory, and the final
  validation of a replay compares it with the full one. Once a player carries more
  than 120 characters, every replay of such a state fails as an inventory mismatch
  (and, over a backend that shows its observation, every one with a text above 200).
- *A retained provenance prefix* (`experiment/episode_runner.py:2052`). With an
  archive directory shared between runs, default ids collide, and a loaded state
  takes the prefix of another trajectory.
- *The limitation only affects text context* (`docs/archive_memory_design_note.md:99`).
  A lost prefix also restarts the cumulative reward, hence the ranking in the
  frontier and the achieved values.
- *We now commit through the last meaningful progress action*
  (`experiment/episode_runner.py:2154`). At a root that has scored, an item taken is not
  durable, so the plan of a branch admitted for an item ends at an earlier durable step.

**Noted while modelling**, without a statement they contradict: in
`cluster_strategic_score` (`types.py:2269`) the penalty for exhausted objects stands
behind a comma, as an argument of `max`, and is never subtracted; six of the reasons
the commit gate names can never be the one (`ThresholdDecidesTheGate`); the search for
a duplicate in `FrontierQueue` stops at the first one, so that a recording similar to two
entries replaces one and leaves the other beside it (within a chain of neighbours, which
`DistinctEntries` leaves out);
`FrontierQueue` refreshes its scores before the trim, so that they still count what
the trim drops; a repeat whose record left the history of 64 counts as new again. The
modules model each of these as the code has it.

## 4. Proofs

`TrajectoryFrontierProofs` proves, for any `MaxSize` of at least one, any integer
values, any natural bonuses and any sequence of insertions:

- `TypeCorrect`, `TableAgrees`, `BoundedAndFull`, `GreedyTrimIsTopK`: the four
  invariants the run checks, and `FrontierKeepsPromise`: the refinement.

The invariants are not inductive one by one. `IInv` joins them and adds
`OrdersAreFresh`: orders are distinct and below the counter. Without it a new entry
could tie with an old one, and a trim would not be determined by the sort key. The
heart is `BestOfIsTheTop` (sorting and slicing returns as many entries as there is
room for, each of which outranks each one left out), proved from a bijection between
the entries and their positions, and `StoreKeepsBest`: what a trim pushes out of a
full frontier itself outranks all that was dropped before, so separation of
retained and dropped entries is preserved by every insert that demotes nothing.
`TopIsBestOf` turns separation back into "the best of all offers", which gives the
refinement step.

Assumptions: only those on the constants in `TrajectoryRanking` and
`TrajectoryFrontier`, which mirror the validation in `TrajectoryFrontierConfig`.
Scores are integers instead of floats.

`LlmClientProofs` proves the four invariants of the client for any set of stages and
any number of calls and retries: `TypeCorrect`, `CallsAreAccountedFor`,
`DuplicationIsBounded`, `OnlyTheRetryableIsRetried`. The inductive invariant joins
types, `CountsAddUp` and `RefusedIsNotRepeated` with `SentOnce`: an attempt is with the
server only if it was sent, and what the server works on and what it has done
together never exceed the attempts sent.
The bound on duplication does not survive a step without it, because a late answer
moves work from one count to the other.

`LocalExplorerProofs` proves all five invariants of the explorer and its action
property, for any game and generator, all weights, thresholds and lessons, any number of
visits and every crash. `AllInv` joins three invariants, of which each needs the others:

- `FilesInv`: phase by phase, which of the files have been written with the present
  update, and that the update knows all that the model it was read from knows. Without
  the phases a crash between two writes could leave any mixture. It gives
  `FilesNeverRunAhead` and `NothingIsForgotten`.
- `BranchesInv`: the types (`TypeCorrect`), and that the measures of every finished
  branch are numbers and truth values. The latter follows the arithmetic of the measures
  down to the penalties of a step, the sums over a branch and the sizes of sets.
  It serves twice. A case analysis of the score then shows that a branch above the
  threshold is refused only as stuck (`ThresholdDecidesTheGate`); and the sort keys,
  being lists of ten numbers, have a first best one (`BestIsComparable`), so that what is
  committed is a branch that was played.
- `VisitInv`: the progression that a visit reads is an `IsProfile`, as is every one in
  `FilesInv`. Beyond the counters it says that each branch in the history was `Noted`:
  its prefix counted, its clusters, worlds and end absorbed. That is why a continuation
  in the history is never new again (`NotedIsNotNew`: nothing unseen, and
  nothing deeper than itself), which `RepeatsAreNotNew` states, and why the first commit
  is distinct. `ProgressionCounts` states the sums; the one over prefixes is a fold in an
  order of the library's choice, so `DataInduction` shows that the order does
  not matter (`AddsInAnyOrder`) and that one more unit adds one (`OneMoreUnit`).

They assume, beyond the validation in the code, that a view lists finitely many actions,
objects and words, which are Python lists and sets, and that action names are ordered
(`NameOrder`). Number and length of branches and the cuts of a lesson are any positive numbers.

`LegacyEpisodeProofs` proves nine properties of the legacy loop, for any game and any
settings. Three follow the recorded steps backwards from the end of the episode:
`StallsAreNoticed` from `StallInv` (each counter is the length of a run at the end of
the episode that cannot be extended to the left, so that it is the longest one);
`GainsAreFollowedUp` from `CoolsDown` (after a gain i steps ago the cooldown is at least
what is left of it) and the types; `WornOutForWantOfGains` from `CountsAttempts` (the
count of an object is the number of its attempts since the last paid one).

Five rest on one invariant, `EpisodeInv`, in four parts: the wrapper is sound, in the
sense of `SavedNodesProofs` (`Wrapped`); what was played is a playthrough that ends in
the wrapper's state, unless a restore had its excuse (`Played`); the counters are within
their bounds (`Counted`); and the frontier holds good entries, each with a sound
node of the state it names, apart from each other and, while there is room, one of each
kind of recorded state (`Kept`). It gives `TypeCorrect`, `PlanningLeavesNoTrace`,
`DriftIsBounded`, `NoTwoEntriesAlike` and `RoomMeansNothingLost`. Sorting is a stable
insertion (`Placed`), which is what Python's sort returns; `ResortedRearranges` shows
that after it every entry is still there, in some order, unless it was cut at the end.
The last two theorems hold for any words and any threshold, transitive or not. Similarity of
summaries depends on depth and gain, so they speak of states: two may look alike if their
summaries are similar at equal depth and gain, and always do if they are similar with
neither in common (`MoreInCommonIsSimilar` gives both from the arithmetic of the
comparison). A kind is a set of states that nothing outside of it may look like, for one a
whole chain of neighbours. A duplicate is of the kind of what it duplicates
(`DuplicatesAreOfAKind`), so no kind loses its last entry to another; and where the states of
a kind always look alike, each of them is a duplicate of the entry that is there, so the kind
never has two. Inside a chain of which only neighbours are similar nothing more is true: there
an entry can be replaced by one that is like it and unlike the state it was kept for.

`ExitsResolvedWereWalked` is the property of the map: `ExitInv` says that only exits
that were walked through are resolved, and neither another look at a region nor an action
that stays in it adds one.

`DataInduction` carries the arguments over histories. Replays, rollouts, ingestion and
the values of trajectories are folds over sequences, and the prover cannot instantiate
an induction theorem that takes a predicate. It can compare sets: a property is stated
as a set of numbers or of sequences, and `NatInduct`, `IntervalInduct` and `SeqInduct`,
which rest on the library's well-foundedness of the naturals, show that the set is
everything. `FoldTrace` gives a fold as a trace, the function from positions to
intermediate results, and `TraceInvariant` carries a property along it.

`SavedNodesProofs` proves from it what a replayed history leaves behind, for any game.
`RestoreIsSound`: on a wrapper and a node that are themselves sound, every outcome of
`restore_saved_node` (native snapshot, replay, partial replay, bare reset) leaves a
wrapper whose history explains its machine; a success is at the node; and a failed
replay has a reason in the node or in the machine. `ReplayProofs` adds that the
program's other steps keep wrapper and nodes sound and obtains `TypeCorrect`,
`HistoryExplained`, `FailuresAreReal` and `SuccessIsAtTheNode`.

`GlowEpisodeProofs` proves nine invariants and an action property of the loop, for any
game, any budgets and settings and any number of runs, with deaths of the process and
failed loads between all steps. Four inductive invariants build on each other:

- `IInv` joins types and phases (`ControlInv`), archive and disk (`ArchiveInv`: no
  potential below what was achieved, the disk never ahead of memory, everything written
  kept unless torn), branches and batch (`BranchInv`), the best trajectory (`BestInv`),
  the budget (`BudgetInv`: a cycle is paid for by a step or by a tolerated failure) and
  the invariant of the trajectory frontier, whose theorems are used as they stand for
  the instance (`FrontierInv`). From it come `TypeCorrect`, `BudgetIsRespected`,
  `PotentialNeverBelowAchieved`, `BestTrajectoryIsTheTop`, `StatesSurvive` and
  `CountersNeverFall`.
- `AgreeInv` says that between refreshes the archive agrees with the frontier and that
  every retained path is known to the archive or waits in the batch; it gives
  `ArchiveAgreesWithFrontier` and `PromisesWereReached`.
- `RunInv` says that the replay of every archived state, recorded step and retained path
  leads, from some start of the game, to the state it is stored under; it gives
  `ReplaysReachTheirStates`. Resets without a seed are included: what was recorded on one
  start need not work from another, but it worked from the one it was recorded on. With
  native snapshots the theorem needs `IdsFollowMoves`: machines of one state id keep equal
  ids under equal moves. A merge pairs the actions of one visit with the payload of
  another, and without that hypothesis the two may lead apart. Without native snapshots
  the hypothesis says nothing.
- `WholeInv` ties each archived state to the position of a retained trajectory and the
  ids of a batch to its cycle; it gives `FrontierHoldsWholeTrajectories` for a
  `WholeGame`: a reset starts the seeded machine, a native snapshot is identified
  by its state id, episodes do not share ids, and no text is empty. These are what the
  property takes, not a convenience: after an unseeded reset of a backend whose
  observation is not read, a replay is accepted in another machine that looks the same, and the
  path jumps; with shared ids the property fails (`glow_reused_id`); and
  a state without text can be "restored" by a bare reset from which a branch
  then continues as if it were at the state. The instance of `glow_episode` meets all four.

Beyond the validation in the code, the theorems assume that the LLM's analysis, when it
answers, is built of state ids and numbers (`AnswersAssumption`) and that the bounds on
runs and cycles are natural numbers. The size of the frontier and the cuts of an analysis are
any positive numbers, the game may have any number of states: what an analysis names is
a subset of the archive whose potentials were reached, wherever its lists are cut
(`AnalysisAssumption`).

Only model-checked: liveness (`EpisodeEnds`, `CallEnds`), which is out of the
prover's reach. Every invariant and every action property of the passing runs is a
theorem.

## 5. Not modelled

- The action generator: scoring heuristics over texts. Its proposals are open choices of
  the loops, so that the properties hold for any proposals.
- Reflection: guidance texts of the legacy loop, without state beyond its last result.
- Texts everywhere (prompts, rendering, normalisation beyond what `_texts_match`, the
  parsed features and the words of a summary tell apart), metrics and diagnostics of the
  runner, the stub backend, parsing of configuration, manifests of the CLI, and the
  validation and JSON round trips of records.
- Directories of updates named by a time stamp of one second, and collisions of
  sanitised root ids: two updates of one root within a second share a directory.
- `enable_mar` switched off: the configuration's default is on, and the files exist only
  then.

`PROJECT.json` lists each component with its status and the reason.

## 6. What is left

1. The action generator's validation of LLM answers and its fallbacks, and reflection's
   cadence, as modules over `LlmClient`.
2. `LocalExplorer` as a refinement of the open choices that `GlowEpisode` makes about
   branches, with several roots over one store.
3. The refinement of item 2 and the safety of those modules as theorems.
