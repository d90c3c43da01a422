---------------------------- MODULE LocalExplorer -----------------------------
(***************************************************************************)
(* policy/local_explorer.py with memory/local_world_model_store.py: visits *)
(* to one root.  A visit reads what is known of the root, plays shallow    *)
(* branches from it, ranks them, lets the best one through the commit gate *)
(* or not, draws a lesson from all of them, and writes it to four files,   *)
(* one after the other.  The next visit starts from the files.             *)
(*                                                                         *)
(* The game is deterministic, so a branch is its sequence of actions: what *)
(* is measured of it is computed from there.  What the generator proposes, *)
(* and what the language model answers, are open choices.                  *)
(***************************************************************************)
EXTENDS StepFeatures, LocalWorldModel, RootProgression

CONSTANTS
  Root,               \* the world the visits start from
  Proposals,          \* [Worlds -> SUBSET Actions]: what the generator may propose
  Words,              \* [Worlds -> sets of words]: _significant_tokens
  Locations,          \* the observations that read like a place
  BulkActions, DiscardActions, AggressiveActions, ComplexActions,
  BestKnownScores,    \* what the caller may hold for the best score so far
  Answers,            \* the lessons that the language model may draw
  BranchCount, BranchHorizon, MaxVisits,
  MovementRatio,               \* branch_commit_movement_ratio_threshold, a percentage
  FamilyStallThreshold,        \* object_family_no_progress_threshold
  FailFastPenalty, FailFastMoves, FailFastBulk, FailFastChurn, FailFastPostScore,
  ScenePatience,               \* post_score_scene_branch_patience
  CommitSteps                  \* experiment.branch_commit_steps

ASSUME ExplorerAssumption ==
  /\ Root \in Worlds /\ Proposals \in [Worlds -> SUBSET Actions]
  /\ \A w \in Worlds : IsFiniteSet(Words[w])
  /\ {BranchCount, BranchHorizon, ScenePatience, CommitSteps} \subseteq Nat \ {0}
  /\ LessonLimit \in Nat \ {0} /\ NameOrder \in [Actions -> Nat]
  /\ \A a \in Actions, b \in Actions : NameOrder[a] = NameOrder[b] => a = b
  /\ FamilyStallThreshold \in Nat \ {0}
  /\ MaxVisits \in Nat /\ BestKnownScores \subseteq Int

VARIABLES
  phase,    \* "idle", "exploring", the file being written, or "died" of an exception
  visit,    \* [model: as read, profile, bestKnown, replayable] of the current visit
  done,     \* the branches finished: [failed, actions, aborted, measures]
  branch,   \* the actions of the branch in progress
  update,   \* the model to write
  files,    \* the directory of the root: model, summary, bundle
  visits    \* number of visits started

vars == <<phase, visit, done, branch, update, files, visits>>

\* A file is empty, holds one value, or was torn in two by a crash.
None == << >>
Torn == <<"torn", "torn">>
Holds(file) == Len(file) = 1

-----------------------------------------------------------------------------
(* The measures of a branch, at its i-th step and at its end. *)

\* The worlds seen, from the root on.
WorldsOf(acts) ==
  FoldLeft(LAMBDA seen, a : Append(seen, Move[<<LastOf(seen), a>>]), <<Root>>, acts)

ItemsGained(w) == Cardinality(Items[w] \ Items[Root])
ItemsLost(w) == Cardinality(Items[Root] \ Items[w])
Affordances(w) == PersistentAffordances(Root, w)
Exits(w) == NewExitActions(Root, w)
Gain(w) == ScoreGain(Root, w)

Speculative == AggressiveActions \cup ComplexActions
Churning == DiscardActions \cup Speculative

\* The most that the steps before the i-th had gained.
Peaks(seen, i) ==
  [items |-> Max({0} \cup {ItemsGained(seen[j]) : j \in 1..i}),
   affordances |-> Max({0} \cup {Affordances(seen[j]) : j \in 1..i}),
   exits |-> Max({0} \cup {Exits(seen[j]) : j \in 1..i})]

Reveals(a, w) ==
  NovelObjects(Root, w) # {} /\ (a \notin Movement \/ Affordances(w) > 0 \/ Exits(w) > 0)

\* _action_is_meaningful_branch_progress
MeaningfulStep(acts, seen, i) ==
  LET a == acts[i] w == seen[i + 1]
  IN  \/ ScoreGain(seen[i], w) > 0
      \/ ItemsGained(w) > Peaks(seen, i).items /\ a \notin DiscardActions
      \/ a \notin Movement /\ (\/ Reveals(a, w)
                               \/ Affordances(w) > Peaks(seen, i).affordances
                               \/ Exits(w) > Peaks(seen, i).exits)

\* _action_is_durable_branch_progress, before any score and after.
DurableFirst(a, w, seen, i) ==
  \/ /\ ItemsGained(w) > Peaks(seen, i).items
     /\ a \notin DiscardActions \cup AggressiveActions
  \/ Reveals(a, w) /\ a \notin Movement \cup Churning
  \/ IF Affordances(w) > Peaks(seen, i).affordances THEN a \notin Movement \cup Speculative
     ELSE Exits(w) > Peaks(seen, i).exits

DurableStep(acts, seen, i) ==
  LET a == acts[i] w == seen[i + 1]
  IN  \/ ScoreGain(seen[i], w) > 0
      \/ IF Score[Root] > 0 \/ Gain(w) > 0
         THEN Exits(w) > Peaks(seen, i).exits /\ a \notin Movement
         ELSE DurableFirst(a, w, seen, i)

GainAt(seen, i) ==
  Gain(seen[i + 1]) > 0 \/ (ItemsGained(seen[i + 1]) > 0 /\ ItemsLost(seen[i + 1]) = 0)

LastSuch(steps) == Max({0} \cup steps)
FirstSuch(steps) == IF steps = {} THEN 0 ELSE Min(steps)

FirstGain(acts, seen) == FirstSuch({i \in DOMAIN acts : GainAt(seen, i)})
LastDurable(acts, seen) == LastSuch({i \in DOMAIN acts : DurableStep(acts, seen, i)})
LastMeaningful(acts, seen) == LastSuch({i \in DOMAIN acts : MeaningfulStep(acts, seen, i)})

CountIn(acts, class) == Cardinality({i \in DOMAIN acts : acts[i] \in class})

\* post_gain_churn_action_count
PostGainChurn(acts, seen) ==
  LET first == FirstGain(acts, seen)
  IN  Cardinality({i \in DOMAIN acts : first > 0 /\ i > first /\ acts[i] \in Churning})

\* Penalties of the steps, in ten-thousandths.
LoopPenaltyAt(acts, seen, i) ==
  100 * LoopPenalty(SubSeq(acts, 1, i), SubSeq(seen, 1, i), seen[i + 1])

MovementPenaltyAt(acts, seen, i) ==
  LET visited == Cardinality({j \in 1..(i + 1) : Cluster[seen[j]] = Cluster[seen[i + 1]]})
  IN  100 * MovementPenalty(SubSeq(acts, 1, i), seen[i], seen[i + 1], visited)

Total(acts, seen, Penalty(_, _, _)) ==
  FoldLeft(LAMBDA sum, i : sum + Penalty(acts, seen, i), 0, [i \in DOMAIN acts |-> i])

-----------------------------------------------------------------------------
(* ActionClusterHistory, as the explorer keeps it over one branch. *)

AttemptPaid(acts, seen, i) ==
  \/ Score[seen[i + 1]] # Score[seen[i]]
  \/ ItemsGained(seen[i + 1]) > 0 /\ acts[i] \notin BulkActions \cup DiscardActions

\* How many of the steps in `class` came after the last paid step of `resets`.
Unpaid(acts, seen, class, resets) ==
  Cardinality({i \in DOMAIN acts :
    acts[i] \in class
    /\ \A j \in i..Len(acts) : acts[j] \in resets => ~AttemptPaid(acts, seen, j)})

Touching(t) == {a \in Actions : t \in Targets[a]}

\* exhausted_families
Exhausted(acts, seen) ==
  {t \in UNION {Targets[a] : a \in ToSet(acts)} :
     Unpaid(acts, seen, Touching(t), Touching(t)) >= FamilyStallThreshold}

\* _should_abort_branch_early
AbortsEarly(acts) ==
  LET seen == WorldsOf(acts)
      w == LastOf(seen)
      gained == Gain(w) > 0 \/ ItemsGained(w) > 0 \/ Exits(w) > 0 \/ Affordances(w) > 0
      quiet == Unpaid(acts, seen, Actions, Actions)
      moves == Unpaid(acts, seen, Movement, Movement)
      bulk == Unpaid(acts, seen, BulkActions, Actions)
      churn == PostGainChurn(acts, seen)
      home == Cluster[w] = Cluster[Root]
      recent == {Cluster[seen[i]] : i \in Max({1, Len(seen) - moves + 1})..Len(seen)}
  IN  \/ Total(acts, seen, LoopPenaltyAt) + Total(acts, seen, MovementPenaltyAt) >= FailFastPenalty
      \/ /\ Exhausted(acts, seen) # {}
         /\ \/ ~gained /\ quiet >= FamilyStallThreshold + 1
            \/ moves >= FailFastMoves /\ Cardinality(recent) <= 2
            \/ ~gained /\ bulk >= FailFastBulk
            \/ churn >= FailFastChurn /\ ItemsGained(w) > 0 /\ Gain(w) <= 0 /\ Exits(w) = 0
               /\ Affordances(w) = 0
            \/ Score[Root] > 0 /\ ~gained /\ quiet >= FailFastPostScore /\ (churn > 0 \/ home)
            \/ ~gained /\ home /\ moves >= FamilyStallThreshold

-----------------------------------------------------------------------------
(* The outcome of a branch. *)

\* The local model was used, on an object it knows.
MatchesKnown(acts, model) ==
  /\ ToSet(acts) \cap DOMAIN model.priors # {}
  /\ UNION {Targets[a] : a \in ToSet(acts)} \cap model.objects # {}

LocationSignal(w) ==
  w # Root /\ Observation[w] # Observation[Root] /\ Observation[w] \in Locations

\* _appears_stuck; the reward of a branch is its gain of score.
AppearsStuck(seen, penalties) ==
  /\ Gain(LastOf(seen)) = 0
  /\ \/ penalties > 0
     \/ /\ Words[LastOf(seen)] \subseteq Words[Root] /\ ~LocationSignal(LastOf(seen))
        /\ ToSet(seen) = {Root}

\* The events that the reflector reads.
EventAt(acts, seen, i) ==
  LET w == seen[i + 1]
      paid == ScoreGain(seen[i], w) > 0 \/ ItemsGained(w) > 0 \/ Affordances(w) > 0 \/ Exits(w) > 0
  IN  [action |-> acts[i], targets |-> Targets[acts[i]], paid |-> paid,
       low |-> ~paid \/ LoopPenaltyAt(acts, seen, i) + MovementPenaltyAt(acts, seen, i) > 0]

\* Where the branch went, for the progression of the root.
Continuation(acts, seen) ==
  LET after == IF acts = << >> THEN {Root} ELSE {seen[i + 1] : i \in DOMAIN acts}
  IN  [actions |-> acts, hashes |-> after, clusters |-> {Cluster[w] : w \in after},
       finalCluster |-> Cluster[LastOf(seen)],
       meaningful |-> LastMeaningful(acts, seen), firstGain |-> FirstGain(acts, seen)]

\* What the ranking reads of a branch.
Measures(acts, known, profile, bestKnown) ==
  LET seen == WorldsOf(acts)
      w == LastOf(seen)
      trace == Continuation(acts, seen)
      loops == [i \in DOMAIN acts |-> LoopPenaltyAt(acts, seen, i)]
      oscillation == Total(acts, seen, LoopPenaltyAt)
      movement == Total(acts, seen, MovementPenaltyAt)
  IN  [gain |-> Gain(w), items |-> ItemsGained(w), lost |-> ItemsLost(w),
       affordances |-> Affordances(w), exits |-> Exits(w),
       novel |-> Min({Cardinality(Words[w] \ Words[Root]), 4}), location |-> LocationSignal(w),
       textChanged |-> Observation[w] # Observation[Root],
       inventoryChanged |-> Inventory[w] # Inventory[Root],
       sameCluster |-> Cluster[w] = Cluster[Root],
       mostlyMovement |-> acts # << >> /\ 100 * CountIn(acts, Movement) >= MovementRatio * Len(acts),
       stuck |-> AppearsStuck(seen, oscillation + movement),
       exhausted |-> Cardinality(Exhausted(acts, seen)), known |-> known,
       bulk |-> CountIn(acts, BulkActions), discard |-> CountIn(acts, DiscardActions),
       aggressive |-> CountIn(acts, AggressiveActions), speculative |-> CountIn(acts, Speculative),
       churn |-> PostGainChurn(acts, seen),
       oscillation |-> oscillation, movement |-> movement,
       loopReduction |-> IF acts = << >> THEN 0 ELSE Max(ToSet(loops)) - LastOf(loops),
       noveltyBonus |-> NoveltyBonusOf(trace, profile), depthBonus |-> DepthBonusOf(trace, profile),
       replayPenalty |-> ReplayPenaltyOf(trace, profile), expansion |-> Expansion(trace, profile),
       reward |-> Gain(w), length |-> Len(acts), finalScore |-> Score[w], bestKnown |-> bestKnown]

\* What the reflector reads of it.
LessonBranch(b) ==
  LET seen == WorldsOf(b.actions)
  IN  [actions |-> b.actions, events |-> [i \in DOMAIN b.actions |-> EventAt(b.actions, seen, i)],
       progress |-> ProgressScore(b.measures), reward |-> b.measures.reward,
       gain |-> b.measures.gain, affordances |-> b.measures.affordances,
       firstGain |-> FirstGain(b.actions, seen), durable |-> LastDurable(b.actions, seen)]

\* _is_post_score_stale_branch: a branch whose restore failed counts as one that
\* gained nothing, and is not known to have ended anywhere.
StaleBranch(b) ==
  /\ Score[Root] > 0 /\ ~b.failed
  /\ LET m == b.measures
     IN  /\ m.gain <= 0 /\ m.items <= 0 /\ m.exits <= 0 /\ m.affordances <= 0
         /\ m.churn > 0 \/ m.sameCluster \/ b.aborted \/ m.stuck

SceneIsStale ==
  /\ Len(done) >= ScenePatience
  /\ \A i \in (Len(done) - ScenePatience + 1)..Len(done) : StaleBranch(done[i])

Comparable == {i \in DOMAIN done : ~done[i].failed}

\* max(comparable_branches, key=_branch_sort_key): the first of the best.
BestBranch ==
  LET keys == [i \in Comparable |-> SortKey(done[i].measures)]
  IN  CHOOSE i \in Comparable :
        \A j \in Comparable : /\ ~Precedes(keys[j], keys[i])
                              /\ j < i => Precedes(keys[i], keys[j])

BestIsAllowed == Comparable # {} /\ Gate(done[BestBranch].measures) = "cleared"

-----------------------------------------------------------------------------
(* The visits. *)

NoVisit == [model |-> None, profile |-> EmptyProfile, bestKnown |-> 0, replayable |-> FALSE]
NoFiles == [model |-> None, summary |-> None, bundle |-> None]

Init ==
  /\ phase = "idle" /\ visit = NoVisit /\ done = << >> /\ branch = << >>
  /\ update = None /\ files = NoFiles /\ visits = 0

\* What the visit already knew of the root.
FreshModel == EmptyModel(visit.profile)
KnownModel == IF visit.model = None THEN FreshModel ELSE visit.model[1]

\* The read at the start of explore_from_state.
StartVisit ==
  /\ phase = "idle" /\ visits < MaxVisits /\ files.model # Torn
  /\ \E best \in BestKnownScores, snapshot \in BOOLEAN :
       visit' = [model |-> files.model, bestKnown |-> best, replayable |-> snapshot,
                 profile |-> IF files.model = None THEN EmptyProfile ELSE files.model[1].profile]
  /\ phase' = "exploring" /\ visits' = visits + 1
  /\ UNCHANGED <<done, branch, update, files>>

\* json.loads raises on a torn model.json, which nothing catches.
ReadRaises ==
  /\ phase = "idle" /\ visits < MaxVisits /\ files.model = Torn
  /\ phase' = "died"
  /\ UNCHANGED <<visit, done, branch, update, files, visits>>

\* Without a snapshot to restore, one branch is all there is.
BranchLimit == IF visit.replayable THEN BranchCount ELSE 1
MoreBranches == Len(done) < BranchLimit /\ ~SceneIsStale

Finished(b) == done' = Append(done, b) /\ branch' = << >>

Outcome(acts, known) ==
  [failed |-> FALSE, actions |-> acts, aborted |-> AbortsEarly(acts),
   measures |-> Measures(acts, known, visit.profile, visit.bestKnown)]

\* The outcome is recorded without having played anything.
BranchRestoreFails ==
  /\ phase = "exploring" /\ MoreBranches /\ branch = << >> /\ visit.replayable
  /\ Finished([Outcome(<< >>, FALSE) EXCEPT !.failed = TRUE])
  /\ UNCHANGED <<phase, visit, update, files, visits>>

\* The generator may be denied the guidance of the model, which then goes unmatched.
KnownOutcomes(acts) ==
  {FALSE} \cup (IF MatchesKnown(acts, KnownModel) THEN {TRUE} ELSE {})

EndsLate(acts) ==
  AbortsEarly(acts) \/ Terminal[LastOf(WorldsOf(acts))] \/ Len(acts) > BranchHorizon

EndsWith(acts) ==
  \/ AbortsEarly(acts)
  \/ Terminal[LastOf(WorldsOf(acts))]
  \/ Len(acts) = BranchHorizon

\* One pass of the loop of _run_branch.
BranchStep(a) ==
  /\ phase = "exploring" /\ MoreBranches
  /\ a \in Proposals[LastOf(WorldsOf(branch))]
  /\ LET acts == Append(branch, a)
     IN  IF EndsWith(acts)
         THEN \E known \in KnownOutcomes(acts) :
                Finished(Outcome(acts, known))
         ELSE branch' = acts /\ UNCHANGED done
  /\ UNCHANGED <<phase, visit, update, files, visits>>

\* The generator proposes nothing.
BranchWithoutActions ==
  /\ phase = "exploring" /\ MoreBranches
  /\ Proposals[LastOf(WorldsOf(branch))] = {}
  /\ \E known \in KnownOutcomes(branch) :
       Finished(Outcome(branch, known))
  /\ UNCHANGED <<phase, visit, update, files, visits>>

\* The profile after the visit.
ProfileAfter ==
  IF Comparable = {} THEN visit.profile
  ELSE UpdatedProfile(visit.profile,
         Continuation(done[BestBranch].actions, WorldsOf(done[BestBranch].actions)), BestIsAllowed)

LessonsOfVisit ==
  Lessons([i \in DOMAIN done |-> LessonBranch(done[i])], Answers)

\* The end of explore_from_state, up to the files.
FinishExploration ==
  /\ phase = "exploring" /\ ~MoreBranches
  /\ \E lesson \in LessonsOfVisit :
       update' = <<[Learned(KnownModel, lesson) EXCEPT !.profile = ProfileAfter]>>
  /\ phase' = "bundle" /\ visit' = NoVisit /\ done' = << >>
  /\ UNCHANGED <<branch, files, visits>>

\* write_mar_result: the directory of the update, then the three files that hold the
\* model, one write_text after the other.  The runner adds what the revisit came to,
\* and writes the model and its summary once more.
NextFile == [bundle |-> "model", model |-> "summary", summary |-> "copy", copy |-> "decay",
             decay |-> "decaySummary", decaySummary |-> "idle"]

WritesModel == {"model", "decay"}
WritesSummary == {"summary", "decaySummary"}

CopyBeforeModel(file) ==
  CASE file = "bundle" -> [files EXCEPT !.bundle = None]
    [] file = "model" -> [files EXCEPT !.bundle = update]
    [] file \in {"copy", "decay"} -> [files EXCEPT !.model = update]
    [] file \in WritesSummary -> [files EXCEPT !.summary = <<update[1].profile>>]

FilesAfter(file) ==
  CASE file = "bundle" -> [files EXCEPT !.bundle = None]
    [] file \in WritesModel -> [files EXCEPT !.model = update]
    [] file \in WritesSummary -> [files EXCEPT !.summary = <<update[1].profile>>]
    [] file = "copy" -> [files EXCEPT !.bundle = update]

WriteFile ==
  /\ phase \in DOMAIN NextFile
  /\ files' = FilesAfter(phase)
  /\ phase' = NextFile[phase]
  /\ update' = IF phase' = "idle" THEN None ELSE update
  /\ UNCHANGED <<visit, done, branch, visits>>

\* The process dies, or a call raises: the emulator on a step, the reflector on an
\* answer it cannot convert.  The file under the pen may be left torn.
TornFiles ==
  CASE phase \in WritesModel -> {files, [files EXCEPT !.model = Torn]}
    [] phase \in WritesSummary -> {files, [files EXCEPT !.summary = Torn]}
    [] phase = "copy" -> {files, [files EXCEPT !.bundle = Torn]}
    [] OTHER -> {files}

Crash ==
  /\ phase \notin {"idle", "died"}
  /\ files' \in TornFiles
  /\ phase' = "idle" /\ visit' = NoVisit /\ done' = << >> /\ branch' = << >> /\ update' = None
  /\ UNCHANGED visits

Next ==
  \/ StartVisit \/ ReadRaises
  \/ BranchRestoreFails \/ BranchWithoutActions
  \/ \E a \in Actions : BranchStep(a)
  \/ FinishExploration \/ WriteFile \/ Crash

Spec == Init /\ [][Next]_vars

-----------------------------------------------------------------------------
(* Properties. *)

\* Types of the variables that are not records of other modules.
TypeOK ==
  /\ phase \in {"idle", "exploring", "died"} \cup DOMAIN NextFile
  /\ visits \in 0..MaxVisits /\ visit.replayable \in BOOLEAN
  /\ branch \in Seq(Actions) /\ Len(branch) < BranchHorizon
  /\ Len(done) <= BranchLimit
  /\ \A i \in DOMAIN done : done[i].actions \in Seq(Actions) /\ Len(done[i].actions) <= BranchHorizon
  /\ (update = None) = (phase \notin DOMAIN NextFile)

\* What passes the threshold of the commit gate is refused for one reason only,
\* being stuck: the other refusals of _branch_clears_commit_gate repeat
\* conditions that have already left the branch without progress.
GateRefusesOnlyTheStuck ==
  \A i \in Comparable :
    ProgressScore(done[i].measures) > CommitThreshold
      => Gate(done[i].measures) \in {"cleared", "stuck"}

ProfilesHeld ==
  {visit.profile} \cup (IF Holds(files.model) THEN {files.model[1].profile} ELSE {})

SumOfCounts(counts) == FoldSet(LAMBDA p, sum : sum + counts[p], 0, DOMAIN counts)

\* The counters of a root agree with each other and with its history through all
\* the visits: every commit is a distinct or a repeated one, is counted under one
\* prefix, and is the newest of the history; the first is distinct.
ProgressionAddsUp ==
  \A p \in ProfilesHeld :
    /\ p.commits = p.distinct + p.repeated
    /\ SumOfCounts(p.counts) = p.commits
    /\ Len(p.history) = Min({p.commits, HistoryLimit})
    /\ p.commits > 0 => p.distinct > 0
    /\ p.repeated >= Cardinality({i \in DOMAIN p.history : ~p.history[i].distinct})

\* A continuation that the history already holds never counts as a new one when it
\* is committed again (materially_distinct_from_history).
NoRepeatCountsAsNew ==
  \A p \in ProfilesHeld : \A i, j \in DOMAIN p.history :
    i < j /\ p.history[i].actions = p.history[j].actions => ~p.history[j].distinct

\* The order of the writes: whatever a crash leaves behind, neither the summary
\* nor the copy in the last update tells of a commit or a hint that a readable
\* model.json does not have (LocalWorldModelStore.write_mar_result).
NothingAheadOfTheModel ==
  Holds(files.model) =>
    /\ Holds(files.summary) => files.summary[1].commits <= files.model[1].profile.commits
    /\ Holds(files.bundle) => /\ files.bundle[1].hints \subseteq files.model[1].hints
                              /\ files.bundle[1].profile.commits <= files.model[1].profile.commits

SupportGrows(old, new) == \A a \in DOMAIN old : a \in DOMAIN new /\ old[a] <= new[a]

\* While model.json can be read, what it knows is never forgotten: hints, objects
\* and subgoals stay, and support only grows (update_local_world_model).
KnowledgeSurvives ==
  [][Holds(files.model) /\ Holds(files'.model) =>
       LET old == files.model[1] new == files'.model[1]
       IN  /\ old.hints \subseteq new.hints /\ old.objects \subseteq new.objects
           /\ old.subgoals \subseteq new.subgoals
           /\ SupportGrows(old.priors, new.priors) /\ SupportGrows(old.antipriors, new.antipriors)
           /\ old.profile.commits <= new.profile.commits]_vars

-----------------------------------------------------------------------------
(* What the runner makes of the best branch. *)

\* _branch_commit_actions of the episode runner
CommitLength(acts, seen) ==
  IF LastDurable(acts, seen) > 0 THEN LastDurable(acts, seen)
  ELSE IF LastMeaningful(acts, seen) > 0 THEN LastMeaningful(acts, seen)
  ELSE IF FirstGain(acts, seen) > 0 THEN FirstGain(acts, seen) ELSE Min({Len(acts), CommitSteps})

\* "The baseline behavior used a fixed prefix length, which can truncate the actual
\* gain event from an otherwise strong branch. We now commit through the last
\* meaningful progress action" (episode_runner.py, _branch_commit_actions): the plan
\* of an admitted branch that ends with a gain of its own reaches that gain.
CommitKeepsTheGain ==
  BestIsAllowed =>
    LET acts == done[BestBranch].actions
        seen == WorldsOf(acts)
        kept == seen[CommitLength(acts, seen) + 1]
        end == LastOf(seen)
    IN  (Gain(end) > 0 \/ ItemsGained(end) > 0) => (Gain(kept) > 0 \/ ItemsGained(kept) > 0)
=============================================================================
