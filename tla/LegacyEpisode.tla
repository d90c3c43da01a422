----------------------------- MODULE LegacyEpisode -----------------------------
(***************************************************************************)
(* experiment/episode_runner.py, _run_legacy_episode: the loop that plays  *)
(* one real step per iteration and now and then, before the step, goes     *)
(* back to a state of its frontier to plan.  Planning drives the same      *)
(* environment the episode is played in.                                   *)
(*                                                                         *)
(* What the selector prefers, what the explorer finds and what the action  *)
(* generator proposes are open choices.                                    *)
(***************************************************************************)
EXTENDS MapMemory, SavedNodes

CONSTANTS
  MaxSteps, MaxReplayAttempts, RefreshCadence, ExplorationCadence, PostGainCooldown,
  BranchCommitSteps, FailFastNoDurable, FailFastMovement,   \* config.experiment
  RolloutDepth, SelectorTopK,                               \* config.policy
  Toggles                    \* actions of a verb that makes a toggle family

ASSUME LegacyEpisodeAssumption ==
  /\ {MaxSteps, MaxReplayAttempts, PostGainCooldown} \subseteq Nat
  /\ {RefreshCadence, ExplorationCadence, BranchCommitSteps, FailFastNoDurable, FailFastMovement,
      RolloutDepth, SelectorTopK} \subseteq Nat \ {0}
  /\ Toggles \subseteq Actions

VARIABLES
  phase,      \* "loop", "act" once planning is done, "over", "died" of an exception
  env,        \* the JerichoEnv
  snapshot,   \* current_state.world_state_snapshot
  views,      \* episode_state_history, the worlds behind the states seen
  acts,       \* episode_action_history
  pending,    \* pending_branch_actions
  attempts,   \* replay_attempt_count
  cooldown,   \* local_exploration_cooldown_steps
  stall,      \* [quiet, moves, clusters]: the fail-fast counters
  known,      \* seen_world_hashes (their observations are the seen signatures)
  history,    \* action_cluster_history
  map,        \* episode_map_memory
  queue,      \* self.frontier
  lost        \* history variable: a restore has failed or was not native

progress == <<views, acts, snapshot, cooldown, stall, known, history, map>>
vars == <<phase, env, pending, attempts, queue, lost, progress>>

Current == Last(views)

-----------------------------------------------------------------------------
(* Recording a state in the frontier. *)

\* derive_state_family_key
FamilyOf(w) ==
  LET toggled == UNION {Targets[a] : a \in Valid[w] \cap Toggles}
  IN  IF toggled # {} THEN <<"toggle", toggled>> ELSE <<"state", Nouns[w]>>

\* What the runner measured of the step that led to a state.
Unmeasured == [gain |-> 0, loop |-> 0, movement |-> 0, affordances |-> 0, room |-> 0,
               noProgress |-> FALSE, region |-> 25]

Measured(a, w) ==
  LET v == Current
      actions == Append(acts, a)
      visits == RecordStateCluster(history, w).visits[Cluster[w]]
      seenBefore == <<Cluster[w], Observation[w]>> \in history.texts
  IN  [gain |-> ScoreGain(v, w), affordances |-> AffordanceGain(v, w),
       loop |-> LoopPenalty(actions, views, w), noProgress |-> LoopNoProgress(actions, views, w),
       movement |-> MovementPenalty(actions, v, w, visits), room |-> RoomTextOnlyGain(v, w),
       region |-> RegionNovelty(a, v, w, visits, seenBefore)]

\* _estimate_novelty: before its scales, and after them.
BaseNovelty(w, m) ==
  (IF w \notin known THEN 100 ELSE 0)
  + (IF \A k \in known : Observation[k] # Observation[w] THEN 25 ELSE 0)
  + Min({100 * Max({m.gain, 0}), 200}) + Min({35 * m.affordances, 100})

Novelty(w, m) ==
  LET scaled == (BaseNovelty(w, m) * Max({m.region, 5})) \div 100
      idle == m.gain <= 0 /\ m.affordances = 0
      roomOnly == IF m.room > 0 /\ idle THEN scaled \div 5 ELSE scaled
  IN  IF m.movement > 0 /\ idle THEN roomOnly \div 5 ELSE roomOnly

EntryFor(w, m, node, strategic) ==
  [id |-> <<node.stepIndex, w>>, hash |-> w, text |-> SummaryOf(w, node.stepIndex + 1, m.gain),
   family |-> FamilyOf(w), cluster |-> Cluster[w], toggle |-> FamilyOf(w)[1] = "toggle",
   trivial |-> m.noProgress \/ (m.movement > 0 /\ m.affordances = 0 /\ m.gain <= 0),
   oscillating |-> m.loop + m.movement > 0,
   novelty |-> ((Novelty(w, m) * Max({m.region, 5})) \div 100)
               \div (IF m.room > 0 /\ m.affordances = 0 /\ m.gain <= 0 THEN 4 ELSE 1),
   merit |-> 100 * Score[w] + 50 * m.gain + strategic - 15 * (node.stepIndex + 1)
             - m.loop - m.movement - (75 * m.room) \div 100,
   priority |-> 0, depth |-> node.stepIndex + 1, node |-> node]

NativeOf(e) == IF NativeSnapshots THEN e.world ELSE NoNative

\* _record_frontier_state: what is nothing new and gained nothing is left out.
RecordFrontierState(q, w, m, node, strategic) ==
  IF BaseNovelty(w, m) = 0 /\ m.gain <= 0 THEN q
  ELSE Add(q, EntryFor(w, m, node, strategic))

\* The start of the episode: its state is known before it is recorded, which is
\* forced, so that its entry has no novelty.
Init ==
  LET start == EnvReset(SeededStart)
      node == NodeAt(start, NativeOf(start), 0)
  IN  /\ phase = "loop" /\ env = start /\ snapshot = node
      /\ views = <<SeededStart>> /\ acts = << >> /\ pending = << >>
      /\ attempts = 0 /\ cooldown = 0 /\ stall = [quiet |-> 0, moves |-> 0, clusters |-> << >>]
      /\ known = {SeededStart} /\ lost = FALSE
      /\ history = RecordStateCluster(EmptyClusterHistory, SeededStart)
      /\ map = RecordState(EmptyMap, SeededStart)
      /\ queue = Add(EmptyQueue, EntryFor(SeededStart, Unmeasured, node,
                                          StrategicScore(map, Cluster[SeededStart])))

-----------------------------------------------------------------------------
(* Planning. *)

\* _apply_stall_recovery_guidance_override
RecoveredFrom(guidance) ==
  LET exits == Valid[Current] \cap Movement
  IN  IF stall.quiet >= Max({4, FailFastNoDurable \div 2}) /\ exits # {}
      THEN Guidance("explore", Cluster[Current], exits) ELSE guidance

CurrentGuidance ==
  RecoveredFrom(RecommendGuidance(map, Current, SubSeq(queue.entries, 1, Min({6, Len(queue.entries)}))))

Continues == Len(acts) < MaxSteps /\ ~Terminal[Current]

PlanWhileCoolingDown(guidance) ==
  /\ pending = << >> /\ attempts < MaxReplayAttempts /\ acts # << >> /\ queue.entries # << >>
  /\ guidance.mode = "explore" => guidance.routes = {}
  /\ \/ guidance.mode = "exploit" /\ guidance.preferred # Cluster[Current]
     \/ Len(acts) % ExplorationCadence = 0

\* _should_run_local_exploration, when no plan is pending
PlanningIsDue(guidance) == PlanWhileCoolingDown(guidance) /\ cooldown = 0

\* _apply_strategic_selection_override
Overridden(selected, guidance) ==
  LET near == {i \in 1..Min({8, Len(queue.entries)}) :
                 queue.entries[i].cluster = guidance.preferred}
  IN  IF guidance.mode = "exploit" /\ near # {} THEN queue.entries[Min(near)] ELSE selected

Selections(guidance) == {Overridden(e, guidance) : e \in TopEntries(queue, SelectorTopK)}

\* _validate_branch_commit_origin
OriginIsLocal(selected) ==
  /\ selected.cluster = Cluster[Current]
  /\ Score[selected.hash] >= Score[Current]
  /\ Inventory[selected.hash] # Inventory[Current] => Score[selected.hash] > Score[Current]

\* The action sequences a branch may play.
Branches == UNION {[1..n -> Actions] : n \in 1..RolloutDepth}

\* _branch_commit_actions: through the last action that progressed, 0 for none.
Committed(branch, progressed) ==
  SubSeq(branch, 1, IF progressed > 0 THEN progressed ELSE Min({Len(branch), BranchCommitSteps}))

\* What the best branch leads to: the plan that is kept, if its branch is allowed
\* and starts near enough, and whether it progressed.
PlansFrom(selected) ==
  {[plan |-> << >>, progressed |-> p] : p \in BOOLEAN}
  \cup (IF ~OriginIsLocal(selected) THEN {}
        ELSE {[plan |-> p, progressed |-> TRUE] :
                p \in UNION {{Committed(b, i) : i \in 0..Len(b)} : b \in Branches}})

StayWherePlanningEnded(e) == {e}

\* _restore_episode_state: the snapshot of the state last seen, natively or, as
\* set_state() may fail, by a reset without a seed and the actions of the episode.
RestoredEpisode(e) == SnapshotOutcomes(e, snapshot)

SnapshotRaises ==
  \E w \in Starts : FoldLeft(ReplayStep, [env |-> EnvReset(w), reason |-> "NONE", count |-> 0],
                             UnrecordedSteps(snapshot)).reason # "NONE"

\* A revisit whose restore succeeds: explore, return to the episode, keep a plan.
PlanFromRestored(selected, outcome) ==
  /\ outcome.result.success
  /\ \E e \in RestoredEpisode(outcome.env), p \in PlansFrom(selected) :
       /\ env' = e
       /\ pending' = p.plan
       /\ queue' = NoteRevisit(queue, selected, p.progressed)
       /\ lost' = (lost \/ e.start # snapshot.start)

\* A revisit whose restore fails: the environment stays where the replay ended.
GiveUpPlanning(selected, outcome) ==
  /\ ~outcome.result.success
  /\ env' = outcome.env
  /\ queue' = NoteRevisit(queue, selected, FALSE)
  /\ lost' = TRUE
  /\ UNCHANGED pending

Plan ==
  /\ phase = "loop" /\ Continues /\ PlanningIsDue(CurrentGuidance)
  /\ attempts' = attempts + 1
  /\ phase' = "act"
  /\ \E selected \in Selections(CurrentGuidance) :
       \E outcome \in RestoreOutcomes(env, selected.node, UnrecordedSteps(selected.node)) :
         PlanFromRestored(selected, outcome) \/ GiveUpPlanning(selected, outcome)
  /\ UNCHANGED progress

\* The way back to the episode may raise, which nothing catches.
PlanningRaises ==
  /\ phase = "loop" /\ Continues /\ PlanningIsDue(CurrentGuidance) /\ SnapshotRaises
  /\ \E selected \in Selections(CurrentGuidance) :
       \E outcome \in RestoreOutcomes(env, selected.node, UnrecordedSteps(selected.node)) :
         outcome.result.success
  /\ phase' = "died"
  /\ UNCHANGED <<env, pending, attempts, queue, lost, progress>>

-----------------------------------------------------------------------------
(* The real step. *)

\* The proposals of the generator, or the head of the plan.
ActionChoices == IF pending = << >> THEN Actions ELSE {Head(pending)}

MayStep == phase = "loop" => Continues /\ ~PlanningIsDue(CurrentGuidance)

\* _should_refresh_frontier
RefreshIsDue(v, w) ==
  \/ (Len(acts) + 1) % RefreshCadence = 0
  \/ Score[w] # Score[v] \/ Terminal[w] \/ w # v

\* The steps left without planning.
Cooled(gain) == IF gain > 0 THEN Max({cooldown, PostGainCooldown}) ELSE Max({cooldown - 1, 0})

\* The rest of a plan is given up after a step that wore out an object for nothing.
RestOfPlan(a, w, m) ==
  LET v == Current
      wornOut == /\ ExhaustedFamilies(RecordAttempt(history, a, v, w)) # {}
                 /\ m.gain <= 0 /\ ~InventoryGained(v, w) /\ m.affordances = 0
                 /\ m.loop + m.movement > 0
  IN  IF pending = << >> \/ wornOut THEN << >> ELSE Tail(pending)

StalledKeepingMoves(a, w) ==
  IF DurableProgress(a, Current, w) THEN [stall EXCEPT !.quiet = 0]
  ELSE [quiet |-> stall.quiet + 1,
        moves |-> IF a \in Movement THEN stall.moves + 1 ELSE 0,
        clusters |-> IF a \in Movement THEN Append(stall.clusters, Cluster[w]) ELSE << >>]

\* _update_episode_fail_fast_state: the counters.
Stalled(a, w) ==
  IF DurableProgress(a, Current, w) THEN [quiet |-> 0, moves |-> 0, clusters |-> << >>]
  ELSE [quiet |-> stall.quiet + 1,
        moves |-> IF a \in Movement THEN stall.moves + 1 ELSE 0,
        clusters |-> IF a \in Movement THEN Append(stall.clusters, Cluster[w]) ELSE << >>]

FailsFastAStepLate(s) == s.quiet > FailFastNoDurable

\* _update_episode_fail_fast_state: the reasons to end the episode.
FailsFast(s) ==
  \/ s.quiet >= FailFastNoDurable
  \/ s.moves >= FailFastMovement /\ Cardinality(ToSet(s.clusters)) <= 2

\* One step of the environment and everything the loop records of it.
TakeStep(a) ==
  LET next == EnvStep(env, a)
      v == Current
      w == next.world
      m == Measured(a, w)
      node == NodeAt(next, NativeOf(next), next.stepIndex)
      moved == RecordTransition(map, a, v, w)
      refreshed == RefreshIsDue(v, w)
      recorded == refreshed /\ ~(BaseNovelty(w, m) = 0 /\ m.gain <= 0)
  IN  /\ phase \in {"loop", "act"} /\ MayStep
      /\ <<env.world, a>> \notin Raises
      /\ env' = next
      /\ snapshot' = node
      /\ views' = Append(views, w) /\ acts' = Append(acts, a)
      /\ pending' = RestOfPlan(a, w, m)
      /\ cooldown' = Cooled(m.gain)
      /\ history' = RecordAttempt(RecordStateCluster(history, w), a, v, w)
      /\ map' = RecordState(moved, w)
      /\ queue' = IF refreshed
                  THEN RecordFrontierState(queue, w, m, node,
                            StrategicScore(RecordState(moved, w), Cluster[w]))
                  ELSE queue
      /\ known' = IF recorded THEN known \cup {w} ELSE known
      /\ stall' = Stalled(a, w)
      /\ phase' = IF FailsFast(Stalled(a, w)) THEN "over" ELSE "loop"
      /\ UNCHANGED <<attempts, lost>>

\* A step on which the backend raises: the environment is closed, and neither the
\* trajectory nor the summary is written.
StepRaises(a) ==
  /\ phase \in {"loop", "act"} /\ MayStep
  /\ <<env.world, a>> \in Raises
  /\ phase' = "died"
  /\ UNCHANGED <<env, pending, attempts, queue, lost, progress>>

\* The head of the loop fails: close, reflect, write the trajectory and the summary.
End ==
  /\ phase = "loop" /\ ~Continues
  /\ phase' = "over"
  /\ UNCHANGED <<env, pending, attempts, queue, lost, progress>>

Next ==
  \/ Plan \/ PlanningRaises
  \/ \E a \in ActionChoices : TakeStep(a)
  \/ \E a \in ActionChoices : StepRaises(a)
  \/ End

Spec == Init /\ [][Next]_vars

-----------------------------------------------------------------------------
(* Properties. *)

\* Types of the variables that are not opaque records of another module.
TypeOK ==
  /\ phase \in {"loop", "act", "over", "died"}
  /\ env.world \in Worlds /\ env.history \in Seq(Actions) /\ env.stepIndex \in Nat
  /\ views \in Seq(Worlds) /\ acts \in Seq(Actions) /\ Len(views) = Len(acts) + 1
  /\ pending \in Seq(Actions) /\ Len(pending) <= RolloutDepth
  /\ attempts \in 0..MaxReplayAttempts /\ cooldown \in 0..PostGainCooldown
  /\ stall.quiet \in 0..MaxSteps /\ stall.moves <= stall.quiet
  /\ known \subseteq Worlds /\ lost \in BOOLEAN
  /\ Len(queue.entries) \in 1..FrontierMaxSize

\* Unless a restore failed, or put the episode back by a replay from another
\* random start, the recorded episode is one normal playthrough: planning, which
\* drives the same environment, leaves no trace in it (_restore_episode_state,
\* _validate_branch_commit_origin).
OnePlaythrough ==
  ~lost => /\ env.world = Current \/ phase = "died"
           /\ views[1] = SeededStart
           /\ \A i \in DOMAIN acts : views[i + 1] = Move[<<views[i], acts[i]>>]

\* The step index of the wrapper runs ahead of the actions that explain its state
\* by the restores made so far and no more, and so does that of every node kept
\* in the frontier: identities and depths drift by at most that much
\* (set_native_state counts from the index of the snapshot).
DriftCountsPlanning ==
  /\ env.stepIndex - Len(env.history) \in 0..attempts
  /\ \A e \in ToSet(queue.entries) : e.node.stepIndex - Len(e.node.prefix) \in 0..attempts

\* Steps at the end of the episode that all satisfy P.
LastRun(P(_)) ==
  Max({k \in 0..Len(acts) : \A i \in (Len(acts) - k + 1)..Len(acts) : P(i)})
QuietStep(i) == ~DurableProgress(acts[i], views[i], views[i + 1])
QuietMove(i) == QuietStep(i) /\ acts[i] \in Movement

\* An episode that goes on has made durable progress lately, and has not wandered
\* between two regions for long: the fail-fast counters miss no stalled run of
\* steps, whatever planning happened in between (_update_episode_fail_fast_state).
NeverStallsUnnoticed ==
  phase \in {"loop", "act"} =>
    /\ LastRun(QuietStep) < FailFastNoDurable
    /\ LastRun(QuietMove) >= FailFastMovement =>
         Cardinality({Cluster[views[i + 1]] : i \in (Len(acts) - LastRun(QuietMove) + 1)..Len(acts)}) > 2

\* No revisit begins in the PostGainCooldown steps after a step that scored
\* (local_exploration_cooldown_steps).
QuietAfterGain ==
  [][attempts' # attempts =>
       \A i \in DOMAIN acts : i > Len(acts) - PostGainCooldown => Score[views[i + 1]] <= Score[views[i]]]_vars

\* Two states whose summaries can be similar: they are when their depths and gains
\* are equal.  Two whose summaries always are: even when both differ.
MayLookAlike(v, w) == Similar(SummaryOf(v, 0, 0), SummaryOf(w, 0, 0))
AlwaysLookAlike(v, w) == v = w \/ Similar(SummaryOf(v, 0, 0), SummaryOf(w, 1, 1))

\* The sets of states that nothing outside of them can look like.  Within one,
\* similarity is what it is: the ends of a chain need not be alike.
Kinds == {C \in SUBSET Worlds : \A v \in C, w \in Worlds \ C : ~MayLookAlike(v, w)}

\* As long as the frontier has room, something is kept of every kind of state that
\* was recorded: an entry may be replaced by one that is like it, and that by one
\* that is no longer like the first, in whatever order they come, but nothing of a
\* kind is lost to another kind, or to a refresh (FrontierQueue.add).
NothingLostWhileRoom ==
  Len(queue.entries) < FrontierMaxSize =>
    \A C \in Kinds : C \cap known # {} => \E e \in ToSet(queue.entries) : e.hash \in C

\* Of a kind whose states always look alike, one state that is like no other for
\* one, the frontier keeps at most one entry, at whatever depth and with whatever
\* gain it is recorded again, and whatever else stands before it in the search for
\* a duplicate, which stops at the first (_find_duplicate_index).
DistinctEntries ==
  \A C \in Kinds : (\A v \in C, w \in C : AlwaysLookAlike(v, w)) =>
    \A i, j \in DOMAIN queue.entries :
      queue.entries[i].hash \in C /\ queue.entries[j].hash \in C => i = j

\* An exit the map holds for resolved was walked through in this episode: the
\* region changed when it was tried from there (record_transition).
ResolvedExitWasTraversed ==
  \A o \in DOMAIN map.opps :
    o[1] = "exit" /\ map.opps[o].resolved =>
      \E i \in DOMAIN acts : /\ acts[i] = o[3] /\ Cluster[views[i]] = o[2]
                             /\ Cluster[views[i + 1]] # o[2]

\* The no-progress count of an object is the number of attempts on it since the
\* last one that paid, so that a family is worn out for want of gains and for
\* nothing else (record_attempt, exhausted_families).
ExhaustionIsEarned ==
  \A t \in DOMAIN history.stalls :
    LET tried == {i \in DOMAIN acts : t \in Targets[acts[i]]}
        paid == {i \in tried : AttemptPaid(acts[i], views[i], views[i + 1])}
    IN  history.stalls[t] = Cardinality({i \in tried : \A j \in paid : j < i})
=============================================================================
