------------------------------ MODULE SavedNodes ------------------------------
(***************************************************************************)
(* env/replay.py over JerichoEnv: a saved node is restored by its native   *)
(* snapshot first, and by a reset and the replay of its actions second.    *)
(*                                                                         *)
(* A saved node is a record [native, prefix, stepIndex, observation,       *)
(* inventory, score], to which the model adds two history fields: world,   *)
(* the machine state it was saved in, and start, the reset it was played   *)
(* from.  A restore is an operator from a wrapper and a node to the set of *)
(* its outcomes [env, result], one per reset an unseeded backend may make. *)
(***************************************************************************)
EXTENDS JerichoEnv

NoResult == [success |-> FALSE, mode |-> "NONE"]

\* A step that ReplaySession recorded, and one that only its action is known of.
Recorded(w, a) == [action |-> a, checked |-> TRUE, view |-> View(Move[<<w, a>>])]
Unrecorded(a) == [action |-> a, checked |-> FALSE, view |-> NoResult]

\* The trajectory steps that lead to the node, as they were recorded.
RecordedSteps(node) ==
  [i \in 1..Len(node.prefix) |->
     Recorded(Play(node.start, SubSeq(node.prefix, 1, i - 1)), node.prefix[i])]
UnrecordedSteps(node) == [i \in 1..Len(node.prefix) |-> Unrecorded(node.prefix[i])]

ReplayStepComparingTooEarly(acc, step) ==
  IF acc.reason # "NONE" THEN acc
  ELSE IF <<acc.env.world, step.action>> \in Raises
  THEN [acc EXCEPT !.reason = "STEP_EXCEPTION"]
  ELSE [env |-> EnvStep(acc.env, step.action),
        reason |-> IF step.checked THEN DivergenceReason(acc.env, step.view) ELSE "NONE",
        count |-> acc.count + 1]

\* One iteration of either replay loop; the first failure ends the loop.
ReplayStep(acc, step) ==
  IF acc.reason # "NONE" THEN acc
  ELSE IF <<acc.env.world, step.action>> \in Raises
  THEN [acc EXCEPT !.reason = "STEP_EXCEPTION"]
  ELSE LET stepped == EnvStep(acc.env, step.action)
       IN  IF step.checked
           THEN [env |-> Capture(stepped, step.view.observation),
                 reason |-> DivergenceReason(stepped, step.view),
                 count |-> acc.count + 1]
           ELSE [env |-> stepped, reason |-> "NONE", count |-> acc.count + 1]

\* The replay of `steps` from a reset that produced w.
Replayed(w, steps) ==
  FoldLeft(ReplayStep, [env |-> EnvReset(w), reason |-> "NONE", count |-> 0], steps)

Outcome(e, node, mode, reason, count) ==
  [env |-> e,
   result |-> [success |-> mode # "FAILED", mode |-> mode, reason |-> reason, count |-> count,
               node |-> node, from |-> IF mode = "NATIVE_SNAPSHOT" THEN node.start ELSE e.start]]

ReplayTrustingTheSteps(w, node, steps) ==
  LET replayed == Replayed(w, steps)
      mode == IF replayed.reason = "NONE" THEN "ACTION_REPLAY_FALLBACK" ELSE "FAILED"
  IN  Outcome(Capture(replayed.env, node.observation), node, mode, replayed.reason, replayed.count)

\* _restore_by_action_replay after a reset that produced w.
ReplayOutcome(w, node, steps) ==
  LET replayed == Replayed(w, steps)
      reason == DivergenceReason(replayed.env, node)
      mode == IF reason # "NONE" THEN "FAILED"
              ELSE IF node.prefix = << >> THEN "RESET_ONLY" ELSE "ACTION_REPLAY_FALLBACK"
  IN  IF replayed.reason # "NONE"
      THEN Outcome(replayed.env, node, "FAILED", replayed.reason, replayed.count)
      ELSE Outcome(Capture(replayed.env, node.observation), node, mode, reason, replayed.count)

\* restore_saved_node.  The native snapshot is kept when it validates; when there
\* is none, when it does not, or when set_state() raises, the node is replayed
\* from a reset, which is given no seed.
RestoreOutcomes(e, node, steps) ==
  LET native == SetNative(e, node)
      usable == /\ NativeSnapshots /\ node.native # NoNative
                /\ DivergenceReason(native, node) = "NONE"
  IN  {ReplayOutcome(w, node, steps) : w \in Starts}
      \cup (IF usable
            THEN {Outcome(Capture(native, node.observation), node, "NATIVE_SNAPSHOT", "NONE", 0)}
            ELSE {})

\* restore_snapshot of the wrapper: no result is reported, and what the replay
\* reaches is not compared with the snapshot.
SnapshotOutcomes(e, node) ==
  LET native == SetNative(e, node)
      usable == /\ NativeSnapshots /\ node.native # NoNative
                /\ DivergenceReason(native, node) = "NONE"
      replays == {Replayed(w, UnrecordedSteps(node)) : w \in Starts}
  IN  {r.env : r \in {x \in replays : x.reason = "NONE"}}
      \cup (IF usable THEN {Capture(native, node.observation)} ELSE {})

-----------------------------------------------------------------------------
\* The node for the state a wrapper has just seen.
NodeAt(e, native, stepIndex) ==
  [native |-> native, prefix |-> e.history, stepIndex |-> stepIndex,
   observation |-> e.last.observation, inventory |-> e.last.inventory, score |-> e.last.score,
   world |-> e.world, start |-> e.start]
=============================================================================
