-------------------------------- MODULE Replay --------------------------------
(***************************************************************************)
(* A program that drives one JerichoEnv: it steps, saves nodes, and        *)
(* restores them in any order.  The components that restore nodes (the     *)
(* episode loops, the local explorer) are all of this shape.               *)
(***************************************************************************)
EXTENDS SavedNodes, FiniteSets

CONSTANTS
  MaxHistory,   \* model bound on the actions since a reset
  MaxNodes      \* model bound on the saved nodes

ASSUME BoundsAssumption == MaxHistory \in Nat /\ MaxNodes \in Nat

VARIABLES
  env,      \* the JerichoEnv
  nodes,    \* saved nodes
  result    \* the last ReplayResult, or NoResult

vars == <<env, nodes, result>>

-----------------------------------------------------------------------------
(* The operations a program performs on the wrapper. *)

Init ==
  /\ env = EnvReset(SeededStart)
  /\ nodes = {}
  /\ result = NoResult

\* env.reset(seed=...) at the start of an episode.
Reset ==
  /\ env' = EnvReset(SeededStart)
  /\ UNCHANGED <<nodes, result>>

\* env.step, which has no guard: the explorer steps from whatever state it is
\* given, a final one included.
Step(a) ==
  /\ Len(env.history) < MaxHistory
  /\ <<env.world, a>> \notin Raises
  /\ env' = EnvStep(env, a)
  /\ UNCHANGED <<nodes, result>>

NativePayloads == IF NativeSnapshots THEN {env.world, NoNative} ELSE {NoNative}

\* A node for the state just seen, as saved_node_at and _saved_node_from_state
\* build it: the step index is that of the action that led there.  The native
\* payload is lost when the node is read back from a file.
SaveStep ==
  /\ Cardinality(nodes) < MaxNodes
  /\ \E native \in NativePayloads :
       nodes' = nodes \cup {NodeAt(env, native, Len(env.history) - 1)}
  /\ UNCHANGED <<env, result>>

\* A WorldStateSnapshot of the state just seen: its step index is the wrapper's.
SaveSnapshot ==
  /\ Cardinality(nodes) < MaxNodes
  /\ \E native \in NativePayloads : nodes' = nodes \cup {NodeAt(env, native, env.stepIndex)}
  /\ UNCHANGED <<env, result>>

\* restore_saved_node, alone or through ReplaySession.restore.
Restore(node) ==
  \E steps \in {RecordedSteps(node), UnrecordedSteps(node)} :
    \E outcome \in RestoreOutcomes(env, node, steps) :
      /\ env' = outcome.env
      /\ result' = outcome.result
      /\ UNCHANGED nodes

\* restore_saved_node without a node.
RestoreNothing ==
  \E w \in Starts :
    /\ env' = EnvReset(w)
    /\ result' = [NoResult EXCEPT !.success = TRUE, !.mode = "RESET_ONLY"]
    /\ UNCHANGED nodes

RestoreSnapshot(node) ==
  /\ env' \in SnapshotOutcomes(env, node)
  /\ UNCHANGED <<nodes, result>>

Next ==
  \/ Reset
  \/ \E a \in Actions : Step(a)
  \/ SaveStep
  \/ SaveSnapshot
  \/ \E node \in nodes : Restore(node) \/ RestoreSnapshot(node)
  \/ RestoreNothing

Spec == Init /\ [][Next]_vars

-----------------------------------------------------------------------------
Text == {EmptyText} \cup {Observation[w] : w \in Worlds} \cup {Inventory[w] : w \in Worlds}

TypeOK ==
  /\ env.world \in Worlds /\ env.start \in Starts
  /\ env.history \in Seq(Actions) /\ env.stepIndex \in Nat
  /\ env.last.observation \in Text /\ env.last.inventory \in Text
  /\ env.last.done \in BOOLEAN
  /\ result.success = (result.mode \notin {"NONE", "FAILED"})

\* Whatever was stepped, restored or abandoned half way, replaying the recorded
\* action history from the reset it started with gives the machine state the
\* emulator is in: replay_actions of the next snapshot are never about another
\* state than its native payload.
HistoryExplainsWorld ==
  /\ Play(env.start, env.history) = env.world
  /\ \A node \in nodes : node.native \in {NoNative, Play(node.start, node.prefix)}

\* A restore that reports success left the wrapper at the node as far as the
\* wrapper can tell: history, score, comparable inventory, and the observation
\* whenever the backend shows one.  Native restores are at the very state.
SuccessMeansAtTheNode ==
  [][ result' # result /\ result'.success /\ result'.mode # "RESET_ONLY" =>
        LET node == result'.node
        IN  /\ env'.history = node.prefix
            /\ Score[env'.world] = node.score
            /\ InventoryComparable(Inventory[env'.world], node.inventory)
                 => TextsMatch(Inventory[env'.world], node.inventory)
            /\ ReadsObservation => TextsMatch(Observation[env'.world], node.observation)
            /\ result'.mode = "NATIVE_SNAPSHOT" => env'.world = node.world ]_vars

\* A replay that starts where the node's own run started does not diverge: a
\* restore from there is only reported failed when an action of it raises.
NoFalseDivergence ==
  result.mode = "FAILED" /\ result.from = result.node.start
    => \E i \in 1..Len(result.node.prefix) :
         <<Play(result.node.start, SubSeq(result.node.prefix, 1, i - 1)), result.node.prefix[i]>> \in Raises
=============================================================================
