----------------------------- MODULE ReplayProofs -----------------------------
(***************************************************************************)
(* Proofs about Replay, for every game, however often it is reset, stepped,*)
(* saved and restored and however many nodes there are.                    *)
(***************************************************************************)
EXTENDS Replay, SavedNodesProofs

\* A failed restore from the reset of the node's own run met an action that raises.
FailureExplained(r) ==
  r.mode = "FAILED" /\ r.from = r.node.start => RaisesAlong(r.node.start, r.node.prefix)

\* The inductive invariant: the wrapper and the nodes are in order.  That what they
\* say of their machine states is true of them is what NoFalseDivergence needs.
IInv ==
  /\ Sound(env, Text)
  /\ \A node \in nodes : SoundNode(node, Text)
  /\ result.success = (result.mode \notin {"NONE", "FAILED"})
  /\ FailureExplained(result)

\* The texts of the game, and the empty one, are texts.
LEMMA TextsInText == TextsIn(Text)
BY DEF TextsIn, Text

\* A reset establishes what is known of the wrapper.
LEMMA InitIInv == Init => IInv
<1> SUFFICES ASSUME Init PROVE IInv
  OBVIOUS
<1>1. Sound(env, Text)
  BY TextsInText, ResetIsSound, GameAssumption DEF Init, GameAssumption
<1>2. nodes = {} /\ result.mode = "NONE" /\ result.success = FALSE
  BY DEF Init, NoResult
<1> QED
  BY <1>1, <1>2 DEF IInv, FailureExplained

\* A node of the state just seen is in order, whichever index it is given.
LEMMA SavingIsSound ==
  ASSUME IInv, NEW native \in NativePayloads, NEW stepIndex \in Nat \cup {-1}
  PROVE  SoundNode(NodeAt(env, native, stepIndex), Text)
<1>1. native \in {env.world, NoNative}
  BY DEF NativePayloads
<1> QED
  BY <1>1, NodeAtIsSound DEF IInv

\* Every operation of a program keeps the wrapper and the nodes in order.
LEMMA NextIInv == IInv /\ [Next]_vars => IInv'
<1> SUFFICES ASSUME IInv, [Next]_vars PROVE IInv'
  OBVIOUS
<1> USE TextsInText
<1>1. /\ env \in Wrappers(Text) /\ Explained(env) /\ SeesTheWorld(env)
      /\ Len(env.history) - 1 \in Nat \cup {-1} /\ env.stepIndex \in Nat \cup {-1}
  BY DEF IInv, Sound, Wrappers
<1>2. CASE Reset
  <2>1. Sound(env', Text)
    BY <1>2, ResetIsSound, GameAssumption DEF Reset, GameAssumption
  <2> QED
    BY <1>2, <2>1 DEF Reset, IInv, FailureExplained
<1>3. ASSUME NEW a \in Actions, Step(a) PROVE IInv'
  <2>1. Sound(env', Text)
    BY <1>1, <1>3, StepIsSound DEF Step, Sound
  <2> QED
    BY <1>3, <2>1 DEF Step, IInv, FailureExplained
<1>4. CASE SaveStep
  <2>1. PICK native \in NativePayloads :
          nodes' = nodes \cup {NodeAt(env, native, Len(env.history) - 1)}
    BY <1>4 DEF SaveStep
  <2>2. SoundNode(NodeAt(env, native, Len(env.history) - 1), Text)
    BY <1>1, SavingIsSound
  <2> QED
    BY <1>4, <2>1, <2>2 DEF SaveStep, IInv, FailureExplained
<1>5. CASE SaveSnapshot
  <2>1. PICK native \in NativePayloads : nodes' = nodes \cup {NodeAt(env, native, env.stepIndex)}
    BY <1>5 DEF SaveSnapshot
  <2>2. SoundNode(NodeAt(env, native, env.stepIndex), Text)
    BY <1>1, SavingIsSound
  <2> QED
    BY <1>5, <2>1, <2>2 DEF SaveSnapshot, IInv, FailureExplained
<1>6. ASSUME NEW node \in nodes, Restore(node) PROVE IInv'
  <2>1. PICK steps \in {RecordedSteps(node), UnrecordedSteps(node)} :
          \E outcome \in RestoreOutcomes(env, node, steps) :
            env' = outcome.env /\ result' = outcome.result /\ UNCHANGED nodes
    BY <1>6 DEF Restore
  <2> PICK outcome \in RestoreOutcomes(env, node, steps) :
        env' = outcome.env /\ result' = outcome.result /\ UNCHANGED nodes
    BY <2>1
  <2>2. Restored(outcome, node, Text)
    BY <1>1, RestoreIsSound DEF IInv
  <2>3. Sound(env', Text)
    BY <2>1, <2>2 DEF Restored
  <2>4. /\ result'.success = (result'.mode # "FAILED") /\ result'.mode # "NONE"
        /\ result'.node = node
        /\ result'.mode = "FAILED" /\ result'.from = node.start
             => RaisesAlong(node.start, node.prefix)
    BY <2>1, <2>2 DEF Restored
  <2> QED
    BY <2>1, <2>3, <2>4 DEF IInv, FailureExplained
<1>7. ASSUME NEW node \in nodes, RestoreSnapshot(node) PROVE IInv'
  <2>1. env' \in SnapshotOutcomes(env, node) /\ UNCHANGED <<nodes, result>>
    BY <1>7 DEF RestoreSnapshot
  <2>2. Sound(env', Text)
    BY <1>1, <2>1, SnapshotRestoreIsSound DEF IInv
  <2> QED
    BY <2>1, <2>2 DEF IInv, FailureExplained
<1>8. CASE RestoreNothing
  <2>1. PICK w \in Starts : env' = EnvReset(w)
    BY <1>8 DEF RestoreNothing
  <2>2. Sound(env', Text)
    BY <2>1, ResetIsSound
  <2>3. result'.success = TRUE /\ result'.mode = "RESET_ONLY" /\ UNCHANGED nodes
    BY <1>8 DEF RestoreNothing, NoResult
  <2> QED
    BY <2>2, <2>3 DEF IInv, FailureExplained
<1>9. CASE UNCHANGED vars
  BY <1>9 DEF vars, IInv, FailureExplained
<1> QED
  BY <1>2, <1>3, <1>4, <1>5, <1>6, <1>7, <1>8, <1>9 DEF Next

\* The wrapper and the nodes are always in order.
LEMMA SpecIInv == Spec => []IInv
BY InitIInv, NextIInv, PTL DEF Spec

-----------------------------------------------------------------------------
\* The wrapper keeps its types, and a result its flag: `success` is reported by
\* exactly the modes that are not a failure.
THEOREM TypeCorrect == Spec => []TypeOK
<1>1. IInv => TypeOK
  BY DEF IInv, Sound, Wrappers, LastStates, TypeOK
<1> QED
  BY SpecIInv, <1>1, PTL

\* set_native_state and the replay loops of env/replay.py keep _action_history an
\* explanation of the emulator's machine state, and no saved node carries a
\* payload that its actions do not lead to.
THEOREM HistoryExplained == Spec => []HistoryExplainsWorld
<1>1. IInv => HistoryExplainsWorld
  BY DEF IInv, Sound, Explained, SoundNode, HistoryExplainsWorld
<1> QED
  BY SpecIInv, <1>1, PTL

\* validate_restored_state is never the reason of a failure when the reset of a
\* replay is the one of the node's own run.
THEOREM FailuresAreReal == Spec => []NoFalseDivergence
<1>1. IInv => NoFalseDivergence
  BY DEF IInv, FailureExplained, RaisesAlong, NoFalseDivergence
<1> QED
  BY SpecIInv, <1>1, PTL

\* A ReplayResult with success set tells the truth about the wrapper, by native
\* snapshot and by replay, on whichever reset the replay began.
THEOREM SuccessIsAtTheNode == Spec => SuccessMeansAtTheNode
<1> DEFINE A == result' # result /\ result'.success /\ result'.mode # "RESET_ONLY" =>
                  LET node == result'.node
                  IN  /\ env'.history = node.prefix
                      /\ Score[env'.world] = node.score
                      /\ InventoryComparable(Inventory[env'.world], node.inventory)
                           => TextsMatch(Inventory[env'.world], node.inventory)
                      /\ ReadsObservation
                           => TextsMatch(Observation[env'.world], node.observation)
                      /\ result'.mode = "NATIVE_SNAPSHOT" => env'.world = node.world
<1>1. IInv /\ [Next]_vars => [A]_vars
  <2> SUFFICES ASSUME IInv, Next, result' # result, result'.mode # "RESET_ONLY" PROVE A
    BY DEF vars
  <2>1. PICK node \in nodes : Restore(node)
    <3>1. ~RestoreNothing
      BY DEF RestoreNothing, NoResult
    <3> QED
      BY <3>1 DEF Next, Reset, Step, SaveStep, SaveSnapshot, RestoreSnapshot
  <2>2. PICK steps \in {RecordedSteps(node), UnrecordedSteps(node)} :
          \E outcome \in RestoreOutcomes(env, node, steps) :
            env' = outcome.env /\ result' = outcome.result
    BY <2>1 DEF Restore
  <2> PICK outcome \in RestoreOutcomes(env, node, steps) :
        env' = outcome.env /\ result' = outcome.result
    BY <2>2
  <2>3. Restored(outcome, node, Text)
    BY TextsInText, RestoreIsSound DEF IInv, Sound
  <2>4. result'.node = node
    BY <2>2, <2>3 DEF Restored
  <2> QED
    BY <2>2, <2>3, <2>4 DEF Restored, AtTheNode
<1> QED
  BY SpecIInv, <1>1, PTL DEF Spec, SuccessMeansAtTheNode
=============================================================================
