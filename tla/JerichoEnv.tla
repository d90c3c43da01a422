------------------------------ MODULE JerichoEnv ------------------------------
(***************************************************************************)
(* env/jericho_env.py, class JerichoEnv: the wrapper around one emulator.  *)
(*                                                                         *)
(* The wrapper is a record                                                 *)
(*   world     the emulator's machine state, random generator included     *)
(*   start     the machine state of the reset the run began with (history) *)
(*   history   _action_history                                             *)
(*   stepIndex _step_index                                                 *)
(*   last      _last_state: what the program believes it sees              *)
(* and each method is an operator from the record to its next value.  The  *)
(* emulator is not under src/: it is a deterministic machine (Move) whose  *)
(* views are read through the getters the wrapper calls.                   *)
(***************************************************************************)
EXTENDS Integers, Sequences, SequencesExt

CONSTANTS
  Worlds, Actions,
  Starts,            \* machine states a reset without a seed can produce
  SeededStart,       \* the one the episode's seed produces
  Move,              \* [Worlds \X Actions -> Worlds]
  Raises,            \* pairs of Worlds \X Actions on which step() raises
  Observation, Inventory, Score, Terminal,   \* views, functions on Worlds
  NativeSnapshots,   \* live mode, and the backend has get_state and set_state
  ReadsObservation   \* the backend exposes an observation attribute

ASSUME GameAssumption ==
  /\ SeededStart \in Starts /\ Starts \subseteq Worlds
  /\ Move \in [Worlds \X Actions -> Worlds]
  /\ Raises \subseteq Worlds \X Actions
  /\ Score \in [Worlds -> Int] /\ Terminal \in [Worlds -> BOOLEAN]
  /\ NativeSnapshots \in BOOLEAN /\ ReadsObservation \in BOOLEAN

NoNative == "no native snapshot"
EmptyText == ""
Unavailable == "Inventory unavailable."

View(w) == [observation |-> Observation[w], inventory |-> Inventory[w],
            score |-> Score[w], done |-> Terminal[w]]

\* reset: close, build a new backend, forget the history.
EnvReset(w) ==
  [world |-> w, start |-> w, history |-> << >>, stepIndex |-> 0,
   last |-> [View(w) EXCEPT !.done = FALSE]]

StepKeepingHistory(e, a) ==
  [e EXCEPT !.world = Move[<<e.world, a>>], !.stepIndex = @ + 1,
            !.last = View(Move[<<e.world, a>>])]

\* step of an action on which the backend does not raise.
EnvStep(e, a) ==
  [e EXCEPT !.world = Move[<<e.world, a>>],
            !.history = Append(@, a),
            !.stepIndex = @ + 1,
            !.last = View(Move[<<e.world, a>>])]

SetNativeKeepingHistory(e, node) ==
  [e EXCEPT !.world = node.native,
            !.start = node.start,
            !.stepIndex = node.stepIndex + 1]

SetNativeAtTheSavedIndex(e, node) ==
  [e EXCEPT !.world = node.native,
            !.start = node.start,
            !.history = node.prefix,
            !.stepIndex = node.stepIndex]

\* set_native_state, when set_state() accepts the payload: the machine state and
\* the wrapper's own replay metadata are replaced, the last seen state is not.
\* Every caller in the code passes a step_index.
SetNative(e, node) ==
  [e EXCEPT !.world = node.native,
            !.start = node.start,
            !.history = node.prefix,
            !.stepIndex = node.stepIndex + 1]

\* _capture_current_state: score and inventory are read from the backend.  A
\* backend without an observation attribute is believed to show the text the
\* caller expects, and `done` is the one of the last state seen before.
Capture(e, expected) ==
  [e EXCEPT !.last =
     [observation |-> IF ReadsObservation THEN Observation[e.world]
                      ELSE IF expected # EmptyText THEN expected
                      ELSE e.last.observation,
      inventory |-> Inventory[e.world],
      score |-> Score[e.world],
      done |-> e.last.done]]

\* _texts_match.  Texts are tokens, none of which contains another: containment
\* either way is equality, but for the empty text, which every text contains.
TextsMatch(s, t) == s = t \/ s = EmptyText \/ t = EmptyText

InventoryComparable(s, t) == EmptyText \notin {s, t} /\ Unavailable \notin {s, t}

SkippedValidation(e, expected) == "NONE"

\* validate_restored_state: the first of the three comparisons that fails.
DivergenceReason(e, expected) ==
  LET actual == Capture(e, expected.observation).last
      inventoryDiffers ==
        /\ InventoryComparable(expected.inventory, actual.inventory)
        /\ ~TextsMatch(expected.inventory, actual.inventory)
  IN  IF actual.score # expected.score THEN "SCORE_MISMATCH"
      ELSE IF ~TextsMatch(expected.observation, actual.observation) THEN "OBSERVATION_MISMATCH"
      ELSE IF inventoryDiffers THEN "INVENTORY_MISMATCH" ELSE "NONE"

\* The machine state reached by playing `actions` from w.
Play(w, actions) == FoldLeft(LAMBDA v, a : Move[<<v, a>>], w, actions)
=============================================================================
