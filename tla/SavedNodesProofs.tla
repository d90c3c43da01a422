--------------------------- MODULE SavedNodesProofs ---------------------------
(***************************************************************************)
(* What a restore does, for every game, node and number of actions: lemmas *)
(* about the folds of JerichoEnv and SavedNodes, on which the proofs about *)
(* the components that restore nodes rest.                                 *)
(***************************************************************************)
EXTENDS SavedNodes, DataInduction

-----------------------------------------------------------------------------
(* Playing actions. *)

\* The machine states that a play runs through.
LEMMA PlayTrace ==
  ASSUME NEW w \in Worlds, NEW s \in Seq(Actions)
  PROVE  \E f \in [0..Len(s) -> Worlds] :
           /\ f[0] = w /\ f[Len(s)] = Play(w, s)
           /\ \A i \in 1..Len(s) : f[i] = Move[<<f[i - 1], s[i]>>]
<1> DEFINE n == Len(s)
           step == [i \in 1..n |-> [v \in Worlds |-> Move[<<v, s[i]>>]]]
           Body(g) == [S \in SUBSET (DOMAIN s) |->
                         IF S = {} THEN w ELSE Move[<<g[S \ {Max(S)}], s[Max(S)]>>]]
           iter == CHOOSE g : g = Body(g)
<1>1. n \in Nat /\ DOMAIN s = 1..n /\ \A i \in 1..n : s[i] \in Actions
  OBVIOUS
<1>2. step \in Steps(n, Worlds)
  BY <1>1, GameAssumption DEF GameAssumption, Steps
<1>3. Play(w, s) = iter[1..n]
  BY <1>1 DEF Play, FoldLeft, MapThenFoldSet
<1>4. w \in Worlds
  OBVIOUS
<1>5. \E g : g = Body(g)
  <2>1. PICK g : Solves(g, n, Worlds, w, step)
    <3> HIDE DEF step, n
    <3> QED
      BY <1>1, <1>2, <1>4, FoldExists
  <2>2. ASSUME NEW S \in SUBSET (1..n), S # {}
        PROVE  /\ Max(S) \in 1..n
               /\ step[Max(S)][g[S \ {Max(S)}]] = Move[<<g[S \ {Max(S)}], s[Max(S)]>>]
    <3>1. Max(S) \in 1..n
      BY <1>1, <2>2, MaxOfIndices
    <3>2. g[S \ {Max(S)}] \in Worlds
      <4> HIDE DEF step
      <4> QED
        BY <2>1 DEF Solves
    <3> QED
      BY <3>1, <3>2
  <2>3. g = Body(g)
    <3> HIDE DEF step, n
    <3> QED
      BY <1>1, <2>1, <2>2 DEF Solves
  <2> QED
    BY <2>3
<1>6. iter = Body(iter)
  <2> HIDE DEF Body
  <2> QED
    BY <1>5
<1>7. SolvesWithin(iter, n, Worlds, w, step)
  <2> HIDE DEF iter
  <2>1. iter[{}] = w
    BY <1>6
  <2>2. ASSUME NEW S \in SUBSET (1..n), S # {}, iter[S \ {Max(S)}] \in Worlds
        PROVE  iter[S] = step[Max(S)][iter[S \ {Max(S)}]]
    <3>1. Max(S) \in 1..n
      BY <1>1, <2>2, MaxOfIndices
    <3> QED
      BY <1>1, <1>6, <2>2, <3>1
  <2> HIDE DEF step, n
  <2> QED
    BY <2>1, <2>2 DEF SolvesWithin
<1>8. PICK f : IsTrace(f, n, Worlds, w, step) /\ f[n] = iter[1..n]
  <2> HIDE DEF iter, n, step
  <2> QED
    BY <1>1, <1>2, <1>4, <1>7, FoldTrace
<1>9. f \in [0..n -> Worlds] /\ f[0] = w /\ \A i \in 1..n : f[i] = step[i][f[i - 1]]
  <2> HIDE DEF iter, n, step
  <2> QED
    BY <1>8 DEF IsTrace
<1>10. \A i \in 1..n : f[i] = Move[<<f[i - 1], s[i]>>]
  <2> HIDE DEF iter
  <2>1. ASSUME NEW i \in 1..n PROVE f[i - 1] \in Worlds
    BY <1>1, <1>9
  <2> QED
    BY <1>1, <1>9, <2>1
<1> HIDE DEF iter, step
<1> QED
  BY <1>3, <1>8, <1>9, <1>10

\* A play ends in a machine state of the game.
LEMMA PlayTyped ==
  ASSUME NEW w \in Worlds, NEW s \in Seq(Actions)
  PROVE  Play(w, s) \in Worlds
<1>1. PICK f \in [0..Len(s) -> Worlds] : f[Len(s)] = Play(w, s)
  BY PlayTrace
<1> QED
  BY <1>1

\* Playing nothing changes nothing.
LEMMA PlayNothing ==
  ASSUME NEW w \in Worlds
  PROVE  Play(w, << >>) = w
<1>1. << >> \in Seq(Actions) /\ Len(<< >>) = 0
  OBVIOUS
<1> DEFINE s == << >>
<1>2. PICK f \in [0..Len(s) -> Worlds] : f[0] = w /\ f[Len(s)] = Play(w, s)
  <2> HIDE DEF s
  <2> QED
    BY <1>1, PlayTrace DEF s
<1> QED
  BY <1>1, <1>2

\* One more action moves the machine state that the play reached.
LEMMA PlayAppend ==
  ASSUME NEW w \in Worlds, NEW s \in Seq(Actions), NEW a \in Actions
  PROVE  Play(w, Append(s, a)) = Move[<<Play(w, s), a>>]
<1> DEFINE n == Len(s)
           t == Append(s, a)
<1>1. /\ n \in Nat /\ t \in Seq(Actions) /\ Len(t) = n + 1
      /\ \A i \in 1..n : t[i] = s[i]
      /\ t[n + 1] = a
  OBVIOUS
<1>2. PICK f : /\ f \in [0..n -> Worlds]
               /\ f[0] = w /\ f[n] = Play(w, s)
               /\ \A i \in 1..n : f[i] = Move[<<f[i - 1], s[i]>>]
  BY PlayTrace
<1>3. PICK g : /\ g \in [0..(n + 1) -> Worlds]
               /\ g[0] = w /\ g[n + 1] = Play(w, t)
               /\ \A i \in 1..(n + 1) : g[i] = Move[<<g[i - 1], t[i]>>]
  <2> HIDE DEF t
  <2> QED
    BY <1>1, PlayTrace
<1> HIDE DEF n, t
<1>4. ASSUME NEW i \in 1..n, f[i - 1] = g[i - 1] PROVE f[i] = g[i]
  <2>1. i \in 1..(n + 1)
    BY <1>1
  <2>2. g[i] = Move[<<g[i - 1], t[i]>>] /\ t[i] = s[i]
    BY <1>1, <1>3, <2>1
  <2> QED
    BY <1>2, <1>4, <2>2
<1>5. f[n] = g[n]
  <2>1. \A i \in 0..n : f[i] = g[i]
    <3>1. f[0] = g[0]
      BY <1>2, <1>3
    <3>2. \A i \in 1..n : f[i - 1] = g[i - 1] => f[i] = g[i]
      BY <1>4
    <3>3. n \in Nat
      BY <1>1
    <3> QED
      BY <3>1, <3>2, <3>3, TracesAgree
  <2> QED
    BY <2>1, <1>1
<1>6. g[n + 1] = Move[<<g[n], a>>]
  <2>1. n + 1 \in 1..(n + 1) /\ (n + 1) - 1 = n
    BY <1>1
  <2> QED
    BY <2>1, <1>1, <1>3
<1> QED
  BY <1>2, <1>3, <1>5, <1>6 DEF n, t

\* A play goes on from where its beginning led.
LEMMA PlayConcat ==
  ASSUME NEW w \in Worlds, NEW s \in Seq(Actions), NEW t \in Seq(Actions)
  PROVE  Play(w, s \o t) = Play(Play(w, s), t)
<1> DEFINE Q == {u \in Seq(Actions) : Play(w, s \o u) = Play(Play(w, s), u)}
<1>1. Play(w, s) \in Worlds
  BY PlayTyped
<1>2. << >> \in Q
  BY <1>1, PlayNothing, s \o << >> = s
<1>3. ASSUME NEW u \in Seq(Actions), u \in Q, NEW a \in Actions PROVE Append(u, a) \in Q
  <2>1. /\ s \o u \in Seq(Actions) /\ Append(u, a) \in Seq(Actions)
        /\ s \o Append(u, a) = Append(s \o u, a)
    OBVIOUS
  <2>2. Play(w, Append(s \o u, a)) = Move[<<Play(w, s \o u), a>>]
    BY <2>1, PlayAppend
  <2>3. Play(Play(w, s), Append(u, a)) = Move[<<Play(Play(w, s), u), a>>]
    BY <1>1, PlayAppend
  <2>4. Play(w, s \o Append(u, a)) = Play(Play(w, s), Append(u, a))
    BY <1>3, <2>1, <2>2, <2>3
  <2> QED
    BY <2>1, <2>4
<1>4. Seq(Actions) \subseteq Q
  <2> HIDE DEF Q
  <2> QED
    BY <1>2, <1>3, SeqInduct
<1> QED
  BY <1>4

-----------------------------------------------------------------------------
(* The wrapper, the nodes and the steps of a replay, over the texts in X. *)

TextsIn(X) ==
  /\ EmptyText \in X
  /\ \A w \in Worlds : Observation[w] \in X /\ Inventory[w] \in X

LastStates(X) == [observation : X, inventory : X, score : Int, done : BOOLEAN]

Wrappers(X) ==
  [world : Worlds, start : Starts, history : Seq(Actions), stepIndex : Nat, last : LastStates(X)]

Nodes(X) ==
  [native : Worlds \cup {NoNative}, prefix : Seq(Actions), stepIndex : Nat \cup {-1},
   observation : X, inventory : X, score : Int, world : Worlds, start : Starts]

ReplayedSteps ==
  {Recorded(w, a) : w \in Worlds, a \in Actions} \cup {Unrecorded(a) : a \in Actions}

Reasons ==
  {"NONE", "STEP_EXCEPTION", "SCORE_MISMATCH", "OBSERVATION_MISMATCH", "INVENTORY_MISMATCH"}

Replays(X) == [env : Wrappers(X), reason : Reasons, count : Nat]

Fresh(w) == [env |-> EnvReset(w), reason |-> "NONE", count |-> 0]

\* The history of the wrapper leads from its reset to the machine state.
Explained(e) == Play(e.start, e.history) = e.world

\* What the wrapper believes it sees is what the emulator shows, as far as the
\* backend lets it look.
SeesTheWorld(e) ==
  /\ e.last.score = Score[e.world]
  /\ e.last.inventory = Inventory[e.world]
  /\ ReadsObservation => e.last.observation = Observation[e.world]

Sound(e, X) == e \in Wrappers(X) /\ Explained(e) /\ SeesTheWorld(e)

\* What a node says of its machine state, as far as the backend lets the wrapper
\* look, and its native payload, if it has one, are those of the state that its
\* actions lead to.
SoundNode(node, X) ==
  /\ node \in Nodes(X)
  /\ node.world = Play(node.start, node.prefix)
  /\ node.native \in {NoNative, node.world}
  /\ node.score = Score[node.world]
  /\ node.inventory = Inventory[node.world]
  /\ ReadsObservation => node.observation = Observation[node.world]

\* Both wrappers are on a run that began with the same reset.
SameRun(e, f) == f.start = e.start

\* A wrapper that was just reset.
LEMMA ResetIsSound ==
  ASSUME NEW X, TextsIn(X), NEW w \in Starts
  PROVE  Sound(EnvReset(w), X) /\ w \in Worlds
<1>1. w \in Worlds
  BY GameAssumption DEF GameAssumption
<1>2. View(w) \in LastStates(X)
  BY <1>1, GameAssumption DEF GameAssumption, View, LastStates, TextsIn
<1>3. EnvReset(w) \in Wrappers(X)
  <2>1. [View(w) EXCEPT !.done = FALSE] \in LastStates(X)
    BY <1>2 DEF LastStates
  <2>2. << >> \in Seq(Actions) /\ 0 \in Nat
    OBVIOUS
  <2> QED
    BY <1>1, <2>1, <2>2 DEF EnvReset, Wrappers
<1>4. Explained(EnvReset(w))
  BY <1>1, PlayNothing DEF EnvReset, Explained
<1>5. SeesTheWorld(EnvReset(w))
  BY DEF EnvReset, View, SeesTheWorld
<1> QED
  BY <1>1, <1>3, <1>4, <1>5 DEF Sound

\* A step of a sound wrapper.
LEMMA StepIsSound ==
  ASSUME NEW X, TextsIn(X), NEW e \in Wrappers(X), NEW a \in Actions
  PROVE  /\ EnvStep(e, a) \in Wrappers(X)
         /\ Explained(e) => Explained(EnvStep(e, a))
         /\ SeesTheWorld(EnvStep(e, a))
         /\ EnvStep(e, a).history = Append(e.history, a)
         /\ EnvStep(e, a).start = e.start
         /\ EnvStep(e, a).world = Move[<<e.world, a>>]
<1> DEFINE v == Move[<<e.world, a>>]
           f == EnvStep(e, a)
<1>1. /\ e.world \in Worlds /\ e.start \in Starts /\ e.start \in Worlds
      /\ e.history \in Seq(Actions) /\ e.stepIndex \in Nat
  BY GameAssumption DEF GameAssumption, Wrappers
<1>2. v \in Worlds
  BY <1>1, GameAssumption DEF GameAssumption
<1>3. View(v) \in LastStates(X)
  <2> HIDE DEF v
  <2> QED
    BY <1>2, GameAssumption DEF GameAssumption, View, LastStates, TextsIn
<1>4. f = [world |-> v, start |-> e.start, history |-> Append(e.history, a),
           stepIndex |-> e.stepIndex + 1, last |-> View(v)]
  <2>1. e = [world |-> e.world, start |-> e.start, history |-> e.history,
             stepIndex |-> e.stepIndex, last |-> e.last]
    BY DEF Wrappers
  <2> DEFINE V == View(v)
  <2>2. f = [e EXCEPT !.world = v, !.history = Append(@, a), !.stepIndex = @ + 1, !.last = V]
    BY DEF EnvStep
  <2> HIDE DEF v, f, V
  <2>3. f = [world |-> v, start |-> e.start, history |-> Append(e.history, a),
             stepIndex |-> e.stepIndex + 1, last |-> V]
    BY <2>1, <2>2
  <2> QED
    BY <2>3 DEF V
<1> HIDE DEF f, v
<1>5. f \in Wrappers(X)
  <2>1. Append(e.history, a) \in Seq(Actions) /\ e.stepIndex + 1 \in Nat
    BY <1>1
  <2> QED
    BY <1>1, <1>2, <1>3, <1>4, <2>1 DEF Wrappers
<1>6. f.world = v /\ f.start = e.start /\ f.history = Append(e.history, a) /\ f.last = View(v)
  BY <1>4
<1>7. SeesTheWorld(f)
  BY <1>6 DEF SeesTheWorld, View
<1>8. Explained(e) => Explained(f)
  BY <1>1, <1>6, PlayAppend DEF Explained, v
<1> QED
  BY <1>5, <1>6, <1>7, <1>8 DEF f, v

\* A capture changes nothing but what was last seen.
LEMMA CaptureIsSound ==
  ASSUME NEW X, TextsIn(X), NEW e \in Wrappers(X), NEW text \in X
  PROVE  /\ Capture(e, text) \in Wrappers(X)
         /\ Explained(e) => Explained(Capture(e, text))
         /\ SeesTheWorld(Capture(e, text))
         /\ Capture(e, text).history = e.history
         /\ Capture(e, text).start = e.start
         /\ Capture(e, text).world = e.world
<1> DEFINE f == Capture(e, text)
           seen == IF ReadsObservation THEN Observation[e.world]
                   ELSE IF text # EmptyText THEN text ELSE e.last.observation
<1>1. /\ e.world \in Worlds /\ e.start \in Starts /\ e.history \in Seq(Actions)
      /\ e.stepIndex \in Nat /\ e.last \in LastStates(X)
  BY DEF Wrappers
<1>2. e.last.observation \in X /\ e.last.done \in BOOLEAN
  BY <1>1 DEF LastStates
<1>3. seen \in X /\ Inventory[e.world] \in X /\ Score[e.world] \in Int
  BY <1>1, <1>2, GameAssumption DEF GameAssumption, TextsIn
<1>4. f = [world |-> e.world, start |-> e.start, history |-> e.history,
           stepIndex |-> e.stepIndex,
           last |-> [observation |-> seen, inventory |-> Inventory[e.world],
                     score |-> Score[e.world], done |-> e.last.done]]
  BY DEF Capture, Wrappers
<1> HIDE DEF f
<1>5. f \in Wrappers(X)
  <2> HIDE DEF seen
  <2> QED
    BY <1>1, <1>2, <1>3, <1>4 DEF Wrappers, LastStates
<1>6. f.world = e.world /\ f.start = e.start /\ f.history = e.history
  BY <1>4
<1>7. SeesTheWorld(f)
  BY <1>4 DEF SeesTheWorld
<1>8. Explained(e) => Explained(f)
  BY <1>6 DEF Explained
<1> QED
  BY <1>5, <1>6, <1>7, <1>8 DEF f

\* A validation ends with one of its reasons.
LEMMA DivergenceReasonTyped ==
  ASSUME NEW e, NEW expected
  PROVE  DivergenceReason(e, expected) \in Reasons \ {"STEP_EXCEPTION"}
BY DEF DivergenceReason, Reasons

-----------------------------------------------------------------------------
(* Replaying steps. *)

\* The actions and the expectations of the steps.
LEMMA ReplayedStepTyped ==
  ASSUME NEW X, TextsIn(X), NEW step \in ReplayedSteps
  PROVE  /\ step.action \in Actions
         /\ step.checked => step.view.observation \in X
         /\ step.checked \in BOOLEAN
<1>1. CASE \E w \in Worlds, a \in Actions : step = Recorded(w, a)
  <2>1. PICK w \in Worlds, a \in Actions : step = Recorded(w, a)
    BY <1>1
  <2>2. Move[<<w, a>>] \in Worlds
    BY GameAssumption DEF GameAssumption
  <2> QED
    BY <2>1, <2>2 DEF Recorded, View, TextsIn
<1>2. CASE \E a \in Actions : step = Unrecorded(a)
  BY <1>2 DEF Unrecorded
<1> QED
  BY <1>1, <1>2 DEF ReplayedSteps

\* What one iteration of the replay loop does to a wrapper that was in order.
LEMMA ReplayStepIsSound ==
  ASSUME NEW X, TextsIn(X), NEW acc \in Replays(X), NEW step \in ReplayedSteps,
         NEW next, next = ReplayStep(acc, step)
  PROVE  /\ next \in Replays(X)
         /\ Explained(acc.env) => Explained(next.env)
         /\ SeesTheWorld(acc.env) => SeesTheWorld(next.env)
         /\ SameRun(acc.env, next.env)
         /\ acc.reason # "NONE" => next = acc
         /\ acc.reason = "NONE" /\ <<acc.env.world, step.action>> \in Raises
              => /\ next.env = acc.env /\ next.count = acc.count
                 /\ next.reason = "STEP_EXCEPTION"
         /\ acc.reason = "NONE" /\ <<acc.env.world, step.action>> \notin Raises
              => /\ next.env.history = Append(acc.env.history, step.action)
                 /\ next.env.world = Move[<<acc.env.world, step.action>>]
                 /\ next.count = acc.count + 1
                 /\ next.reason = IF step.checked
                                  THEN DivergenceReason(EnvStep(acc.env, step.action), step.view)
                                  ELSE "NONE"
<1> DEFINE e == acc.env
           stepped == EnvStep(e, step.action)
<1>1. e \in Wrappers(X) /\ acc.reason \in Reasons /\ acc.count \in Nat
  BY DEF Replays
<1>2. step.action \in Actions /\ (step.checked => step.view.observation \in X)
  BY ReplayedStepTyped
<1>3. CASE acc.reason # "NONE"
  <2>1. next = acc
    BY <1>3 DEF ReplayStep
  <2> QED
    BY <1>3, <2>1 DEF SameRun
<1>4. CASE acc.reason = "NONE" /\ <<e.world, step.action>> \in Raises
  <2>1. next = [acc EXCEPT !.reason = "STEP_EXCEPTION"]
    BY <1>4 DEF ReplayStep
  <2>2. next = [env |-> e, reason |-> "STEP_EXCEPTION", count |-> acc.count]
    BY <2>1 DEF Replays
  <2>3. next \in Replays(X)
    BY <1>1, <2>2 DEF Replays, Reasons
  <2> QED
    BY <1>4, <2>2, <2>3 DEF SameRun
<1>5. CASE acc.reason = "NONE" /\ <<e.world, step.action>> \notin Raises
  <2>1. /\ stepped \in Wrappers(X)
        /\ Explained(e) => Explained(stepped)
        /\ SeesTheWorld(stepped)
        /\ stepped.history = Append(e.history, step.action)
        /\ stepped.start = e.start
        /\ stepped.world = Move[<<e.world, step.action>>]
    BY <1>1, <1>2, StepIsSound
  <2>2. CASE step.checked
    <3> DEFINE captured == Capture(stepped, step.view.observation)
    <3>1. next = [env |-> captured, reason |-> DivergenceReason(stepped, step.view),
                  count |-> acc.count + 1]
      BY <1>5, <2>2 DEF ReplayStep
    <3>2. /\ captured \in Wrappers(X)
          /\ Explained(stepped) => Explained(captured)
          /\ SeesTheWorld(captured)
          /\ captured.history = stepped.history
          /\ captured.start = stepped.start
          /\ captured.world = stepped.world
      <4> HIDE DEF stepped
      <4> QED
        BY <1>2, <2>1, <2>2, CaptureIsSound
    <3>3. next \in Replays(X)
      <4>1. DivergenceReason(stepped, step.view) \in Reasons /\ acc.count + 1 \in Nat
        BY <1>1, DivergenceReasonTyped
      <4> HIDE DEF captured, stepped
      <4> QED
        BY <3>1, <3>2, <4>1 DEF Replays
    <3>4. /\ next.env = captured /\ next.reason = DivergenceReason(stepped, step.view)
          /\ next.count = acc.count + 1
      <4> HIDE DEF captured, stepped
      <4> QED
        BY <3>1
    <3> HIDE DEF captured, e
    <3> QED
      BY <1>5, <2>1, <2>2, <3>2, <3>3, <3>4 DEF e, SameRun
  <2>3. CASE ~step.checked
    <3>1. next = [env |-> stepped, reason |-> "NONE", count |-> acc.count + 1]
      BY <1>5, <2>3 DEF ReplayStep
    <3>2. next \in Replays(X)
      <4>1. acc.count + 1 \in Nat
        BY <1>1
      <4> HIDE DEF stepped
      <4> QED
        BY <2>1, <3>1, <4>1 DEF Replays, Reasons
    <3>3. next.env = stepped /\ next.reason = "NONE" /\ next.count = acc.count + 1
      <4> HIDE DEF stepped
      <4> QED
        BY <3>1
    <3> HIDE DEF e, SameRun
    <3> QED
      BY <1>5, <2>1, <2>3, <3>2, <3>3 DEF e, SameRun
  <2> QED
    BY <2>2, <2>3
<1> QED
  BY <1>3, <1>4, <1>5

\* The replay loops keep their accumulator in its type, and never reset.
LEMMA ReplayStepTyped ==
  ASSUME NEW X, TextsIn(X), NEW acc \in Replays(X), NEW step \in ReplayedSteps
  PROVE  ReplayStep(acc, step) \in Replays(X) /\ ReplayStep(acc, step).env.start = acc.env.start
<1> DEFINE next == ReplayStep(acc, step)
<1>1. next = ReplayStep(acc, step)
  OBVIOUS
<1> HIDE DEF next
<1>2. next \in Replays(X)
  BY <1>1, ReplayStepIsSound
<1>3. SameRun(acc.env, next.env)
  BY <1>1, ReplayStepIsSound
<1> QED
  BY <1>1, <1>2, <1>3 DEF SameRun

\* The replay loops begin with a wrapper that was just reset.
LEMMA FreshTyped ==
  ASSUME NEW X, TextsIn(X), NEW w \in Starts
  PROVE  Fresh(w) \in Replays(X)
<1>1. EnvReset(w) \in Wrappers(X)
  BY ResetIsSound DEF Sound
<1> QED
  BY <1>1 DEF Fresh, Replays, Reasons

\* What a replay runs through.
LEMMA ReplayTrace ==
  ASSUME NEW X, TextsIn(X), NEW w \in Starts, NEW s \in Seq(ReplayedSteps)
  PROVE  \E f \in [0..Len(s) -> Replays(X)] :
           /\ f[0] = Fresh(w) /\ f[Len(s)] = Replayed(w, s)
           /\ \A i \in 1..Len(s) : f[i] = ReplayStep(f[i - 1], s[i])
<1> DEFINE n == Len(s)
           step == [i \in 1..n |-> [v \in Replays(X) |-> ReplayStep(v, s[i])]]
           Body(g) == [S \in SUBSET (DOMAIN s) |->
                         IF S = {} THEN Fresh(w) ELSE ReplayStep(g[S \ {Max(S)}], s[Max(S)])]
           iter == CHOOSE g : g = Body(g)
<1>1. n \in Nat /\ DOMAIN s = 1..n /\ \A i \in 1..n : s[i] \in ReplayedSteps
  OBVIOUS
<1>2. step \in Steps(n, Replays(X))
  BY <1>1, ReplayStepTyped DEF Steps
<1>3. Replayed(w, s) = iter[1..n]
  BY <1>1 DEF Replayed, Fresh, FoldLeft, MapThenFoldSet
<1>4. Fresh(w) \in Replays(X)
  BY FreshTyped
<1>5. \E g : g = Body(g)
  <2>1. PICK g : Solves(g, n, Replays(X), Fresh(w), step)
    <3> HIDE DEF step, n
    <3> QED
      BY <1>1, <1>2, <1>4, FoldExists
  <2>2. ASSUME NEW S \in SUBSET (1..n), S # {}
        PROVE  /\ Max(S) \in 1..n
               /\ step[Max(S)][g[S \ {Max(S)}]] = ReplayStep(g[S \ {Max(S)}], s[Max(S)])
    <3>1. Max(S) \in 1..n
      BY <1>1, <2>2, MaxOfIndices
    <3>2. g[S \ {Max(S)}] \in Replays(X)
      <4> HIDE DEF step
      <4> QED
        BY <2>1 DEF Solves
    <3> QED
      BY <3>1, <3>2
  <2>3. g = Body(g)
    <3> HIDE DEF step, n
    <3> QED
      BY <1>1, <2>1, <2>2 DEF Solves
  <2> QED
    BY <2>3
<1>6. iter = Body(iter)
  <2> HIDE DEF Body
  <2> QED
    BY <1>5
<1>7. SolvesWithin(iter, n, Replays(X), Fresh(w), step)
  <2> HIDE DEF iter
  <2>1. iter[{}] = Fresh(w)
    BY <1>6
  <2>2. ASSUME NEW S \in SUBSET (1..n), S # {}, iter[S \ {Max(S)}] \in Replays(X)
        PROVE  iter[S] = step[Max(S)][iter[S \ {Max(S)}]]
    <3>1. Max(S) \in 1..n
      BY <1>1, <2>2, MaxOfIndices
    <3> QED
      BY <1>1, <1>6, <2>2, <3>1
  <2> HIDE DEF step, n
  <2> QED
    BY <2>1, <2>2 DEF SolvesWithin
<1>8. PICK f : IsTrace(f, n, Replays(X), Fresh(w), step) /\ f[n] = iter[1..n]
  <2> HIDE DEF iter, n, step
  <2> QED
    BY <1>1, <1>2, <1>4, <1>7, FoldTrace
<1>9. f \in [0..n -> Replays(X)] /\ f[0] = Fresh(w) /\ \A i \in 1..n : f[i] = step[i][f[i - 1]]
  <2> HIDE DEF iter, n, step
  <2> QED
    BY <1>8 DEF IsTrace
<1>10. \A i \in 1..n : f[i] = ReplayStep(f[i - 1], s[i])
  <2> HIDE DEF iter
  <2>1. ASSUME NEW i \in 1..n PROVE f[i - 1] \in Replays(X)
    BY <1>1, <1>9
  <2> QED
    BY <1>1, <1>9, <2>1
<1> HIDE DEF iter, step
<1> QED
  BY <1>3, <1>8, <1>9, <1>10

-----------------------------------------------------------------------------
(* Restoring nodes. *)

\* The steps play the actions of the prefix, in order.
StepsAlong(steps, prefix) ==
  /\ prefix \in Seq(Actions) /\ steps \in Seq(ReplayedSteps) /\ Len(steps) = Len(prefix)
  /\ \A i \in 1..Len(prefix) : steps[i].action = prefix[i]

\* How far a replay from w along the prefix is after i of its steps.
GoneThrough(acc, i, w, prefix, X) ==
  /\ acc \in Replays(X) /\ Sound(acc.env, X) /\ acc.env.start = w
  /\ acc.reason = "NONE" => acc.env.history = SubSeq(prefix, 1, i) /\ acc.count = i

\* A replay loop leaves a sound wrapper; when it reports no reason, the history is
\* the whole prefix.
LEMMA ReplayFollowsThePrefix ==
  ASSUME NEW X, TextsIn(X), NEW w \in Starts, NEW prefix, NEW steps, StepsAlong(steps, prefix),
         NEW f, f[0] = Fresh(w), \A i \in 1..Len(steps) : f[i] = ReplayStep(f[i - 1], steps[i])
  PROVE  \A i \in 0..Len(prefix) : GoneThrough(f[i], i, w, prefix, X)
<1> DEFINE n == Len(prefix)
           S == {i \in 0..n : GoneThrough(f[i], i, w, prefix, X)}
<1>1. /\ n \in Nat /\ Len(steps) = n /\ prefix \in Seq(Actions)
      /\ \A i \in 1..n : /\ steps[i] \in ReplayedSteps /\ steps[i].action = prefix[i]
                         /\ prefix[i] \in Actions
  BY DEF StepsAlong
<1>2. 0 \in S
  <2>1. SubSeq(prefix, 1, 0) = << >>
    BY <1>1
  <2>2. f[0].env = EnvReset(w) /\ f[0].reason = "NONE" /\ f[0].count = 0
    BY DEF Fresh
  <2>3. EnvReset(w).history = << >> /\ EnvReset(w).start = w
    BY DEF EnvReset
  <2>4. GoneThrough(f[0], 0, w, prefix, X)
    BY <2>1, <2>2, <2>3, FreshTyped, ResetIsSound DEF GoneThrough
  <2> QED
    BY <1>1, <2>4
<1>3. ASSUME NEW i \in 1..n, i - 1 \in S PROVE i \in S
  <2> DEFINE acc == f[i - 1]
             next == f[i]
             step == steps[i]
  <2>1. /\ acc \in Replays(X) /\ Sound(acc.env, X) /\ acc.env.start = w
        /\ acc.reason = "NONE" => acc.env.history = SubSeq(prefix, 1, i - 1) /\ acc.count = i - 1
    BY <1>3 DEF GoneThrough
  <2>2. next = ReplayStep(acc, step) /\ step \in ReplayedSteps /\ step.action = prefix[i]
    BY <1>1
  <2> HIDE DEF acc, next, step
  <2>3. /\ next \in Replays(X)
        /\ Explained(acc.env) => Explained(next.env)
        /\ SeesTheWorld(acc.env) => SeesTheWorld(next.env)
        /\ next.env.start = acc.env.start
        /\ acc.reason # "NONE" => next = acc
    <3>1. next \in Replays(X) /\ next.env.start = acc.env.start
      BY <2>1, <2>2, ReplayStepTyped
    <3>2. Explained(acc.env) => Explained(next.env)
      BY <2>1, <2>2, ReplayStepIsSound
    <3>3. SeesTheWorld(acc.env) => SeesTheWorld(next.env)
      BY <2>1, <2>2, ReplayStepIsSound
    <3>4. acc.reason # "NONE" => next = acc
      BY <2>2, Zenon DEF ReplayStep
    <3> QED
      BY <3>1, <3>2, <3>3, <3>4
  <2>4. Sound(next.env, X)
    BY <2>1, <2>3 DEF Sound, Replays
  <2>5. ASSUME next.reason = "NONE"
        PROVE  next.env.history = SubSeq(prefix, 1, i) /\ next.count = i
    <3>1. acc.reason = "NONE"
      BY <2>3, <2>5
    <3>2. <<acc.env.world, step.action>> \notin Raises
      BY <2>1, <2>2, <2>5, <3>1, ReplayStepIsSound
    <3>3. /\ next.env.history = Append(acc.env.history, step.action)
          /\ next.count = acc.count + 1
      BY <2>1, <2>2, <3>1, <3>2, ReplayStepIsSound
    <3>4. SubSeq(prefix, 1, i) = Append(SubSeq(prefix, 1, i - 1), prefix[i])
      BY <1>1
    <3> QED
      BY <2>1, <2>2, <3>1, <3>3, <3>4
  <2>6. GoneThrough(f[i], i, w, prefix, X)
    BY <2>1, <2>3, <2>4, <2>5 DEF GoneThrough, next
  <2> QED
    BY <1>1, <2>6
<1>4. 0..n \subseteq S
  <2> HIDE DEF S, n
  <2> QED
    BY <1>1, <1>2, <1>3, IntervalInduct
<1> QED
  BY <1>4

\* The end of a replay.
LEMMA ReplayedIsSound ==
  ASSUME NEW X, TextsIn(X), NEW w \in Starts, NEW prefix, NEW steps, StepsAlong(steps, prefix)
  PROVE  LET r == Replayed(w, steps)
         IN  /\ r \in Replays(X) /\ Sound(r.env, X) /\ r.env.start = w
             /\ r.reason = "NONE" => r.env.history = prefix /\ r.count = Len(prefix)
<1>1. /\ steps \in Seq(ReplayedSteps) /\ prefix \in Seq(Actions) /\ Len(steps) = Len(prefix)
      /\ Len(prefix) \in Nat /\ Len(prefix) \in 0..Len(prefix)
  BY DEF StepsAlong
<1>2. PICK f : /\ f[0] = Fresh(w) /\ f[Len(steps)] = Replayed(w, steps)
               /\ \A i \in 1..Len(steps) : f[i] = ReplayStep(f[i - 1], steps[i])
  BY <1>1, ReplayTrace
<1>3. GoneThrough(f[Len(prefix)], Len(prefix), w, prefix, X)
  BY <1>1, <1>2, ReplayFollowsThePrefix
<1>4. SubSeq(prefix, 1, Len(prefix)) = prefix
  BY <1>1, SubSeqFull
<1> QED
  BY <1>1, <1>2, <1>3, <1>4 DEF GoneThrough

\* A view of the state that the emulator is in is never found to differ from it.
LEMMA SameStateSameView ==
  ASSUME NEW e, NEW expected,
         expected.score = Score[e.world], expected.inventory = Inventory[e.world],
         ReadsObservation => expected.observation = Observation[e.world]
  PROVE  DivergenceReason(e, expected) = "NONE"
<1> DEFINE actual == Capture(e, expected.observation).last
<1>1. actual = [observation |-> IF ReadsObservation THEN Observation[e.world]
                                ELSE IF expected.observation # EmptyText
                                THEN expected.observation ELSE e.last.observation,
                inventory |-> Inventory[e.world], score |-> Score[e.world],
                done |-> e.last.done]
  BY DEF Capture
<1>2. actual.score = expected.score /\ actual.inventory = expected.inventory
  BY <1>1
<1>3. TextsMatch(expected.observation, actual.observation)
  BY <1>1 DEF TextsMatch
<1> HIDE DEF actual
<1>4. TextsMatch(expected.inventory, actual.inventory)
  BY <1>2 DEF TextsMatch
<1> QED
  BY <1>2, <1>3, <1>4 DEF DivergenceReason, actual

\* What a validation that finds nothing has compared.
LEMMA NoneMeansAlike ==
  ASSUME NEW e, NEW expected, DivergenceReason(e, expected) = "NONE"
  PROVE  /\ Score[e.world] = expected.score
         /\ InventoryComparable(Inventory[e.world], expected.inventory)
              => TextsMatch(Inventory[e.world], expected.inventory)
         /\ ReadsObservation => TextsMatch(Observation[e.world], expected.observation)
<1> DEFINE actual == Capture(e, expected.observation).last
<1>1. actual = [observation |-> IF ReadsObservation THEN Observation[e.world]
                                ELSE IF expected.observation # EmptyText
                                THEN expected.observation ELSE e.last.observation,
                inventory |-> Inventory[e.world], score |-> Score[e.world],
                done |-> e.last.done]
  BY DEF Capture
<1>2. /\ actual.score = Score[e.world] /\ actual.inventory = Inventory[e.world]
      /\ ReadsObservation => actual.observation = Observation[e.world]
  BY <1>1
<1> HIDE DEF actual
<1>3. /\ actual.score = expected.score
      /\ TextsMatch(expected.observation, actual.observation)
      /\ InventoryComparable(expected.inventory, actual.inventory)
           => TextsMatch(expected.inventory, actual.inventory)
  BY DEF DivergenceReason, actual
<1> QED
  BY <1>2, <1>3 DEF TextsMatch, InventoryComparable

\* The expectations of the steps are those of a run that began in w.
RecordedFrom(steps, w, prefix) ==
  \A i \in 1..Len(prefix) :
    steps[i].checked => steps[i].view = View(Play(w, SubSeq(prefix, 1, i)))

RaisesAlong(w, prefix) ==
  \E i \in 1..Len(prefix) : <<Play(w, SubSeq(prefix, 1, i - 1)), prefix[i]>> \in Raises

\* A replay from the reset that the steps were recorded from only fails where an
\* action raises.
LEMMA FaithfulReplay ==
  ASSUME NEW X, TextsIn(X), NEW w \in Starts, NEW prefix, NEW steps, StepsAlong(steps, prefix),
         RecordedFrom(steps, w, prefix), Replayed(w, steps).reason # "NONE"
  PROVE  RaisesAlong(w, prefix)
<1> DEFINE n == Len(prefix)
<1>1. /\ steps \in Seq(ReplayedSteps) /\ prefix \in Seq(Actions) /\ Len(steps) = n /\ n \in Nat
      /\ \A i \in 1..n : steps[i] \in ReplayedSteps /\ steps[i].action = prefix[i]
  BY DEF StepsAlong
<1>2. PICK f : /\ f[0] = Fresh(w) /\ f[n] = Replayed(w, steps)
               /\ \A i \in 1..n : f[i] = ReplayStep(f[i - 1], steps[i])
  BY <1>1, ReplayTrace
<1>3. \A i \in 0..n : GoneThrough(f[i], i, w, prefix, X)
  BY <1>1, <1>2, ReplayFollowsThePrefix
<1> SUFFICES ASSUME ~RaisesAlong(w, prefix) PROVE FALSE
  OBVIOUS
<1> DEFINE S == {i \in 0..n : f[i].reason = "NONE"}
<1>4. 0 \in S
  BY <1>1, <1>2 DEF Fresh
<1>5. ASSUME NEW i \in 1..n, i - 1 \in S PROVE i \in S
  <2> DEFINE acc == f[i - 1]
             next == f[i]
             step == steps[i]
             before == SubSeq(prefix, 1, i - 1)
             stepped == EnvStep(acc.env, step.action)
  <2>1. /\ i \in 0..n /\ i - 1 \in 0..n /\ before \in Seq(Actions) /\ prefix[i] \in Actions
        /\ SubSeq(prefix, 1, i) = Append(before, prefix[i])
    BY <1>1
  <2>2. /\ acc \in Replays(X) /\ acc.reason = "NONE" /\ acc.env.start = w
        /\ acc.env.history = before /\ Explained(acc.env)
    BY <1>3, <1>5, <2>1 DEF GoneThrough, Sound
  <2>3. next = ReplayStep(acc, step) /\ step \in ReplayedSteps /\ step.action = prefix[i]
    BY <1>1, <1>2
  <2>4. acc.env.world = Play(w, before)
    BY <2>2 DEF Explained
  <2>5. <<acc.env.world, step.action>> \notin Raises
    BY <2>3, <2>4 DEF RaisesAlong
  <2>6. acc.env \in Wrappers(X)
    BY <2>2 DEF Replays
  <2>7. stepped.world = Play(w, SubSeq(prefix, 1, i))
    <3>1. stepped.world = Move[<<acc.env.world, prefix[i]>>]
      BY <2>1, <2>3, <2>6, StepIsSound
    <3>2. w \in Worlds
      BY GameAssumption DEF GameAssumption
    <3>3. Play(w, Append(before, prefix[i])) = Move[<<Play(w, before), prefix[i]>>]
      <4> HIDE DEF before
      <4> QED
        BY <2>1, <3>2, PlayAppend
    <3> QED
      BY <2>1, <2>4, <3>1, <3>3
  <2>8. step.checked => DivergenceReason(stepped, step.view) = "NONE"
    <3> SUFFICES ASSUME step.checked PROVE DivergenceReason(stepped, step.view) = "NONE"
      OBVIOUS
    <3>1. step.view = View(stepped.world)
      BY <2>7 DEF RecordedFrom
    <3> HIDE DEF stepped, step
    <3>2. /\ step.view.score = Score[stepped.world]
          /\ step.view.inventory = Inventory[stepped.world]
          /\ step.view.observation = Observation[stepped.world]
      BY <3>1 DEF View
    <3> QED
      BY <3>2, SameStateSameView
  <2>9. next.reason = IF step.checked THEN DivergenceReason(stepped, step.view) ELSE "NONE"
    <3> HIDE DEF acc, next, step
    <3> QED
      BY <2>2, <2>3, <2>5, ReplayStepIsSound DEF stepped
  <2> QED
    BY <2>1, <2>8, <2>9
<1>6. n \in S
  <2> HIDE DEF S, n
  <2>1. 0..n \subseteq S
    BY <1>1, <1>4, <1>5, IntervalInduct
  <2> QED
    BY <1>1, <2>1
<1> QED
  BY <1>2, <1>6

\* The steps that ReplaySession recorded, and those that only the actions are
\* known of, play the prefix of the node and expect what its run saw.
LEMMA StepsOfTheNode ==
  ASSUME NEW node, node.prefix \in Seq(Actions), node.start \in Worlds,
         NEW steps \in {RecordedSteps(node), UnrecordedSteps(node)}
  PROVE  StepsAlong(steps, node.prefix) /\ RecordedFrom(steps, node.start, node.prefix)
<1> DEFINE p == node.prefix
           w == node.start
           n == Len(p)
<1>1. p \in Seq(Actions) /\ w \in Worlds /\ n \in Nat /\ \A i \in 1..n : p[i] \in Actions
  OBVIOUS
<1>2. ASSUME NEW i \in 1..n
      PROVE  /\ Play(w, SubSeq(p, 1, i - 1)) \in Worlds
             /\ Move[<<Play(w, SubSeq(p, 1, i - 1)), p[i]>>] = Play(w, SubSeq(p, 1, i))
  <2> DEFINE before == SubSeq(p, 1, i - 1)
  <2>1. before \in Seq(Actions) /\ p[i] \in Actions /\ SubSeq(p, 1, i) = Append(before, p[i])
    BY <1>1
  <2> HIDE DEF before
  <2>2. Play(w, before) \in Worlds
    BY <1>1, <2>1, PlayTyped
  <2>3. Play(w, Append(before, p[i])) = Move[<<Play(w, before), p[i]>>]
    BY <1>1, <2>1, PlayAppend
  <2> QED
    BY <2>1, <2>2, <2>3 DEF before
<1>3. CASE steps = RecordedSteps(node)
  <2>1. ASSUME NEW i \in 1..n
        PROVE  /\ steps[i] = Recorded(Play(w, SubSeq(p, 1, i - 1)), p[i])
               /\ steps[i] \in ReplayedSteps
               /\ steps[i].action = p[i]
               /\ steps[i].view = View(Play(w, SubSeq(p, 1, i)))
    <3>1. steps[i] = Recorded(Play(w, SubSeq(p, 1, i - 1)), p[i])
      BY <1>3 DEF RecordedSteps
    <3>2. steps[i] \in ReplayedSteps
      <4> DEFINE v == Play(w, SubSeq(p, 1, i - 1))
      <4>1. v \in Worlds /\ p[i] \in Actions
        BY <1>1, <1>2
      <4> HIDE DEF v
      <4>2. Recorded(v, p[i]) \in {Recorded(u, a) : u \in Worlds, a \in Actions}
        BY <4>1
      <4> QED
        BY <3>1, <4>2 DEF ReplayedSteps, v
    <3> QED
      BY <1>2, <3>1, <3>2 DEF Recorded
  <2>2. steps \in Seq(ReplayedSteps) /\ Len(steps) = n
    <3>1. steps = [i \in 1..n |-> steps[i]]
      BY <1>3 DEF RecordedSteps
    <3>2. \A i \in 1..n : steps[i] \in ReplayedSteps
      BY <2>1
    <3>3. steps \in [1..n -> ReplayedSteps]
      BY <3>1, <3>2
    <3> QED
      BY <1>1, <3>3, FunctionIsSeq
  <2> QED
    BY <1>1, <2>1, <2>2 DEF StepsAlong, RecordedFrom
<1>4. CASE steps = UnrecordedSteps(node)
  <2>1. ASSUME NEW i \in 1..n
        PROVE  steps[i] \in ReplayedSteps /\ steps[i].action = p[i] /\ ~steps[i].checked
    <3>1. steps[i] = Unrecorded(p[i])
      BY <1>4 DEF UnrecordedSteps
    <3>2. p[i] \in Actions
      BY <1>1
    <3>3. Unrecorded(p[i]) \in {Unrecorded(a) : a \in Actions}
      BY <3>2
    <3>4. steps[i].action = p[i] /\ ~steps[i].checked
      BY <3>1 DEF Unrecorded
    <3> QED
      BY <3>1, <3>3, <3>4 DEF ReplayedSteps
  <2>2. steps \in Seq(ReplayedSteps) /\ Len(steps) = n
    <3>1. steps = [i \in 1..n |-> steps[i]]
      BY <1>4 DEF UnrecordedSteps
    <3>2. \A i \in 1..n : steps[i] \in ReplayedSteps
      BY <2>1
    <3>3. steps \in [1..n -> ReplayedSteps]
      BY <3>1, <3>2
    <3> QED
      BY <1>1, <3>3, FunctionIsSeq
  <2> QED
    BY <1>1, <2>1, <2>2 DEF StepsAlong, RecordedFrom
<1> QED
  BY <1>3, <1>4

\* A node of the state just seen.
LEMMA NodeAtIsSound ==
  ASSUME NEW X, NEW e, Sound(e, X), NEW native \in {e.world, NoNative},
         NEW stepIndex \in Nat \cup {-1}
  PROVE  SoundNode(NodeAt(e, native, stepIndex), X)
<1> DEFINE node == NodeAt(e, native, stepIndex)
<1>1. /\ e.world \in Worlds /\ e.start \in Starts /\ e.history \in Seq(Actions)
      /\ e.last \in LastStates(X)
  BY DEF Sound, Wrappers
<1>2. e.last.observation \in X /\ e.last.inventory \in X /\ e.last.score \in Int
  BY <1>1 DEF LastStates
<1>3. node = [native |-> native, prefix |-> e.history, stepIndex |-> stepIndex,
              observation |-> e.last.observation, inventory |-> e.last.inventory,
              score |-> e.last.score, world |-> e.world, start |-> e.start]
  BY DEF NodeAt
<1> HIDE DEF node
<1>4. node \in Nodes(X)
  BY <1>1, <1>2, <1>3 DEF Nodes
<1>5. /\ node.world = e.world /\ node.native = native /\ node.start = e.start
      /\ node.prefix = e.history /\ node.observation = e.last.observation
      /\ node.inventory = e.last.inventory /\ node.score = e.last.score
  BY <1>3
<1>6. Explained(e) /\ SeesTheWorld(e)
  BY DEF Sound
<1> QED
  BY <1>4, <1>5, <1>6 DEF SoundNode, Explained, SeesTheWorld, node

\* A native snapshot that set_state() accepts.
LEMMA SetNativeFacts ==
  ASSUME NEW X, NEW e \in Wrappers(X), NEW node \in Nodes(X), node.native # NoNative
  PROVE  /\ SetNative(e, node) \in Wrappers(X)
         /\ SetNative(e, node).history = node.prefix
         /\ SetNative(e, node).start = node.start
         /\ SetNative(e, node).world = node.native
<1> DEFINE f == SetNative(e, node)
<1>1. /\ node.native \in Worlds /\ node.start \in Starts
      /\ node.prefix \in Seq(Actions) /\ node.stepIndex + 1 \in Nat
  BY DEF Nodes
<1>2. e = [world |-> e.world, start |-> e.start, history |-> e.history,
           stepIndex |-> e.stepIndex, last |-> e.last] /\ e.last \in LastStates(X)
  BY DEF Wrappers
<1>3. f = [e EXCEPT !.world = node.native, !.start = node.start, !.history = node.prefix,
                    !.stepIndex = node.stepIndex + 1]
  BY DEF SetNative
<1> HIDE DEF f
<1>4. f = [world |-> node.native, start |-> node.start, history |-> node.prefix,
           stepIndex |-> node.stepIndex + 1, last |-> e.last]
  BY <1>1, <1>2, <1>3
<1>5. f \in Wrappers(X)
  BY <1>1, <1>2, <1>4 DEF Wrappers
<1>6. f.world = node.native /\ f.start = node.start /\ f.history = node.prefix
  BY <1>4
<1> QED
  BY <1>5, <1>6 DEF f

\* It is the state of the node.
LEMMA SetNativeIsSound ==
  ASSUME NEW X, NEW e \in Wrappers(X), NEW node, SoundNode(node, X), node.native # NoNative
  PROVE  /\ SetNative(e, node) \in Wrappers(X) /\ Explained(SetNative(e, node))
         /\ SetNative(e, node).history = node.prefix
         /\ SetNative(e, node).start = node.start
         /\ SetNative(e, node).world = node.world
<1> DEFINE f == SetNative(e, node)
<1>1. /\ node \in Nodes(X) /\ node.native = node.world
      /\ node.world = Play(node.start, node.prefix)
  BY DEF SoundNode
<1>2. /\ f \in Wrappers(X) /\ f.history = node.prefix /\ f.start = node.start
      /\ f.world = node.native
  BY <1>1, SetNativeFacts
<1> HIDE DEF f
<1>3. Explained(f)
  BY <1>1, <1>2 DEF Explained
<1> QED
  BY <1>1, <1>2, <1>3 DEF f

\* The wrapper is at the node as far as it can tell.
AtTheNode(e, node) ==
  /\ e.history = node.prefix
  /\ Score[e.world] = node.score
  /\ InventoryComparable(Inventory[e.world], node.inventory)
       => TextsMatch(Inventory[e.world], node.inventory)
  /\ ReadsObservation => TextsMatch(Observation[e.world], node.observation)

\* What is known of an outcome of a restore.
Restored(outcome, node, X) ==
  /\ Sound(outcome.env, X)
  /\ outcome.result.node = node
  /\ outcome.result.mode \in {"FAILED", "RESET_ONLY", "ACTION_REPLAY_FALLBACK", "NATIVE_SNAPSHOT"}
  /\ outcome.result.success = (outcome.result.mode # "FAILED")
  /\ outcome.result.from = outcome.env.start
  /\ outcome.result.success => AtTheNode(outcome.env, node)
  /\ outcome.result.mode = "NATIVE_SNAPSHOT" => outcome.env.world = node.world
  /\ outcome.result.mode = "FAILED" /\ outcome.env.start = node.start
       => RaisesAlong(node.start, node.prefix)

\* The fields of an outcome.
LEMMA OutcomeFields ==
  ASSUME NEW e, NEW node, NEW mode, NEW reason, NEW count
  PROVE  LET outcome == Outcome(e, node, mode, reason, count)
         IN  /\ outcome.env = e
             /\ outcome.result.node = node
             /\ outcome.result.mode = mode
             /\ outcome.result.success = (mode # "FAILED")
             /\ outcome.result.from = IF mode = "NATIVE_SNAPSHOT" THEN node.start ELSE e.start
BY DEF Outcome

\* A native snapshot that validates.
LEMMA NativeIsRestored ==
  ASSUME NEW X, TextsIn(X), NEW e \in Wrappers(X), NEW node, SoundNode(node, X),
         node.native # NoNative, DivergenceReason(SetNative(e, node), node) = "NONE"
  PROVE  Restored(Outcome(Capture(SetNative(e, node), node.observation), node,
                          "NATIVE_SNAPSHOT", "NONE", 0), node, X)
<1> DEFINE native == SetNative(e, node)
           captured == Capture(native, node.observation)
           outcome == Outcome(captured, node, "NATIVE_SNAPSHOT", "NONE", 0)
<1>1. /\ native \in Wrappers(X) /\ Explained(native) /\ native.history = node.prefix
      /\ native.start = node.start /\ native.world = node.world
  BY SetNativeIsSound
<1>2. AtTheNode(native, node)
  <2> HIDE DEF native
  <2> QED
    BY <1>1, NoneMeansAlike DEF AtTheNode, native
<1>3. node.observation \in X
  BY DEF SoundNode, Nodes
<1> HIDE DEF native
<1>4. /\ captured \in Wrappers(X) /\ Explained(captured) /\ SeesTheWorld(captured)
      /\ captured.history = native.history /\ captured.start = native.start
      /\ captured.world = native.world
  BY <1>1, <1>3, CaptureIsSound
<1> HIDE DEF captured
<1>5. /\ outcome.env = captured /\ outcome.result.node = node
      /\ outcome.result.mode = "NATIVE_SNAPSHOT" 
      /\ outcome.result.success = (outcome.result.mode # "FAILED")
      /\ outcome.result.from = node.start
  BY OutcomeFields
<1> HIDE DEF outcome
<1>6. Sound(captured, X) /\ AtTheNode(captured, node)
  BY <1>2, <1>4 DEF Sound, AtTheNode
<1>7. Restored(outcome, node, X)
  BY <1>1, <1>4, <1>5, <1>6 DEF Restored
<1> QED
  BY <1>7 DEF outcome, captured, native

\* A replay of the node from a reset.
LEMMA ReplayIsRestored ==
  ASSUME NEW X, TextsIn(X), NEW node, SoundNode(node, X), NEW w \in Starts,
         NEW steps, StepsAlong(steps, node.prefix), RecordedFrom(steps, node.start, node.prefix)
  PROVE  Restored(ReplayOutcome(w, node, steps), node, X)
<1> DEFINE r == Replayed(w, steps)
           reason == DivergenceReason(r.env, node)
           mode == IF reason # "NONE" THEN "FAILED"
                   ELSE IF node.prefix = << >> THEN "RESET_ONLY" ELSE "ACTION_REPLAY_FALLBACK"
           captured == Capture(r.env, node.observation)
           stopped == Outcome(r.env, node, "FAILED", r.reason, r.count)
           finished == Outcome(captured, node, mode, reason, r.count)
<1>1. /\ r \in Replays(X) /\ Sound(r.env, X) /\ r.env.start = w
      /\ r.reason = "NONE" => r.env.history = node.prefix
  BY ReplayedIsSound
<1>2. node.start \in Starts /\ node.observation \in X
  BY DEF SoundNode, Nodes
<1>3. ReplayOutcome(w, node, steps) = IF r.reason # "NONE" THEN stopped ELSE finished
  BY DEF ReplayOutcome
<1>4. CASE r.reason # "NONE"
  <2>1. w = node.start => RaisesAlong(node.start, node.prefix)
    BY <1>2, <1>4, FaithfulReplay
  <2> HIDE DEF r
  <2>2. /\ stopped.env = r.env /\ stopped.result.node = node /\ stopped.result.mode = "FAILED"
        /\ stopped.result.success = (stopped.result.mode # "FAILED")
        /\ stopped.result.from = r.env.start
    BY OutcomeFields
  <2> HIDE DEF stopped
  <2>3. Restored(stopped, node, X)
    BY <1>1, <2>1, <2>2 DEF Restored
  <2> HIDE DEF finished
  <2> QED
    BY <1>3, <1>4, <2>3
<1>5. CASE r.reason = "NONE"
  <2> HIDE DEF r
  <2>1. /\ captured \in Wrappers(X) /\ Explained(captured) /\ SeesTheWorld(captured)
        /\ captured.history = r.env.history /\ captured.start = r.env.start
        /\ captured.world = r.env.world
    BY <1>1, <1>2, CaptureIsSound DEF Sound
  <2>2. ASSUME w = node.start PROVE reason = "NONE"
    <3>1. r.env.world = node.world
      BY <1>1, <1>5, <2>2 DEF Sound, Explained, SoundNode
    <3>2. /\ node.score = Score[r.env.world] /\ node.inventory = Inventory[r.env.world]
          /\ ReadsObservation => node.observation = Observation[r.env.world]
      BY <3>1 DEF SoundNode
    <3> QED
      BY <3>2, SameStateSameView
  <2>3. reason = "NONE" => AtTheNode(captured, node)
    BY <1>1, <1>5, <2>1, NoneMeansAlike DEF AtTheNode
  <2> HIDE DEF reason
  <2>4. /\ mode \in {"FAILED", "RESET_ONLY", "ACTION_REPLAY_FALLBACK"}
        /\ mode # "FAILED" => reason = "NONE"
        /\ mode = "FAILED" => reason # "NONE"
    OBVIOUS
  <2> HIDE DEF mode, captured
  <2>5. /\ finished.env = captured /\ finished.result.node = node
        /\ finished.result.mode = mode /\ finished.result.success = (mode # "FAILED")
        /\ finished.result.from = captured.start
    BY <2>4, OutcomeFields
  <2> HIDE DEF finished
  <2>6. Sound(captured, X)
    BY <2>1 DEF Sound
  <2>7. Restored(finished, node, X)
    BY <1>1, <2>1, <2>2, <2>3, <2>4, <2>5, <2>6 DEF Restored
  <2> QED
    BY <1>3, <1>5, <2>7
<1> QED
  BY <1>4, <1>5

\* Whatever restore_saved_node returns, the wrapper is in order, a success is at
\* the node, and a replay from where the node's own run began only fails where an
\* action raises.
THEOREM RestoreIsSound ==
  ASSUME NEW X, TextsIn(X), NEW e \in Wrappers(X), NEW node, SoundNode(node, X),
         NEW steps \in {RecordedSteps(node), UnrecordedSteps(node)},
         NEW outcome \in RestoreOutcomes(e, node, steps)
  PROVE  Restored(outcome, node, X)
<1>1. node.prefix \in Seq(Actions) /\ node.start \in Worlds
  BY GameAssumption DEF SoundNode, Nodes, GameAssumption
<1>2. StepsAlong(steps, node.prefix) /\ RecordedFrom(steps, node.start, node.prefix)
  BY <1>1, StepsOfTheNode
<1>3. CASE \E w \in Starts : outcome = ReplayOutcome(w, node, steps)
  BY <1>2, <1>3, ReplayIsRestored
<1>4. CASE /\ node.native # NoNative /\ DivergenceReason(SetNative(e, node), node) = "NONE"
           /\ outcome = Outcome(Capture(SetNative(e, node), node.observation), node,
                                "NATIVE_SNAPSHOT", "NONE", 0)
  BY <1>4, NativeIsRestored
<1> QED
  BY <1>3, <1>4 DEF RestoreOutcomes

\* restore_snapshot of the wrapper leaves it in order, with the history of the
\* snapshot, although nothing is compared.
THEOREM SnapshotRestoreIsSound ==
  ASSUME NEW X, TextsIn(X), NEW e \in Wrappers(X), NEW node, SoundNode(node, X),
         NEW restored \in SnapshotOutcomes(e, node)
  PROVE  Sound(restored, X) /\ restored.history = node.prefix
<1>1. node.prefix \in Seq(Actions) /\ node.start \in Worlds /\ node.observation \in X
  BY GameAssumption DEF SoundNode, Nodes, GameAssumption
<1>2. CASE \E w \in Starts : /\ Replayed(w, UnrecordedSteps(node)).reason = "NONE"
                             /\ restored = Replayed(w, UnrecordedSteps(node)).env
  <2>1. StepsAlong(UnrecordedSteps(node), node.prefix)
    BY <1>1, StepsOfTheNode
  <2> QED
    BY <1>2, <2>1, ReplayedIsSound
<1>3. CASE /\ node.native # NoNative
           /\ restored = Capture(SetNative(e, node), node.observation)
  <2> DEFINE native == SetNative(e, node)
  <2>1. native \in Wrappers(X) /\ Explained(native) /\ native.history = node.prefix
    BY <1>3, SetNativeIsSound
  <2>2. restored = Capture(native, node.observation)
    BY <1>3
  <2> HIDE DEF native
  <2> QED
    BY <1>1, <2>1, <2>2, CaptureIsSound DEF Sound
<1> QED
  BY <1>2, <1>3 DEF SnapshotOutcomes

-----------------------------------------------------------------------------
(* The step index of the wrapper and the actions of its history. *)

\* How far the step index runs ahead of the history.
Drift(e) == e.stepIndex - Len(e.history)

\* A step counts and records one action.
LEMMA StepKeepsDrift ==
  ASSUME NEW X, NEW e \in Wrappers(X), NEW a \in Actions
  PROVE  Drift(EnvStep(e, a)) = Drift(e)
<1>1. e.history \in Seq(Actions) /\ e.stepIndex \in Nat
  BY DEF Wrappers
<1>2. /\ EnvStep(e, a).stepIndex = e.stepIndex + 1
      /\ EnvStep(e, a).history = Append(e.history, a)
  BY DEF EnvStep, Wrappers
<1>3. Len(Append(e.history, a)) = Len(e.history) + 1 /\ Len(e.history) \in Nat
  BY <1>1
<1> QED
  BY <1>1, <1>2, <1>3 DEF Drift

\* A look at the state changes neither.
LEMMA CaptureKeepsDrift ==
  ASSUME NEW X, NEW e \in Wrappers(X), NEW text
  PROVE  Drift(Capture(e, text)) = Drift(e)
BY DEF Drift, Capture, Wrappers

\* A replay from a reset counts the actions that it records.
LEMMA ReplayHasNoDrift ==
  ASSUME NEW X, TextsIn(X), NEW w \in Starts, NEW s \in Seq(ReplayedSteps)
  PROVE  Replayed(w, s) \in Replays(X) /\ Drift(Replayed(w, s).env) = 0
<1> DEFINE T == {acc \in Replays(X) : Drift(acc.env) = 0}
<1>1. PICK f \in [0..Len(s) -> Replays(X)] :
               /\ f[0] = Fresh(w) /\ f[Len(s)] = Replayed(w, s)
               /\ \A i \in 1..Len(s) : f[i] = ReplayStep(f[i - 1], s[i])
  BY ReplayTrace
<1>2. Len(s) \in Nat /\ \A i \in 1..Len(s) : s[i] \in ReplayedSteps
  OBVIOUS
<1>3. f[0] \in T
  BY <1>1, FreshTyped DEF Fresh, EnvReset, Drift
<1>4. ASSUME NEW acc \in T, NEW step \in ReplayedSteps PROVE ReplayStep(acc, step) \in T
  <2> DEFINE e == acc.env
             stepped == EnvStep(e, step.action)
             captured == Capture(stepped, step.view.observation)
  <2>1. acc \in Replays(X) /\ e \in Wrappers(X) /\ Drift(e) = 0
    BY DEF Replays
  <2>2. step.action \in Actions /\ (step.checked => step.view.observation \in X)
    BY ReplayedStepTyped
  <2>3. stepped \in Wrappers(X) /\ Drift(stepped) = 0
    BY <2>1, <2>2, StepIsSound, StepKeepsDrift
  <2>4. Drift(captured) = 0
    <3> HIDE DEF stepped
    <3> QED
      BY <2>3, CaptureKeepsDrift
  <2>5. ReplayStep(acc, step) \in Replays(X)
    BY <2>1, ReplayStepTyped
  <2>6. ReplayStep(acc, step).env \in {e, stepped, captured}
    <3>1. CASE acc.reason # "NONE"
      BY <3>1 DEF ReplayStep
    <3>2. CASE acc.reason = "NONE" /\ <<e.world, step.action>> \in Raises
      BY <2>1, <3>2 DEF ReplayStep, Replays
    <3>3. CASE acc.reason = "NONE" /\ <<e.world, step.action>> \notin Raises
      BY <3>3 DEF ReplayStep
    <3> QED
      BY <3>1, <3>2, <3>3
  <2> HIDE DEF e, stepped, captured
  <2> QED
    BY <2>1, <2>3, <2>4, <2>5, <2>6
<1>5. \A i \in 1..Len(s) : f[i - 1] \in T => f[i] \in T
  <2> HIDE DEF T
  <2> QED
    BY <1>1, <1>2, <1>4
<1>6. \A i \in 0..Len(s) : f[i] \in T
  <2> HIDE DEF T
  <2> QED
    BY <1>2, <1>3, <1>5, TraceInvariant
<1> QED
  BY <1>1, <1>2, <1>6

\* A native restore counts one step more than the snapshot did.
LEMMA SetNativeDrift ==
  ASSUME NEW X, NEW e \in Wrappers(X), NEW node, SoundNode(node, X), node.native # NoNative
  PROVE  Drift(Capture(SetNative(e, node), node.observation))
           = node.stepIndex + 1 - Len(node.prefix)
<1> DEFINE native == SetNative(e, node)
<1>1. node \in Nodes(X)
  BY DEF SoundNode
<1>2. native \in Wrappers(X) /\ native.history = node.prefix
  BY <1>1, SetNativeFacts
<1>3. native.stepIndex = node.stepIndex + 1
  BY DEF SetNative, Wrappers
<1> HIDE DEF native
<1>4. Drift(native) = node.stepIndex + 1 - Len(node.prefix)
  <2>1. Drift(native) = native.stepIndex - Len(native.history)
    BY DEF Drift
  <2>2. node.stepIndex \in Int /\ Len(node.prefix) \in Nat
    BY <1>1 DEF Nodes
  <2> QED
    BY <1>2, <1>3, <2>1, <2>2
<1> QED
  BY <1>2, <1>4, CaptureKeepsDrift DEF native

\* A restore leaves the step index with the history, or one further ahead than the
\* one of the node was.
LEMMA RestoreDrift ==
  ASSUME NEW X, TextsIn(X), NEW e \in Wrappers(X), NEW node, SoundNode(node, X),
         NEW steps \in {RecordedSteps(node), UnrecordedSteps(node)},
         NEW outcome \in RestoreOutcomes(e, node, steps)
  PROVE  Drift(outcome.env) \in {0, node.stepIndex + 1 - Len(node.prefix)}
<1>1. node.prefix \in Seq(Actions) /\ node.start \in Worlds /\ node.observation \in X
  BY GameAssumption DEF SoundNode, Nodes, GameAssumption
<1>2. StepsAlong(steps, node.prefix)
  BY <1>1, StepsOfTheNode
<1>3. ASSUME NEW w \in Starts, outcome = ReplayOutcome(w, node, steps)
      PROVE  Drift(outcome.env) = 0
  <2> DEFINE r == Replayed(w, steps)
             captured == Capture(r.env, node.observation)
  <2>1. r \in Replays(X) /\ r.env \in Wrappers(X) /\ Drift(r.env) = 0
    BY <1>2, ReplayHasNoDrift DEF StepsAlong, Replays
  <2>2. Drift(captured) = 0
    <3> HIDE DEF r
    <3> QED
      BY <2>1, CaptureKeepsDrift
  <2>3. outcome.env \in {r.env, captured}
    BY <1>3, OutcomeFields DEF ReplayOutcome
  <2> HIDE DEF r, captured
  <2> QED
    BY <2>1, <2>2, <2>3
<1>4. ASSUME node.native # NoNative,
             outcome = Outcome(Capture(SetNative(e, node), node.observation), node,
                               "NATIVE_SNAPSHOT", "NONE", 0)
      PROVE  Drift(outcome.env) = node.stepIndex + 1 - Len(node.prefix)
  <2>1. outcome.env = Capture(SetNative(e, node), node.observation)
    BY <1>4, OutcomeFields
  <2> QED
    BY <1>4, <2>1, SetNativeDrift
<1> QED
  BY <1>3, <1>4 DEF RestoreOutcomes

\* So does the restore of a snapshot.
LEMMA SnapshotDrift ==
  ASSUME NEW X, TextsIn(X), NEW e \in Wrappers(X), NEW node, SoundNode(node, X),
         NEW restored \in SnapshotOutcomes(e, node)
  PROVE  Drift(restored) \in {0, node.stepIndex + 1 - Len(node.prefix)}
<1>1. node.prefix \in Seq(Actions) /\ node.start \in Worlds
  BY GameAssumption DEF SoundNode, Nodes, GameAssumption
<1>2. StepsAlong(UnrecordedSteps(node), node.prefix)
  BY <1>1, StepsOfTheNode
<1>3. ASSUME NEW w \in Starts, restored = Replayed(w, UnrecordedSteps(node)).env
      PROVE  Drift(restored) = 0
  BY <1>2, <1>3, ReplayHasNoDrift DEF StepsAlong
<1>4. ASSUME node.native # NoNative,
             restored = Capture(SetNative(e, node), node.observation)
      PROVE  Drift(restored) = node.stepIndex + 1 - Len(node.prefix)
  BY <1>4, SetNativeDrift
<1> QED
  BY <1>3, <1>4 DEF SnapshotOutcomes

-----------------------------------------------------------------------------
(* Nodes that need not be true of their machine state: the summaries of an   *)
(* archived state, or a payload that came with other actions.                *)

\* A native snapshot was put back, with whatever actions the node names.
PutBack(e, node) ==
  /\ NativeSnapshots /\ node.native # NoNative /\ e.world = node.native
  /\ e.history = node.prefix /\ e.start = node.start

\* Whatever the node says, a restore leaves a wrapper of the right type that the
\* snapshot was put back in, or whose history explains it, and a success leaves the
\* history of the node.
LEMMA AnyRestore ==
  ASSUME NEW X, TextsIn(X), NEW e \in Wrappers(X), NEW node \in Nodes(X),
         NEW steps \in {RecordedSteps(node), UnrecordedSteps(node)},
         NEW outcome \in RestoreOutcomes(e, node, steps)
  PROVE  /\ outcome.env \in Wrappers(X)
         /\ Explained(outcome.env) \/ PutBack(outcome.env, node)
         /\ SeesTheWorld(outcome.env)
         /\ outcome.result.success => outcome.env.history = node.prefix
<1>1. node.prefix \in Seq(Actions) /\ node.start \in Worlds /\ node.observation \in X
  BY GameAssumption DEF Nodes, GameAssumption
<1>2. StepsAlong(steps, node.prefix)
  BY <1>1, StepsOfTheNode
<1>3. ASSUME NEW w \in Starts, outcome = ReplayOutcome(w, node, steps)
      PROVE  /\ Sound(outcome.env, X)
             /\ outcome.result.success => outcome.env.history = node.prefix
  <2> DEFINE r == Replayed(w, steps)
             reason == DivergenceReason(r.env, node)
             mode == IF reason # "NONE" THEN "FAILED"
                     ELSE IF node.prefix = << >> THEN "RESET_ONLY" ELSE "ACTION_REPLAY_FALLBACK"
             captured == Capture(r.env, node.observation)
             stopped == Outcome(r.env, node, "FAILED", r.reason, r.count)
             finished == Outcome(captured, node, mode, reason, r.count)
  <2>1. /\ Sound(r.env, X)
        /\ r.reason = "NONE" => r.env.history = node.prefix
    BY <1>2, ReplayedIsSound
  <2>2. outcome = IF r.reason # "NONE" THEN stopped ELSE finished
    BY <1>3 DEF ReplayOutcome
  <2> HIDE DEF r
  <2>3. CASE r.reason # "NONE"
    <3>1. /\ stopped.env = r.env /\ stopped.result.mode = "FAILED"
          /\ stopped.result.success = (stopped.result.mode # "FAILED")
      BY OutcomeFields
    <3> HIDE DEF stopped, finished
    <3>2. outcome = stopped
      BY <2>2, <2>3
    <3>3. outcome.env = r.env /\ ~outcome.result.success
      BY <3>1, <3>2
    <3> QED
      BY <2>1, <3>3
  <2>4. CASE r.reason = "NONE"
    <3>1. /\ captured \in Wrappers(X) /\ Explained(captured) /\ SeesTheWorld(captured)
          /\ captured.history = r.env.history
      BY <1>1, <2>1, CaptureIsSound DEF Sound
    <3> HIDE DEF captured, mode, reason
    <3>2. finished.env = captured
      BY OutcomeFields
    <3> HIDE DEF stopped, finished
    <3>3. outcome = finished
      BY <2>2, <2>4
    <3>4. Sound(captured, X) /\ captured.history = node.prefix
      BY <2>1, <2>4, <3>1 DEF Sound
    <3>5. outcome.env = captured
      BY <3>2, <3>3
    <3> QED
      BY <3>4, <3>5
  <2> QED
    BY <2>3, <2>4
<1>4. ASSUME NativeSnapshots, node.native # NoNative,
             outcome = Outcome(Capture(SetNative(e, node), node.observation), node,
                               "NATIVE_SNAPSHOT", "NONE", 0)
      PROVE  /\ outcome.env \in Wrappers(X) /\ PutBack(outcome.env, node)
             /\ SeesTheWorld(outcome.env) /\ outcome.env.history = node.prefix
  <2> DEFINE native == SetNative(e, node)
             captured == Capture(native, node.observation)
  <2>1. /\ native \in Wrappers(X) /\ native.history = node.prefix
        /\ native.start = node.start /\ native.world = node.native
    BY <1>4, SetNativeFacts
  <2> HIDE DEF native
  <2>2. /\ captured \in Wrappers(X) /\ SeesTheWorld(captured)
        /\ captured.history = native.history /\ captured.start = native.start
        /\ captured.world = native.world
    BY <1>1, <2>1, CaptureIsSound
  <2> HIDE DEF captured
  <2>3. outcome.env = captured
    BY <1>4, OutcomeFields DEF captured, native
  <2> QED
    BY <1>4, <2>1, <2>2, <2>3 DEF PutBack
<1>5. CASE \E w \in Starts : outcome = ReplayOutcome(w, node, steps)
  BY <1>3, <1>5 DEF Sound
<1>6. CASE /\ NativeSnapshots /\ node.native # NoNative
           /\ outcome = Outcome(Capture(SetNative(e, node), node.observation), node,
                                "NATIVE_SNAPSHOT", "NONE", 0)
  BY <1>4, <1>6
<1> QED
  BY <1>5, <1>6 DEF RestoreOutcomes

=============================================================================
