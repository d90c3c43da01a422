-------------------------- MODULE LegacyEpisodeProofs --------------------------
(***************************************************************************)
(* Proofs about the legacy loop, for every game and every setting.  The    *)
(* fail-fast counters miss no stalled run of steps, and nothing is planned *)
(* in the steps after a gain: the loop plays one step at a time, so both   *)
(* follow the last steps of the episode backwards from its end.  The       *)
(* frontier keeps its entries apart and loses no kind of state while it    *)
(* has room: its sort lists what it is given, in some order.  And what was *)
(* played is one playthrough, because every node the loop keeps is true of *)
(* the state it was saved in.                                              *)
(***************************************************************************)
EXTENDS LegacyEpisode, SavedNodesProofs

Lists == /\ \E S : views \in Seq(S)
         /\ \E S : acts \in Seq(S)
         /\ Len(views) = Len(acts) + 1

-----------------------------------------------------------------------------
(* Lemmas. *)

\* The last k steps are all in Q, and no longer run of last steps is.
LEMMA LongestRun ==
  ASSUME NEW n \in Nat, NEW k \in 0..n, NEW Q,
         \A i \in (n - k + 1)..n : i \in Q,
         k = n \/ n - k \notin Q
  PROVE  Max({j \in 0..n : \A i \in (n - j + 1)..n : i \in Q}) = k
<1> DEFINE R == {j \in 0..n : \A i \in (n - j + 1)..n : i \in Q}
<1>1. k \in R
  OBVIOUS
<1>2. ASSUME NEW j \in R
      PROVE  j <= k
  <2>1. CASE k = n
    BY <2>1
  <2>2. CASE n - k \notin Q
    <3>1. ~ (n - k \in (n - j + 1)..n)
      BY <2>2
    <3>2. QED BY <3>1
  <2>3. QED BY <2>1, <2>2
<1>3. \A j \in R : (\A y \in R : j >= y) => j = k
  <2>1. ASSUME NEW j \in R, \A y \in R : j >= y
        PROVE  j = k
    <3>1. j >= k /\ j <= k /\ j \in Int /\ k \in Int
      BY <1>1, <1>2, <2>1
    <3>2. QED BY <3>1
  <2>2. QED BY <2>1
<1>4. \A y \in R : k >= y
  BY <1>2
<1> HIDE DEF R
<1>5. Max(R) = k
  BY <1>1, <1>3, <1>4 DEF Max
<1>6. QED BY <1>5 DEF R

\* What a step appends.
LEMMA StepAppends ==
  ASSUME Lists, NEW a, NEW w, views' = Append(views, w), acts' = Append(acts, a)
  PROVE  /\ Lists'
         /\ Len(acts) \in Nat /\ Len(acts') = Len(acts) + 1
         /\ \A i \in 1..Len(acts) : acts'[i] = acts[i] /\ views'[i] = views[i]
                                    /\ views'[i + 1] = views[i + 1]
         /\ acts'[Len(acts) + 1] = a
         /\ views'[Len(acts) + 1] = Current /\ views'[Len(acts) + 2] = w
<1>1. PICK S, T : views \in Seq(S) /\ acts \in Seq(T)
  BY DEF Lists
<1>2. views \in Seq(S \cup {w}) /\ acts \in Seq(T \cup {a})
  BY <1>1
<1>3. views' \in Seq(S \cup {w}) /\ acts' \in Seq(T \cup {a})
  BY <1>2
<1>4. Len(acts) \in Nat /\ Len(views) = Len(acts) + 1
      /\ Len(acts') = Len(acts) + 1 /\ Len(views') = Len(views) + 1
  BY <1>2 DEF Lists
<1>5. \A i \in 1..Len(acts) : acts'[i] = acts[i]
  BY <1>2
<1>6. \A i \in 1..Len(views) : views'[i] = views[i]
  BY <1>2
<1>7. acts'[Len(acts) + 1] = a /\ views'[Len(views) + 1] = w
  BY <1>2
<1>8. views'[Len(views)] = Current
  BY <1>4, <1>6 DEF Current, Last
<1>9. Lists'
  BY <1>3, <1>4 DEF Lists
<1>10. QED BY <1>4, <1>5, <1>6, <1>7, <1>8, <1>9

\* Outside of a real step, the record of the episode stands.
LEMMA OnlyStepsAreRecorded ==
  ASSUME [Next]_vars, ~ \E a \in ActionChoices : TakeStep(a)
  PROVE  /\ UNCHANGED <<views, acts, cooldown, stall, history>>
         /\ phase' = phase \/ phase' \notin {"loop", "act"} \/ (phase = "loop" /\ phase' = "act")
  BY DEF Next, Plan, PlanningRaises, StepRaises, End, vars, progress

-----------------------------------------------------------------------------
(* The fail-fast counters. *)

(***************************************************************************)
(* The inductive invariant: the counters are the lengths of the runs of    *)
(* quiet steps and of quiet movements at the end of the episode, neither   *)
(* of which can be made longer, and the clusters are those the movements   *)
(* led to.  An episode that goes on has not failed fast.                   *)
(***************************************************************************)
QuietRun ==
  /\ stall.quiet \in 0..Len(acts)
  /\ \A i \in (Len(acts) - stall.quiet + 1)..Len(acts) : QuietStep(i)
  /\ stall.quiet = Len(acts) \/ ~ QuietStep(Len(acts) - stall.quiet)

MoveRun ==
  /\ stall.moves \in 0..Len(acts)
  /\ \A i \in (Len(acts) - stall.moves + 1)..Len(acts) : QuietMove(i)
  /\ stall.moves = Len(acts) \/ ~ QuietMove(Len(acts) - stall.moves)

MoveClusters ==
  /\ \E S : stall.clusters \in Seq(S)
  /\ ToSet(stall.clusters) =
       {Cluster[views[i + 1]] : i \in (Len(acts) - stall.moves + 1)..Len(acts)}

GoesOn == phase \in {"loop", "act"} => ~ FailsFast(stall)

StallInv == Lists /\ QuietRun /\ MoveRun /\ MoveClusters /\ GoesOn

\* Nothing was played yet.
LEMMA InitStallInv == Init => StallInv
<1> SUFFICES ASSUME Init PROVE StallInv
  OBVIOUS
<1>1. /\ views = <<SeededStart>> /\ acts = << >> /\ phase = "loop"
      /\ stall = [quiet |-> 0, moves |-> 0, clusters |-> << >>]
  BY DEF Init
<1>2. /\ acts \in Seq({}) /\ views \in Seq({SeededStart}) /\ Len(acts) = 0 /\ Len(views) = 1
      /\ stall.quiet = 0 /\ stall.moves = 0 /\ stall.clusters = << >>
  BY <1>1
<1>3. Lists
  BY <1>2 DEF Lists
<1>4. QuietRun /\ MoveRun
  BY <1>2 DEF QuietRun, MoveRun
<1>5. MoveClusters
  <2>1. << >> \in Seq({}) /\ ToSet(<< >>) = {}
    BY DEF ToSet
  <2>2. QED BY <1>2, <2>1 DEF MoveClusters
<1>6. FailFastNoDurable \in Nat \ {0} /\ FailFastMovement \in Nat \ {0}
  BY LegacyEpisodeAssumption
<1>7. GoesOn
  BY <1>2, <1>6 DEF GoesOn, FailsFast
<1>8. QED BY <1>3, <1>4, <1>5, <1>7 DEF StallInv

\* A step makes a run of last steps longer by one, or ends it.
LEMMA StepStallInv ==
  ASSUME StallInv, NEW a, TakeStep(a)
  PROVE  StallInv'
<1> DEFINE w == EnvStep(env, a).world
           n == Len(acts)
           quiet(i) == ~ DurableProgress(acts'[i], views'[i], views'[i + 1])
           move(i) == quiet(i) /\ acts'[i] \in Movement
<1>1. /\ views' = Append(views, w) /\ acts' = Append(acts, a)
      /\ stall' = Stalled(a, w)
      /\ phase' = IF FailsFast(stall') THEN "over" ELSE "loop"
  BY DEF TakeStep
<1> HIDE DEF w
<1>2. /\ Lists' /\ n \in Nat /\ Len(acts') = n + 1
      /\ \A i \in 1..n : acts'[i] = acts[i] /\ views'[i] = views[i] /\ views'[i + 1] = views[i + 1]
      /\ acts'[n + 1] = a /\ views'[n + 1] = Current /\ views'[n + 2] = w
  BY <1>1, StepAppends DEF StallInv
<1>3. \A i \in 1..n : (quiet(i) <=> QuietStep(i)) /\ (move(i) <=> QuietMove(i))
  BY <1>2 DEF QuietStep, QuietMove
<1>4. /\ quiet(n + 1) <=> ~ DurableProgress(a, Current, w)
      /\ move(n + 1) <=> ~ DurableProgress(a, Current, w) /\ a \in Movement
  <2>1. (n + 1) + 1 = n + 2
    BY <1>2
  <2>2. QED BY <1>2, <2>1
<1>8. ASSUME stall'.quiet \in 0..Len(acts'),
             \A i \in (Len(acts') - stall'.quiet + 1)..Len(acts') : quiet(i),
             stall'.quiet = Len(acts') \/ ~ quiet(Len(acts') - stall'.quiet)
      PROVE  QuietRun'
  BY <1>8 DEF QuietRun, QuietStep
<1>9. ASSUME stall'.moves \in 0..Len(acts'),
             \A i \in (Len(acts') - stall'.moves + 1)..Len(acts') : move(i),
             stall'.moves = Len(acts') \/ ~ move(Len(acts') - stall'.moves)
      PROVE  MoveRun'
  BY <1>9 DEF MoveRun, QuietMove, QuietStep
<1> HIDE DEF quiet, move
<1>5. GoesOn'
  BY <1>1 DEF GoesOn
<1>6. CASE DurableProgress(a, Current, w)
  <2>1. stall'.quiet = 0 /\ stall'.moves = 0 /\ stall'.clusters = << >>
    BY <1>1, <1>6 DEF Stalled
  <2>2. QuietRun' /\ MoveRun'
    <3>1. Len(acts') - 0 = n + 1 /\ ~ quiet(n + 1) /\ ~ move(n + 1)
          /\ 0 \in 0..Len(acts') /\ (Len(acts') - 0 + 1)..Len(acts') = {}
      BY <1>2, <1>4, <1>6
    <3>2. QED BY <1>8, <1>9, <2>1, <3>1
  <2>3. MoveClusters'
    <3>1. << >> \in Seq({}) /\ ToSet(<< >>) = {}
      BY DEF ToSet
    <3>2. QED BY <1>2, <2>1, <3>1 DEF MoveClusters
  <2>4. QED BY <1>2, <1>5, <2>2, <2>3 DEF StallInv
<1>7. CASE ~ DurableProgress(a, Current, w)
  <2>1. /\ stall'.quiet = stall.quiet + 1
        /\ stall'.moves = IF a \in Movement THEN stall.moves + 1 ELSE 0
        /\ stall'.clusters = IF a \in Movement THEN Append(stall.clusters, Cluster[w]) ELSE << >>
    BY <1>1, <1>7 DEF Stalled
  <2>2. QuietRun'
    <3>1. stall'.quiet \in 0..Len(acts')
      BY <1>2, <2>1 DEF StallInv, QuietRun
    <3>2. ASSUME NEW i \in (Len(acts') - stall'.quiet + 1)..Len(acts')
          PROVE  quiet(i)
      <4>1. CASE i = n + 1
        BY <1>4, <1>7, <4>1
      <4>2. CASE i # n + 1
        <5>1. i \in (n - stall.quiet + 1)..n /\ i \in 1..n
          BY <1>2, <2>1, <4>2 DEF StallInv, QuietRun
        <5>2. QED BY <1>3, <5>1 DEF StallInv, QuietRun
      <4>3. QED BY <4>1, <4>2
    <3>3. stall'.quiet = Len(acts') \/ ~ quiet(Len(acts') - stall'.quiet)
      <4>1. CASE stall.quiet = n
        BY <1>2, <2>1, <4>1
      <4>2. CASE stall.quiet # n
        <5>1. /\ n - stall.quiet \in 1..n /\ ~ QuietStep(n - stall.quiet)
              /\ Len(acts') - stall'.quiet = n - stall.quiet
          <6>1. stall.quiet \in 0..n /\ ~ QuietStep(n - stall.quiet)
            BY <4>2 DEF StallInv, QuietRun
          <6>2. n - stall.quiet \in 1..n
            BY <1>2, <4>2, <6>1
          <6>3. Len(acts') - stall'.quiet = n - stall.quiet
            <7>1. Len(acts') = n + 1 /\ stall'.quiet = stall.quiet + 1
              BY <1>2, <2>1
            <7>2. (n + 1) - (stall.quiet + 1) = n - stall.quiet
              BY <1>2, <6>1
            <7>3. QED BY <7>1, <7>2
          <6>4. QED BY <6>1, <6>2, <6>3
        <5>2. ~ quiet(n - stall.quiet)
          BY <1>3, <5>1
        <5>3. QED BY <5>1, <5>2
      <4>3. QED BY <4>1, <4>2
    <3>4. QED BY <1>8, <3>1, <3>2, <3>3
  <2>3. CASE a \in Movement
    <3>1. stall'.moves = stall.moves + 1 /\ stall'.clusters = Append(stall.clusters, Cluster[w])
      BY <2>1, <2>3
    <3>2. MoveRun'
      <4>1. stall'.moves \in 0..Len(acts')
        BY <1>2, <3>1 DEF StallInv, MoveRun
      <4>2. ASSUME NEW i \in (Len(acts') - stall'.moves + 1)..Len(acts')
            PROVE  move(i)
        <5>1. CASE i = n + 1
          BY <1>4, <1>7, <2>3, <5>1
        <5>2. CASE i # n + 1
          <6>1. i \in (n - stall.moves + 1)..n /\ i \in 1..n
            BY <1>2, <3>1, <5>2 DEF StallInv, MoveRun
          <6>2. QED BY <1>3, <6>1 DEF StallInv, MoveRun
        <5>3. QED BY <5>1, <5>2
      <4>3. stall'.moves = Len(acts') \/ ~ move(Len(acts') - stall'.moves)
        <5>1. CASE stall.moves = n
          BY <1>2, <3>1, <5>1
        <5>2. CASE stall.moves # n
          <6>1. /\ n - stall.moves \in 1..n /\ ~ QuietMove(n - stall.moves)
                /\ Len(acts') - stall'.moves = n - stall.moves
            <7>1. stall.moves \in 0..n /\ ~ QuietMove(n - stall.moves)
              BY <5>2 DEF StallInv, MoveRun
            <7>2. n - stall.moves \in 1..n
              BY <1>2, <5>2, <7>1
            <7>3. Len(acts') - stall'.moves = n - stall.moves
              <8>1. Len(acts') = n + 1 /\ stall'.moves = stall.moves + 1
                BY <1>2, <3>1
              <8>2. (n + 1) - (stall.moves + 1) = n - stall.moves
                BY <1>2, <7>1
              <8>3. QED BY <8>1, <8>2
            <7>4. QED BY <7>1, <7>2, <7>3
          <6>2. ~ move(n - stall.moves)
            BY <1>3, <6>1
          <6>3. QED BY <6>1, <6>2
        <5>3. QED BY <5>1, <5>2
      <4>4. QED BY <1>9, <4>1, <4>2, <4>3
    <3>3. MoveClusters'
      <4>1. PICK S : stall.clusters \in Seq(S)
        BY DEF StallInv, MoveClusters
      <4>2. stall.clusters \in Seq(S \cup {Cluster[w]})
        BY <4>1
      <4>3. /\ stall'.clusters \in Seq(S \cup {Cluster[w]})
            /\ ToSet(stall'.clusters) = ToSet(stall.clusters) \cup {Cluster[w]}
        BY <3>1, <4>2 DEF ToSet
      <4>4. stall.moves \in 0..n
        BY DEF StallInv, MoveRun
      <4>5. (Len(acts') - stall'.moves + 1)..Len(acts') = ((n - stall.moves + 1)..n) \cup {n + 1}
        BY <1>2, <3>1, <4>4
      <4>6. \A i \in (n - stall.moves + 1)..n : views'[i + 1] = views[i + 1]
        BY <1>2, <4>4
      <4>7. views'[(n + 1) + 1] = w
        BY <1>2
      <4>8. {Cluster[views'[i + 1]] : i \in ((n - stall.moves + 1)..n) \cup {n + 1}}
              = {Cluster[views[i + 1]] : i \in (n - stall.moves + 1)..n} \cup {Cluster[w]}
        BY <4>6, <4>7
      <4>9. QED BY <4>3, <4>5, <4>8 DEF StallInv, MoveClusters
    <3>4. QED BY <1>2, <1>5, <2>2, <3>2, <3>3 DEF StallInv
  <2>4. CASE a \notin Movement
    <3>1. stall'.moves = 0 /\ stall'.clusters = << >>
      BY <2>1, <2>4
    <3>2. MoveRun'
      <4>1. Len(acts') - 0 = n + 1 /\ ~ move(n + 1)
            /\ 0 \in 0..Len(acts') /\ (Len(acts') - 0 + 1)..Len(acts') = {}
        BY <1>2, <1>4, <2>4
      <4>2. QED BY <1>9, <3>1, <4>1
    <3>3. MoveClusters'
      <4>1. << >> \in Seq({}) /\ ToSet(<< >>) = {}
        BY DEF ToSet
      <4>2. QED BY <1>2, <3>1, <4>1 DEF MoveClusters
    <3>4. QED BY <1>2, <1>5, <2>2, <3>2, <3>3 DEF StallInv
  <2>5. QED BY <2>3, <2>4
<1>10. QED BY <1>6, <1>7

\* Planning, whatever it does to the environment, leaves the counters alone.
LEMMA SpecStallInv == Spec => []StallInv
<1>1. StallInv /\ [Next]_vars => StallInv'
  <2> SUFFICES ASSUME StallInv, [Next]_vars PROVE StallInv'
    OBVIOUS
  <2>1. CASE \E a \in ActionChoices : TakeStep(a)
    BY <2>1, StepStallInv
  <2>2. CASE ~ \E a \in ActionChoices : TakeStep(a)
    <3>1. /\ UNCHANGED <<views, acts, stall>>
          /\ phase' \in {"loop", "act"} => phase \in {"loop", "act"}
      BY <2>2, OnlyStepsAreRecorded
    <3>2. QED
      BY <3>1
      DEF StallInv, Lists, QuietRun, MoveRun, MoveClusters, GoesOn, FailsFast, QuietStep, QuietMove
  <2>3. QED BY <2>1, <2>2
<1>2. QED BY InitStallInv, <1>1, PTL DEF Spec

\* An episode that goes on has made durable progress lately and has not wandered
\* between two regions for long, whatever planning happened in between.
THEOREM StallsAreNoticed == Spec => []NeverStallsUnnoticed
<1>1. StallInv => NeverStallsUnnoticed
  <2> SUFFICES ASSUME StallInv, phase \in {"loop", "act"}
               PROVE  /\ LastRun(QuietStep) < FailFastNoDurable
                      /\ LastRun(QuietMove) >= FailFastMovement =>
                           Cardinality({Cluster[views[i + 1]] :
                             i \in (Len(acts) - LastRun(QuietMove) + 1)..Len(acts)}) > 2
    BY DEF NeverStallsUnnoticed
  <2>1. Len(acts) \in Nat
    BY DEF StallInv, Lists
  <2>2. LastRun(QuietStep) = stall.quiet
    <3> DEFINE Q == {i \in 0..Len(acts) : QuietStep(i)}
    <3>1. /\ stall.quiet \in 0..Len(acts)
          /\ \A i \in (Len(acts) - stall.quiet + 1)..Len(acts) : i \in Q
          /\ stall.quiet = Len(acts) \/ Len(acts) - stall.quiet \notin Q
      BY <2>1 DEF StallInv, QuietRun
    <3>2. \A k \in 0..Len(acts) : (\A i \in (Len(acts) - k + 1)..Len(acts) : QuietStep(i))
            <=> (\A i \in (Len(acts) - k + 1)..Len(acts) : i \in Q)
      BY <2>1
    <3> HIDE DEF Q
    <3>3. Max({k \in 0..Len(acts) : \A i \in (Len(acts) - k + 1)..Len(acts) : i \in Q}) = stall.quiet
      BY <2>1, <3>1, LongestRun
    <3>4. {k \in 0..Len(acts) : \A i \in (Len(acts) - k + 1)..Len(acts) : QuietStep(i)}
            = {k \in 0..Len(acts) : \A i \in (Len(acts) - k + 1)..Len(acts) : i \in Q}
      BY <3>2
    <3>5. QED BY <3>3, <3>4 DEF LastRun
  <2>3. LastRun(QuietMove) = stall.moves
    <3> DEFINE Q == {i \in 0..Len(acts) : QuietMove(i)}
    <3>1. /\ stall.moves \in 0..Len(acts)
          /\ \A i \in (Len(acts) - stall.moves + 1)..Len(acts) : i \in Q
          /\ stall.moves = Len(acts) \/ Len(acts) - stall.moves \notin Q
      BY <2>1 DEF StallInv, MoveRun
    <3>2. \A k \in 0..Len(acts) : (\A i \in (Len(acts) - k + 1)..Len(acts) : QuietMove(i))
            <=> (\A i \in (Len(acts) - k + 1)..Len(acts) : i \in Q)
      BY <2>1
    <3> HIDE DEF Q
    <3>3. Max({k \in 0..Len(acts) : \A i \in (Len(acts) - k + 1)..Len(acts) : i \in Q}) = stall.moves
      BY <2>1, <3>1, LongestRun
    <3>4. {k \in 0..Len(acts) : \A i \in (Len(acts) - k + 1)..Len(acts) : QuietMove(i)}
            = {k \in 0..Len(acts) : \A i \in (Len(acts) - k + 1)..Len(acts) : i \in Q}
      BY <3>2
    <3>5. QED BY <3>3, <3>4 DEF LastRun
  <2>4. stall.quiet < FailFastNoDurable
    <3>1. FailFastNoDurable \in Nat /\ stall.quiet \in Nat
      BY <2>1, LegacyEpisodeAssumption DEF StallInv, QuietRun
    <3>2. QED BY <3>1 DEF StallInv, GoesOn, FailsFast
  <2>5. Cardinality(ToSet(stall.clusters)) \in Nat
    <3>1. PICK S : stall.clusters \in Seq(S)
      BY DEF StallInv, MoveClusters
    <3>2. Len(stall.clusters) \in Nat /\ DOMAIN stall.clusters = 1..Len(stall.clusters)
          /\ stall.clusters = [i \in 1..Len(stall.clusters) |-> stall.clusters[i]]
      BY <3>1
    <3>3. stall.clusters \in Surjection(1..Len(stall.clusters), ToSet(stall.clusters))
      BY <3>2 DEF Surjection, ToSet
    <3>4. IsFiniteSet(1..Len(stall.clusters))
      BY <3>2, FS_Interval
    <3>5. IsFiniteSet(ToSet(stall.clusters))
      BY <3>3, <3>4, FS_Surjection
    <3>6. QED BY <3>5, FS_CardinalityType
  <2>6. stall.moves >= FailFastMovement => Cardinality(ToSet(stall.clusters)) > 2
    BY <2>5 DEF StallInv, GoesOn, FailsFast
  <2>7. ToSet(stall.clusters) =
          {Cluster[views[i + 1]] : i \in (Len(acts) - stall.moves + 1)..Len(acts)}
    BY DEF StallInv, MoveClusters
  <2>8. QED BY <2>2, <2>3, <2>4, <2>6, <2>7
<1>2. QED BY <1>1, SpecStallInv, PTL

-----------------------------------------------------------------------------
(* The order of the frontier. *)

\* A sequence with one more element at position j.
LEMMA InsertAtFacts ==
  ASSUME NEW S, NEW s \in Seq(S), NEW e \in S, NEW j \in 1..(Len(s) + 1)
  PROVE  /\ InsertAt(s, j, e) \in Seq(S) /\ Len(InsertAt(s, j, e)) = Len(s) + 1
         /\ \A k \in 1..(Len(s) + 1) :
              InsertAt(s, j, e)[k] = IF k < j THEN s[k] ELSE IF k = j THEN e ELSE s[k - 1]
<1> DEFINE n == Len(s)
           front == SubSeq(s, 1, j - 1)
           back == SubSeq(s, j, n)
           one == <<e>>
           left == front \o one
           all == left \o back
<1>1. n \in Nat /\ j \in Nat /\ j - 1 \in 0..n /\ (\A k \in 1..n : s[k] \in S)
  OBVIOUS
<1>2. /\ front \in Seq(S) /\ Len(front) = j - 1 /\ \A k \in 1..(j - 1) : front[k] = s[k]
      /\ back \in Seq(S) /\ Len(back) = n - j + 1
      /\ \A k \in 1..(n - j + 1) : back[k] = s[j + k - 1]
  BY <1>1
<1>3. one \in Seq(S) /\ Len(one) = 1 /\ one[1] = e
  OBVIOUS
<1>4. InsertAt(s, j, e) = all
  BY DEF InsertAt
<1> HIDE DEF front, back, one
<1>5. /\ left \in Seq(S) /\ Len(left) = Len(front) + Len(one)
      /\ \A k \in 1..(Len(front) + Len(one)) :
           left[k] = IF k =< Len(front) THEN front[k] ELSE one[k - Len(front)]
  BY <1>2, <1>3, ConcatProperties
<1> HIDE DEF left
<1>6. /\ all \in Seq(S) /\ Len(all) = Len(left) + Len(back)
      /\ \A k \in 1..(Len(left) + Len(back)) :
           all[k] = IF k =< Len(left) THEN left[k] ELSE back[k - Len(left)]
  <2>1. left \in Seq(S) /\ back \in Seq(S)
    BY <1>2, <1>5
  <2> QED
    BY <2>1, ConcatProperties
<1> HIDE DEF all, n
<1>7. Len(left) = j /\ Len(left) + Len(back) = n + 1
  BY <1>1, <1>2, <1>3, <1>5
<1>8. ASSUME NEW k \in 1..(n + 1)
      PROVE  all[k] = IF k < j THEN s[k] ELSE IF k = j THEN e ELSE s[k - 1]
  <2>0. k \in Nat /\ k \in 1..(Len(left) + Len(back))
    BY <1>1, <1>7
  <2>1. CASE k < j
    <3>1. k =< Len(left) /\ k \in 1..(Len(front) + Len(one)) /\ k =< Len(front) /\ k \in 1..(j - 1)
      BY <1>1, <1>2, <1>3, <1>7, <2>0, <2>1
    <3>2. all[k] = left[k] /\ left[k] = front[k] /\ front[k] = s[k]
      BY <1>2, <1>5, <1>6, <2>0, <3>1
    <3> QED
      BY <2>1, <3>2
  <2>2. CASE k = j
    <3>1. /\ k =< Len(left) /\ k \in 1..(Len(front) + Len(one)) /\ ~(k =< Len(front))
          /\ k - Len(front) = 1 /\ ~(k < j)
      BY <1>1, <1>2, <1>3, <1>7, <2>0, <2>2
    <3>2. all[k] = left[k] /\ left[k] = one[1]
      BY <1>5, <1>6, <2>0, <3>1
    <3> QED
      BY <1>3, <2>2, <3>1, <3>2
  <2>3. CASE k > j
    <3>1. k - j \in 1..(n - j + 1) /\ j + (k - j) - 1 = k - 1 /\ ~(k =< Len(left)) /\ ~(k < j) /\ k # j
      BY <1>1, <1>7, <2>0, <2>3
    <3>2. all[k] = back[k - j] /\ back[k - j] = s[k - 1]
      BY <1>2, <1>6, <1>7, <2>0, <3>1
    <3> QED
      BY <3>1, <3>2
  <2> QED
    BY <1>1, <2>0, <2>1, <2>2, <2>3
<1> QED
  BY <1>4, <1>6, <1>7, <1>8 DEF n

\* r lists the first n elements of s, in some order.
Lists1To(r, s, n) ==
  /\ Len(r) = n
  /\ \E p \in [1..n -> 1..n] :
       /\ \A k \in 1..n : r[k] = s[p[k]]
       /\ \A k \in 1..n, l \in 1..n : p[k] = p[l] => k = l
       /\ \A i \in 1..n : \E k \in 1..n : p[k] = i

\* The place of an entry is one of the places there are, whatever the order is.
LEMMA PlacedIsAnInsertion ==
  ASSUME NEW S, NEW s \in Seq(S), NEW e \in S
  PROVE  \E j \in 1..(Len(s) + 1) : Placed(s, e) = InsertAt(s, j, e)
<1> DEFINE better == {i \in DOMAIN s : ~Better(e, s[i])}
<1>1. Len(s) \in Nat /\ DOMAIN s = 1..Len(s)
  OBVIOUS
<1>2. IsFiniteSet(1..Len(s)) /\ Cardinality(1..Len(s)) = Len(s)
  BY <1>1, FS_Interval
<1>3. better \subseteq 1..Len(s)
  BY <1>1
<1> HIDE DEF better
<1>4. Cardinality(better) \in Nat /\ Cardinality(better) =< Len(s)
  BY <1>2, <1>3, FS_Subset, FS_CardinalityType
<1>5. 1 + Cardinality(better) \in 1..(Len(s) + 1)
  BY <1>1, <1>4
<1> QED
  BY <1>5 DEF Placed, better

\* Insertion adds no other element.
LEMMA PlacedTyped ==
  ASSUME NEW S, NEW s \in Seq(S), NEW e \in S
  PROVE  Placed(s, e) \in Seq(S)
BY PlacedIsAnInsertion, InsertAtFacts

\* What a sort runs through.
LEMMA SortTrace ==
  ASSUME NEW S, NEW s \in Seq(S)
  PROVE  \E f \in [0..Len(s) -> Seq(S)] :
           /\ f[0] = << >> /\ f[Len(s)] = Sorted(s)
           /\ \A i \in 1..Len(s) : f[i] = Placed(f[i - 1], s[i])
<1> DEFINE n == Len(s)
           empty == << >>
           step == [i \in 1..n |-> [v \in Seq(S) |-> Placed(v, s[i])]]
           Body(g) == [R \in SUBSET (DOMAIN s) |->
                         IF R = {} THEN empty ELSE Placed(g[R \ {Max(R)}], s[Max(R)])]
           iter == CHOOSE g : g = Body(g)
<1>1. n \in Nat /\ DOMAIN s = 1..n /\ \A i \in 1..n : s[i] \in S
  OBVIOUS
<1>2. step \in Steps(n, Seq(S))
  BY <1>1, PlacedTyped DEF Steps
<1>3. Sorted(s) = iter[1..n]
  BY <1>1 DEF Sorted, FoldLeft, MapThenFoldSet
<1>4. empty \in Seq(S)
  OBVIOUS
<1> HIDE DEF empty
<1>5. \E g : g = Body(g)
  <2>1. PICK g : Solves(g, n, Seq(S), empty, step)
    <3> HIDE DEF step, n
    <3> QED
      BY <1>1, <1>2, <1>4, FoldExists
  <2>2. ASSUME NEW R \in SUBSET (1..n), R # {}
        PROVE  /\ Max(R) \in 1..n
               /\ step[Max(R)][g[R \ {Max(R)}]] = Placed(g[R \ {Max(R)}], s[Max(R)])
    <3>1. Max(R) \in 1..n
      BY <1>1, <2>2, MaxOfIndices
    <3>2. g[R \ {Max(R)}] \in Seq(S)
      <4> HIDE DEF step
      <4> QED
        BY <2>1 DEF Solves
    <3> QED
      BY <3>1, <3>2
  <2>3. g = Body(g)
    <3> HIDE DEF step, n
    <3> QED
      BY <1>1, <2>1, <2>2 DEF Solves
  <2> QED
    BY <2>3
<1>6. iter = Body(iter)
  <2> HIDE DEF Body
  <2> QED
    BY <1>5
<1>7. SolvesWithin(iter, n, Seq(S), empty, step)
  <2> HIDE DEF iter
  <2>1. iter[{}] = empty
    BY <1>6
  <2>2. ASSUME NEW R \in SUBSET (1..n), R # {}, iter[R \ {Max(R)}] \in Seq(S)
        PROVE  iter[R] = step[Max(R)][iter[R \ {Max(R)}]]
    <3>1. Max(R) \in 1..n
      BY <1>1, <2>2, MaxOfIndices
    <3> QED
      BY <1>1, <1>6, <2>2, <3>1
  <2> HIDE DEF step, n
  <2> QED
    BY <2>1, <2>2 DEF SolvesWithin
<1>8. PICK f : IsTrace(f, n, Seq(S), empty, step) /\ f[n] = iter[1..n]
  <2> HIDE DEF iter, n, step
  <2> QED
    BY <1>1, <1>2, <1>4, <1>7, FoldTrace
<1>9. f \in [0..n -> Seq(S)] /\ f[0] = empty /\ \A i \in 1..n : f[i] = step[i][f[i - 1]]
  <2> HIDE DEF iter, n, step
  <2> QED
    BY <1>8 DEF IsTrace
<1>10. \A i \in 1..n : f[i] = Placed(f[i - 1], s[i])
  <2> HIDE DEF iter
  <2>1. ASSUME NEW i \in 1..n PROVE f[i - 1] \in Seq(S)
    BY <1>1, <1>9
  <2> QED
    BY <1>1, <1>9, <2>1
<1> HIDE DEF iter, step
<1> QED
  BY <1>3, <1>8, <1>9, <1>10 DEF empty

\* One more element leaves a list of what was listed, and of the element.
LEMMA InsertionListsOneMore ==
  ASSUME NEW S, NEW s \in Seq(S), NEW n \in Nat, n + 1 =< Len(s), NEW r \in Seq(S),
         Lists1To(r, s, n), NEW j \in 1..(n + 1)
  PROVE  Lists1To(InsertAt(r, j, s[n + 1]), s, n + 1)
<1> DEFINE e == s[n + 1]
           t == InsertAt(r, j, e)
           m == n + 1
<1>1. Len(r) = n /\ e \in S /\ m \in Nat
  BY DEF Lists1To
<1>2. PICK p \in [1..n -> 1..n] :
               /\ \A k \in 1..n : r[k] = s[p[k]]
               /\ \A k \in 1..n, l \in 1..n : p[k] = p[l] => k = l
               /\ \A i \in 1..n : \E k \in 1..n : p[k] = i
  BY DEF Lists1To
<1> DEFINE q == [k \in 1..m |-> IF k < j THEN p[k] ELSE IF k = j THEN m ELSE p[k - 1]]
<1>3. /\ Len(t) = m
      /\ \A k \in 1..m : t[k] = IF k < j THEN r[k] ELSE IF k = j THEN e ELSE r[k - 1]
  <2> HIDE DEF e
  <2>1. j \in 1..(Len(r) + 1) /\ r \in Seq(S) /\ e \in S
    BY <1>1
  <2>2. /\ Len(t) = Len(r) + 1
        /\ \A k \in 1..(Len(r) + 1) : t[k] = IF k < j THEN r[k] ELSE IF k = j THEN e ELSE r[k - 1]
    BY <2>1, InsertAtFacts
  <2> QED
    BY <1>1, <2>2
<1> HIDE DEF t
<1>4. ASSUME NEW k \in 1..m
      PROVE  /\ k \in Nat
             /\ k < j => k \in 1..n /\ q[k] = p[k] /\ p[k] \in 1..n
             /\ k = j => q[k] = m
             /\ k > j => k - 1 \in 1..n /\ q[k] = p[k - 1] /\ p[k - 1] \in 1..n
  OBVIOUS
<1>5. q \in [1..m -> 1..m]
  <2>1. ASSUME NEW k \in 1..m PROVE q[k] \in 1..m
    <3> HIDE DEF q
    <3>1. k < j \/ k = j \/ k > j
      BY <1>4
    <3>2. m \in 1..m /\ 1..n \subseteq 1..m
      OBVIOUS
    <3> QED
      BY <1>4, <3>1, <3>2
  <2> QED
    BY <2>1
<1> HIDE DEF q
<1>6. ASSUME NEW k \in 1..m PROVE t[k] = s[q[k]]
  <2>1. CASE k < j
    <3>1. t[k] = r[k] /\ r[k] = s[p[k]] /\ q[k] = p[k]
      BY <1>2, <1>3, <1>4, <2>1
    <3> QED
      BY <3>1
  <2>2. CASE k = j
    <3>1. ~(k < j) /\ q[k] = m
      BY <1>4, <2>2
    <3> QED
      BY <1>3, <2>2, <3>1
  <2>3. CASE k > j
    <3>1. ~(k < j) /\ k # j /\ k - 1 \in 1..n /\ q[k] = p[k - 1]
      BY <1>4, <2>3
    <3>2. t[k] = r[k - 1] /\ r[k - 1] = s[p[k - 1]]
      BY <1>2, <1>3, <3>1
    <3> QED
      BY <3>1, <3>2
  <2> QED
    BY <1>4, <2>1, <2>2, <2>3
<1>7. ASSUME NEW k \in 1..m, NEW l \in 1..m, q[k] = q[l]
      PROVE  k = l
  <2>1. CASE k = j \/ l = j
    BY <1>4, <1>7, <2>1
  <2>2. CASE k # j /\ l # j
    <3> DEFINE a == IF k < j THEN k ELSE k - 1
               b == IF l < j THEN l ELSE l - 1
    <3>1. a \in 1..n /\ b \in 1..n /\ p[a] = p[b]
      BY <1>4, <1>7, <2>2
    <3>2. a = b
      BY <1>2, <3>1
    <3> QED
      BY <2>2, <3>2
  <2> QED
    BY <2>1, <2>2
<1>8. ASSUME NEW i \in 1..m
      PROVE  \E k \in 1..m : q[k] = i
  <2>1. CASE i = m
    <3>1. j \in 1..m /\ q[j] = m
      BY <1>4
    <3> QED
      BY <2>1, <3>1
  <2>2. CASE i # m
    <3>1. PICK l \in 1..n : p[l] = i
      <4>1. i \in 1..n
        BY <1>1, <2>2
      <4> QED
        BY <1>2, <4>1
    <3>2. CASE l < j
      BY <1>4, <3>1, <3>2
    <3>3. CASE ~(l < j)
      <4>1. l + 1 \in 1..m /\ l + 1 > j /\ (l + 1) - 1 = l
        BY <3>3
      <4>2. q[l + 1] = p[l]
        BY <1>4, <4>1
      <4> QED
        BY <3>1, <4>1, <4>2
    <3> QED
      BY <3>2, <3>3
  <2> QED
    BY <2>1, <2>2
<1> HIDE DEF e
<1>9. \A k \in 1..m : t[k] = s[q[k]]
  BY <1>6
<1>10. Lists1To(t, s, m)
  <2> HIDE DEF m
  <2> QED
    BY <1>3, <1>5, <1>9, <1>7, <1>8 DEF Lists1To
<1> QED
  BY <1>10 DEF t, e

\* Sorting loses nothing and adds nothing.
LEMMA SortedListsAll ==
  ASSUME NEW S, NEW s \in Seq(S)
  PROVE  Sorted(s) \in Seq(S) /\ Lists1To(Sorted(s), s, Len(s))
<1> DEFINE n == Len(s)
<1>1. n \in Nat /\ \A i \in 1..n : s[i] \in S
  OBVIOUS
<1>2. PICK f \in [0..n -> Seq(S)] :
               /\ f[0] = << >> /\ f[n] = Sorted(s)
               /\ \A i \in 1..n : f[i] = Placed(f[i - 1], s[i])
  BY SortTrace
<1> DEFINE Q == {i \in 0..n : Lists1To(f[i], s, i)}
<1>3. 0 \in Q
  <2>1. Len(f[0]) = 0 /\ 1..0 = {}
    BY <1>2
  <2>2. \E p \in [1..0 -> 1..0] : TRUE
    <3>1. [k \in 1..0 |-> k] \in [1..0 -> 1..0]
      OBVIOUS
    <3> QED
      BY <3>1
  <2> QED
    BY <1>1, <2>1, <2>2 DEF Lists1To
<1>4. ASSUME NEW i \in 1..n, i - 1 \in Q PROVE i \in Q
  <2>1. i - 1 \in Nat /\ (i - 1) + 1 = i /\ i =< Len(s) /\ i - 1 \in 0..n /\ i \in 0..n
    BY <1>1
  <2>2. f[i - 1] \in Seq(S) /\ Lists1To(f[i - 1], s, i - 1) /\ Len(f[i - 1]) = i - 1
    BY <1>4, <2>1 DEF Lists1To
  <2>3. PICK j \in 1..(Len(f[i - 1]) + 1) : Placed(f[i - 1], s[i]) = InsertAt(f[i - 1], j, s[i])
    BY <1>1, <2>2, PlacedIsAnInsertion
  <2>4. Lists1To(InsertAt(f[i - 1], j, s[(i - 1) + 1]), s, (i - 1) + 1)
    <3> DEFINE k == i - 1
               r == f[k]
    <3>1. k \in Nat /\ k + 1 =< Len(s) /\ r \in Seq(S) /\ Lists1To(r, s, k) /\ j \in 1..(k + 1)
      BY <2>1, <2>2, <2>3
    <3> HIDE DEF k, r
    <3>2. Lists1To(InsertAt(r, j, s[k + 1]), s, k + 1)
      BY <3>1, InsertionListsOneMore
    <3> QED
      BY <3>2 DEF k, r
  <2> QED
    BY <1>2, <2>1, <2>3, <2>4
<1>5. 0..n \subseteq Q
  <2> HIDE DEF Q
  <2> QED
    BY <1>1, <1>3, <1>4, IntervalInduct
<1>6. n \in 0..n
  BY <1>1
<1> QED
  BY <1>2, <1>5, <1>6

-----------------------------------------------------------------------------
(* The entries of the frontier. *)

\* What of an entry no ranking touches.
EntryKeys == {"id", "hash", "text", "node"}

HasKeys(s) == \A i \in 1..Len(s) : EntryKeys \subseteq DOMAIN s[i]

\* The same entry, but for its rank.
Same(x, e) ==
  /\ DOMAIN x = DOMAIN e
  /\ x.id = e.id /\ x.hash = e.hash /\ x.text = e.text /\ x.node = e.node

\* The same entry, whose native payload may have been dropped.
Like(x, e) ==
  /\ DOMAIN x = DOMAIN e
  /\ x.id = e.id /\ x.hash = e.hash /\ x.text = e.text
  /\ x.node \in {e.node, [e.node EXCEPT !.native = NoNative]}

\* r holds entries of s, each of them once, and all of them when they fit.
Rearranged(r, s) ==
  /\ \E S : r \in Seq(S)
  /\ Len(r) = IF Len(s) <= FrontierMaxSize THEN Len(s) ELSE FrontierMaxSize
  /\ \E p \in [1..Len(r) -> 1..Len(s)] :
       /\ \A k \in 1..Len(r) : Like(r[k], s[p[k]])
       /\ \A k \in 1..Len(r), l \in 1..Len(r) : p[k] = p[l] => k = l
       /\ Len(s) <= FrontierMaxSize => \A i \in 1..Len(s) : \E k \in 1..Len(r) : p[k] = i

\* A score changes nothing else.
LEMMA RescoredIsTheSame ==
  ASSUME NEW others, NEW stale, NEW e, EntryKeys \subseteq DOMAIN e
  PROVE  Same(Rescored(others, stale, e), e)
<1> DEFINE v == e.merit + (NoveltyWeight * EffectiveNovelty(others, e)) \div 100
                - ReversiblePenaltyOf(others, e) - RevisitSaturation(stale, e)
<1>1. Rescored(others, stale, e) = [e EXCEPT !.priority = v]
  BY DEF Rescored
<1> HIDE DEF v
<1>2. Same([e EXCEPT !.priority = v], e)
  BY DEF Same, EntryKeys
<1> QED
  BY <1>1, <1>2

\* An entry whose payload is dropped.
LEMMA PrunedIsLike ==
  ASSUME NEW e, EntryKeys \subseteq DOMAIN e
  PROVE  Like([e EXCEPT !.node.native = NoNative], e)
BY DEF Like, EntryKeys

\* A new order of the entries, of which those at the end may be cut off.
LEMMA ResortedRearranges ==
  ASSUME NEW q, "entries" \in DOMAIN q, NEW S, q.entries \in Seq(S), HasKeys(q.entries)
  PROVE  Rearranged(Resorted(q).entries, q.entries) /\ DOMAIN Resorted(q) = DOMAIN q
<1> DEFINE s == q.entries
           n == Len(s)
           scored == [i \in DOMAIN s |-> RescoredAt(q, i)]
           T == {scored[i] : i \in 1..n}
           sorted == Sorted(scored)
           m == IF n <= FrontierMaxSize THEN n ELSE FrontierMaxSize
           c == Clipped(sorted)
           pruned == PruneSnapshots(c)
<1>1. n \in Nat /\ DOMAIN s = 1..n /\ FrontierMaxSize \in Nat /\ FrontierMaxSize > 0
  BY StateFrontierAssumption
<1>2. ASSUME NEW i \in 1..n PROVE Same(scored[i], s[i])
  <2>1. scored[i] = Rescored(RemoveAt(s, i), q.stale, s[i])
    BY <1>1 DEF RescoredAt
  <2>2. EntryKeys \subseteq DOMAIN s[i]
    BY DEF HasKeys
  <2> QED
    BY <2>1, <2>2, RescoredIsTheSame
<1>3. scored \in [1..n -> T]
  BY <1>1
<1>4. Resorted(q) = [q EXCEPT !.entries = pruned]
  BY DEF Resorted
<1> HIDE DEF scored, T
<1>5. scored \in Seq(T) /\ Len(scored) = n
  BY <1>1, <1>3, FunctionIsSeq
<1>6. sorted \in Seq(T) /\ Lists1To(sorted, scored, n)
  BY <1>5, SortedListsAll
<1>7. PICK p \in [1..n -> 1..n] :
               /\ \A k \in 1..n : sorted[k] = scored[p[k]]
               /\ \A k \in 1..n, l \in 1..n : p[k] = p[l] => k = l
               /\ \A i \in 1..n : \E k \in 1..n : p[k] = i
  BY <1>6 DEF Lists1To
<1>8. Len(sorted) = n
  BY <1>6 DEF Lists1To
<1> HIDE DEF sorted
<1>9. m \in Nat /\ m <= n /\ 1..m \subseteq 1..n
  BY <1>1
<1>10. c \in Seq(T) /\ Len(c) = m /\ DOMAIN c = 1..m /\ \A k \in 1..m : c[k] = sorted[k]
  <2>1. Min({n, FrontierMaxSize}) = m
    BY <1>1, MinOfTwo
  <2>2. c = SubSeq(sorted, 1, m)
    BY <1>8, <2>1 DEF Clipped
  <2> HIDE DEF c, m
  <2> QED
    BY <1>1, <1>6, <1>8, <1>9, <2>2
<1> HIDE DEF c
<1>11. ASSUME NEW k \in 1..m PROVE Like(pruned[k], s[p[k]])
  <2>1. p[k] \in 1..n /\ c[k] = scored[p[k]]
    BY <1>7, <1>9, <1>10
  <2>2. Same(c[k], s[p[k]])
    BY <1>2, <2>1
  <2>3. EntryKeys \subseteq DOMAIN c[k]
    BY <2>1, <2>2 DEF HasKeys, Same
  <2>4. pruned[k] \in {c[k], [c[k] EXCEPT !.node.native = NoNative]}
    BY <1>10 DEF PruneSnapshots
  <2>5. Like([c[k] EXCEPT !.node.native = NoNative], c[k]) /\ Like(c[k], c[k])
    BY <2>3, PrunedIsLike DEF Like
  <2>6. Like(pruned[k], c[k])
    BY <2>4, <2>5
  <2> QED
    BY <2>2, <2>6 DEF Same, Like
<1> DEFINE U == {pruned[k] : k \in 1..m}
<1>12. pruned \in [1..m -> U]
  <2>1. pruned = [k \in 1..m |-> pruned[k]]
    BY <1>10 DEF PruneSnapshots
  <2> HIDE DEF pruned
  <2> QED
    BY <2>1
<1> HIDE DEF pruned, U
<1>13. pruned \in Seq(U) /\ Len(pruned) = m
  BY <1>9, <1>12, FunctionIsSeq
<1>14. Rearranged(pruned, s)
  <2> DEFINE front == [k \in 1..m |-> p[k]]
  <2>1. front \in [1..m -> 1..n] /\ \A k \in 1..m : front[k] = p[k]
    BY <1>7, <1>9
  <2> HIDE DEF front
  <2>2. n <= FrontierMaxSize => \A i \in 1..n : \E k \in 1..m : front[k] = i
    BY <1>7, <2>1
  <2>3. \A k \in 1..m, l \in 1..m : front[k] = front[l] => k = l
    BY <1>7, <1>9, <2>1
  <2>4. \A k \in 1..m : Like(pruned[k], s[front[k]])
    BY <1>11, <2>1
  <2>5. \E V : pruned \in Seq(V)
    BY <1>13
  <2>6. Len(pruned) = IF Len(s) <= FrontierMaxSize THEN Len(s) ELSE FrontierMaxSize
    BY <1>13
  <2>7. \E f \in [1..Len(pruned) -> 1..Len(s)] :
          /\ \A k \in 1..Len(pruned) : Like(pruned[k], s[f[k]])
          /\ \A k \in 1..Len(pruned), l \in 1..Len(pruned) : f[k] = f[l] => k = l
          /\ Len(s) <= FrontierMaxSize => \A i \in 1..Len(s) : \E k \in 1..Len(pruned) : f[k] = i
    <3> HIDE DEF m
    <3> QED
      BY <1>13, <2>1, <2>2, <2>3, <2>4
  <2> QED
    BY <2>5, <2>6, <2>7 DEF Rearranged
<1> QED
  BY <1>4, <1>14

\* t is s with an entry like e added to it, or put in the place of a duplicate of
\* it, or with a duplicate of it scored again.
Offered(s, e, t) ==
  \/ /\ \A i \in 1..Len(s) : ~Duplicates(s[i], e)
     /\ \E x : Same(x, e) /\ t = Append(s, x)
  \/ /\ Len(t) = Len(s)
     /\ \E i \in 1..Len(s) :
          /\ Duplicates(s[i], e)
          /\ \A j \in 1..Len(s) : j # i => t[j] = s[j]
          /\ Same(t[i], s[i]) \/ Same(t[i], e)

\* An entry that is recorded.
LEMMA AddOffers ==
  ASSUME NEW q, "entries" \in DOMAIN q, NEW S, q.entries \in Seq(S), HasKeys(q.entries),
         NEW e, EntryKeys \subseteq DOMAIN e
  PROVE  /\ DOMAIN Add(q, e) = DOMAIN q
         /\ \E t : /\ \E T : t \in Seq(T)
                   /\ Offered(q.entries, e, t)
                   /\ Rearranged(Add(q, e).entries, t)
<1> DEFINE s == q.entries
           n == Len(s)
           x == Rescored(s, q.stale, e)
           matches == {i \in DOMAIN s : Duplicates(s[i], x)}
           first == Min(matches)
           again == RescoredAt(q, first)
           rescored == [s EXCEPT ![first] = again]
           t == IF matches = {} THEN Append(s, x) ELSE ReplaceIfBetter(rescored, first, x)
           r == [q EXCEPT !.entries = t]
<1>1. n \in Nat /\ DOMAIN s = 1..n
  OBVIOUS
<1>2. Same(x, e)
  BY RescoredIsTheSame
<1>3. Add(q, e) = Resorted(r)
  BY DEF Add
<1> HIDE DEF x
<1>4. \A i \in 1..n : Duplicates(s[i], x) <=> Duplicates(s[i], e)
  BY <1>2 DEF Same, Duplicates
<1>5. /\ \E T : t \in Seq(T)
      /\ Offered(s, e, t)
      /\ HasKeys(t)
  <2>1. CASE matches = {}
    <3>1. t = Append(s, x)
      BY <2>1
    <3>2. \A i \in 1..n : ~Duplicates(s[i], e)
      BY <1>1, <1>4, <2>1
    <3>3. Offered(s, e, t)
      BY <1>2, <3>1, <3>2 DEF Offered
    <3>4. s \in Seq(S \cup {x}) /\ x \in S \cup {x}
      OBVIOUS
    <3>5. /\ t \in Seq(S \cup {x}) /\ Len(t) = n + 1 /\ t[n + 1] = x
          /\ \A i \in 1..n : t[i] = s[i]
      <4> HIDE DEF t, s, n
      <4>1. Len(s) = n
        BY DEF n
      <4> QED
        BY <1>1, <3>1, <3>4, <4>1
    <3>6. HasKeys(t)
      <4> SUFFICES ASSUME NEW i \in 1..Len(t) PROVE EntryKeys \subseteq DOMAIN t[i]
        BY DEF HasKeys
      <4>1. CASE i = n + 1
        BY <1>2, <3>5, <4>1 DEF Same
      <4>2. CASE i # n + 1
        <5>1. i \in 1..n
          BY <1>1, <3>5, <4>2
        <5> QED
          BY <3>5, <5>1 DEF HasKeys
      <4> QED
        BY <4>1, <4>2
    <3> HIDE DEF t
    <3> QED
      BY <3>3, <3>5, <3>6
  <2>2. CASE matches # {}
    <3>1. first \in 1..n /\ Duplicates(s[first], x)
      <4>1. matches \in SUBSET Nat
        BY <1>1
      <4>2. first \in matches
        <5> HIDE DEF matches
        <5> QED
          BY <2>2, <4>1, LeastNumber
      <4> QED
        BY <1>1, <4>2
    <3>2. t = ReplaceIfBetter(rescored, first, x)
      BY <2>2
    <3> HIDE DEF first
    <3>3. Same(again, s[first])
      <4>1. EntryKeys \subseteq DOMAIN s[first]
        BY <3>1 DEF HasKeys
      <4> QED
        BY <4>1, RescoredIsTheSame DEF RescoredAt
    <3> HIDE DEF again
    <3>4. rescored = [i \in 1..n |-> IF i = first THEN again ELSE s[i]]
      BY <1>1, <3>1
    <3> HIDE DEF rescored
    <3>5. t = rescored \/ t = [rescored EXCEPT ![first] = x]
      BY <3>2 DEF ReplaceIfBetter
    <3>6. PICK y \in {again, x} : t = [i \in 1..n |-> IF i = first THEN y ELSE s[i]]
      <4>1. CASE t = rescored
        BY <3>4, <4>1
      <4>2. CASE t = [rescored EXCEPT ![first] = x]
        BY <3>1, <3>4, <4>2
      <4> QED
        BY <3>5, <4>1, <4>2
    <3> HIDE DEF t
    <3>7. t \in Seq(S \cup {y}) /\ Len(t) = n
      <4>1. \A i \in 1..n : s[i] \in S
        OBVIOUS
      <4>2. t \in [1..n -> S \cup {y}]
        BY <3>6, <4>1
      <4> QED
        BY <1>1, <4>2, FunctionIsSeq
    <3>8. Same(t[first], s[first]) \/ Same(t[first], e)
      BY <1>2, <3>1, <3>3, <3>6
    <3>9. \A j \in 1..n : j # first => t[j] = s[j]
      BY <3>6
    <3>10. Offered(s, e, t)
      BY <1>4, <3>1, <3>7, <3>8, <3>9 DEF Offered
    <3>11. HasKeys(t)
      <4> SUFFICES ASSUME NEW i \in 1..n PROVE EntryKeys \subseteq DOMAIN t[i]
        BY <3>7 DEF HasKeys
      <4>1. EntryKeys \subseteq DOMAIN s[i]
        BY DEF HasKeys
      <4> QED
        BY <3>8, <3>9, <4>1 DEF Same
    <3> QED
      BY <3>7, <3>10, <3>11
  <2> QED
    BY <2>1, <2>2
<1> HIDE DEF t
<1>6. r.entries = t /\ DOMAIN r = DOMAIN q
  OBVIOUS
<1> HIDE DEF r
<1>7. Rearranged(Resorted(r).entries, t) /\ DOMAIN Resorted(r) = DOMAIN r
  BY <1>5, <1>6, ResortedRearranges
<1> QED
  BY <1>3, <1>5, <1>6, <1>7

\* A revisit reorders the frontier.
LEMMA RevisitRearranges ==
  ASSUME NEW q, {"entries", "stale"} \subseteq DOMAIN q, NEW S, q.entries \in Seq(S),
         HasKeys(q.entries), NEW e, NEW progressed
  PROVE  /\ DOMAIN NoteRevisit(q, e, progressed) = DOMAIN q
         /\ Rearranged(NoteRevisit(q, e, progressed).entries, q.entries)
<1> DEFINE Note(table, key) == IF progressed THEN Drop(table, key) ELSE Bump(table, key)
           noted == [states |-> Note(q.stale.states, e.id),
                     families |-> Note(q.stale.families, e.family),
                     clusters |-> Note(q.stale.clusters, e.cluster)]
           r == [q EXCEPT !.stale = noted]
<1>1. NoteRevisit(q, e, progressed) = Resorted(r)
  BY DEF NoteRevisit
<1> HIDE DEF noted
<1>2. r.entries = q.entries /\ DOMAIN r = DOMAIN q
  OBVIOUS
<1> HIDE DEF r
<1> QED
  BY <1>1, <1>2, ResortedRearranges

-----------------------------------------------------------------------------
(* What the frontier holds. *)

GameTexts ==
  {EmptyText} \cup {Observation[w] : w \in Worlds} \cup {Inventory[w] : w \in Worlds}

\* The texts that the game can show.
LEMMA GameTextsAreTexts == TextsIn(GameTexts)
BY DEF TextsIn, GameTexts

\* How far the step index of a node runs ahead of its actions.
NodeDrift(node) == node.stepIndex - Len(node.prefix)

\* An entry of a state of the game, saved in a node that is true of it, after at
\* most d restores.
GoodEntry(e, d) ==
  /\ EntryKeys \subseteq DOMAIN e
  /\ e.hash \in Worlds /\ e.id[2] = e.hash
  /\ e.text = SummaryOf(e.hash, e.text.depth, e.text.gain)
  /\ SoundNode(e.node, GameTexts) /\ NodeDrift(e.node) \in 0..d

GoodEntries(s, d) ==
  /\ \E S : s \in Seq(S)
  /\ \A i \in 1..Len(s) : GoodEntry(s[i], d)

\* States whose summaries always look alike.
Alike(C) == \A v \in C, w \in C : AlwaysLookAlike(v, w)

\* Of each kind whose states always look alike there is one entry at most.
Apart(s) ==
  \A C \in Kinds : Alike(C) =>
    \A i \in 1..Len(s), j \in 1..Len(s) : s[i].hash \in C /\ s[j].hash \in C => i = j

\* Of every kind of state in K there is an entry.
Remembers(s, K) ==
  \A C \in Kinds : C \cap K # {} => \E i \in 1..Len(s) : s[i].hash \in C

\* A node without its payload is as true as it was.
LEMMA PrunedNodeIsSound ==
  ASSUME NEW X, NEW node, SoundNode(node, X)
  PROVE  /\ SoundNode([node EXCEPT !.native = NoNative], X)
         /\ NodeDrift([node EXCEPT !.native = NoNative]) = NodeDrift(node)
<1> DEFINE bare == [node EXCEPT !.native = NoNative]
<1>1. node \in Nodes(X)
  BY DEF SoundNode
<1>2. /\ bare.native = NoNative /\ bare.prefix = node.prefix /\ bare.stepIndex = node.stepIndex
      /\ bare.observation = node.observation /\ bare.inventory = node.inventory
      /\ bare.score = node.score /\ bare.world = node.world /\ bare.start = node.start
      /\ bare \in Nodes(X)
  BY <1>1 DEF Nodes
<1> HIDE DEF bare
<1> QED
  BY <1>2 DEF SoundNode, NodeDrift, bare

\* An entry whose snapshot was dropped is still good.
LEMMA LikeIsGood ==
  ASSUME NEW d, NEW e, GoodEntry(e, d), NEW x, Like(x, e)
  PROVE  GoodEntry(x, d)
BY PrunedNodeIsSound DEF Like, GoodEntry

\* So is one with another priority.
LEMMA SameIsGood ==
  ASSUME NEW d, NEW e, GoodEntry(e, d), NEW x, Same(x, e)
  PROVE  GoodEntry(x, d)
BY DEF Same, GoodEntry

\* More restores leave more room for drift.
LEMMA GoodForMore ==
  ASSUME NEW d \in Nat, NEW c \in Nat, d <= c, NEW s, GoodEntries(s, d)
  PROVE  GoodEntries(s, c)
BY DEF GoodEntries, GoodEntry

\* A new order keeps what holds of the entries.
LEMMA RearrangedIsGood ==
  ASSUME NEW d, NEW s, GoodEntries(s, d), NEW r, Rearranged(r, s)
  PROVE  GoodEntries(r, d) /\ (Len(s) > 0 => Len(r) \in 1..FrontierMaxSize)
<1>1. Len(s) \in Nat /\ FrontierMaxSize \in Nat \ {0}
  BY StateFrontierAssumption DEF GoodEntries
<1>2. ASSUME NEW k \in 1..Len(r) PROVE GoodEntry(r[k], d)
  <2>1. PICK i \in 1..Len(s) : Like(r[k], s[i])
    BY DEF Rearranged
  <2> QED
    BY <2>1, LikeIsGood DEF GoodEntries
<1>3. Len(s) > 0 => Len(r) \in 1..FrontierMaxSize
  BY <1>1 DEF Rearranged
<1> QED
  BY <1>2, <1>3 DEF GoodEntries, Rearranged

\* And of any two of them.
LEMMA RearrangedIsApart ==
  ASSUME NEW s, Apart(s), NEW r, Rearranged(r, s)
  PROVE  Apart(r)
<1>1. PICK p \in [1..Len(r) -> 1..Len(s)] :
               /\ \A k \in 1..Len(r) : Like(r[k], s[p[k]])
               /\ \A k \in 1..Len(r), l \in 1..Len(r) : p[k] = p[l] => k = l
  BY DEF Rearranged
<1> SUFFICES ASSUME NEW C \in Kinds, Alike(C), NEW k \in 1..Len(r), NEW l \in 1..Len(r),
                    r[k].hash \in C, r[l].hash \in C
             PROVE  k = l
  BY DEF Apart
<1>2. p[k] \in 1..Len(s) /\ p[l] \in 1..Len(s)
  BY <1>1
<1>3. s[p[k]].hash \in C /\ s[p[l]].hash \in C
  BY <1>1 DEF Like
<1>4. p[k] = p[l]
  BY <1>2, <1>3 DEF Apart
<1> QED
  BY <1>1, <1>4

\* While there is room, the new order forgets nothing.
LEMMA RearrangedRemembers ==
  ASSUME NEW s, NEW K, NEW r, Rearranged(r, s), Len(s) \in Nat,
         Len(s) < FrontierMaxSize => Remembers(s, K)
  PROVE  Len(r) < FrontierMaxSize => Remembers(r, K) /\ Len(s) = Len(r)
<1> SUFFICES ASSUME Len(r) < FrontierMaxSize PROVE Remembers(r, K) /\ Len(s) = Len(r)
  OBVIOUS
<1>1. Len(s) = Len(r) /\ Len(s) < FrontierMaxSize /\ Len(s) <= FrontierMaxSize
  BY StateFrontierAssumption DEF Rearranged
<1>2. PICK p \in [1..Len(r) -> 1..Len(s)] :
               /\ \A k \in 1..Len(r) : Like(r[k], s[p[k]])
               /\ \A i \in 1..Len(s) : \E k \in 1..Len(r) : p[k] = i
  BY <1>1 DEF Rearranged
<1>3. ASSUME NEW C \in Kinds, C \cap K # {}
      PROVE  \E k \in 1..Len(r) : r[k].hash \in C
  <2>1. PICK i \in 1..Len(s) : s[i].hash \in C
    BY <1>1, <1>3 DEF Remembers
  <2>2. PICK k \in 1..Len(r) : p[k] = i
    BY <1>2
  <2>3. r[k].hash = s[i].hash
    BY <1>2, <2>2 DEF Like
  <2> QED
    BY <2>1, <2>3
<1> QED
  BY <1>1, <1>3 DEF Remembers

\* Similarity is the same in both directions.
LEMMA SimilarBothWays ==
  ASSUME NEW s, NEW t, Similar(s, t)
  PROVE  Similar(t, s)
<1>1. SameFigures(s, t) = SameFigures(t, s)
  BY DEF SameFigures
<1>2. s.words \cap t.words = t.words \cap s.words /\ s.words \cup t.words = t.words \cup s.words
  OBVIOUS
<1> QED
  BY <1>1, <1>2 DEF Similar, WordsInCommon, AllWords

\* A percentage of a smaller number is not more.
LEMMA PercentageOfLess ==
  ASSUME NEW p \in Nat, NEW a \in Int, NEW b \in Int, a <= b
  PROVE  p * a <= p * b
<1>1. p * (b - a) >= 0
  BY b - a >= 0
<1>2. p * (b - a) = p * b - p * a
  OBVIOUS
<1>3. p * a \in Int /\ p * b \in Int
  OBVIOUS
<1> QED
  BY <1>1, <1>2, <1>3

\* Of two pairs of summaries with the same words, the pair that agrees on more
\* figures is similar if the other is.
LEMMA MoreInCommonIsSimilar ==
  ASSUME NEW s, NEW t, NEW x, NEW y, x.words = s.words, y.words = t.words,
         IsFiniteSet(s.words), IsFiniteSet(t.words),
         SameFigures(s, t) \subseteq SameFigures(x, y), Similar(s, t)
  PROVE  Similar(x, y)
<1> DEFINE common == Cardinality(s.words \cap t.words)
           all == Cardinality(s.words \cup t.words)
           figures == Cardinality(Figures)
           less == Cardinality(SameFigures(s, t))
           more == Cardinality(SameFigures(x, y))
<1>1. IsFiniteSet(Figures)
  <2>1. IsFiniteSet({"depth"})
    BY FS_Singleton
  <2>2. IsFiniteSet({"depth"} \cup {"score"})
    BY <2>1, FS_AddElement
  <2>3. IsFiniteSet(({"depth"} \cup {"score"}) \cup {"gain"})
    BY <2>2, FS_AddElement
  <2>4. Figures = ({"depth"} \cup {"score"}) \cup {"gain"}
    BY DEF Figures
  <2> QED
    BY <2>3, <2>4
<1>2. IsFiniteSet(SameFigures(s, t)) /\ IsFiniteSet(SameFigures(x, y))
  BY <1>1, FS_Subset DEF SameFigures
<1>3. IsFiniteSet(s.words \cap t.words) /\ IsFiniteSet(s.words \cup t.words)
  BY FS_Subset, FS_Union, s.words \cap t.words \subseteq s.words
<1>4. less \in Nat /\ more \in Nat /\ figures \in Nat /\ common \in Nat /\ all \in Nat
  BY <1>1, <1>2, <1>3, FS_CardinalityType
<1>5. less <= more
  BY <1>2, FS_Subset
<1>6. /\ WordsInCommon(s, t) = common + less /\ WordsInCommon(x, y) = common + more
      /\ AllWords(s, t) = all + (2 * figures - less) /\ AllWords(x, y) = all + (2 * figures - more)
  BY DEF WordsInCommon, AllWords
<1> HIDE DEF common, all, figures, less, more
<1> DEFINE a == all + (2 * figures - more)
           b == all + (2 * figures - less)
<1>7. a \in Int /\ b \in Int /\ a <= b
  BY <1>4, <1>5
<1> HIDE DEF a, b
<1>8. SimilarityThreshold \in Nat
  BY StateFrontierAssumption
<1>9. SimilarityThreshold * a <= SimilarityThreshold * b
  BY <1>7, <1>8, PercentageOfLess
<1>10. SimilarityThreshold * a \in Int /\ SimilarityThreshold * b \in Int
  BY <1>7, <1>8
<1>11. 100 * (common + less) >= SimilarityThreshold * b
  BY <1>6 DEF Similar, b
<1>12. 100 * (common + more) >= 100 * (common + less)
  BY <1>4, <1>5
<1>13. 100 * (common + more) >= SimilarityThreshold * a
  <2> DEFINE u == SimilarityThreshold * a
             v == SimilarityThreshold * b
  <2>1. u <= v /\ u \in Int /\ v \in Int /\ 100 * (common + less) >= v
    BY <1>9, <1>10, <1>11
  <2> HIDE DEF u, v
  <2>2. 100 * (common + more) >= u
    BY <1>4, <1>12, <2>1
  <2> QED
    BY <2>2 DEF u
<1> QED
  BY <1>6, <1>13 DEF Similar, a

\* What the summary of a state always says.
LEMMA SummaryFields ==
  ASSUME NEW w, NEW d, NEW g
  PROVE  /\ SummaryOf(w, d, g).words = SummaryWords[w]
         /\ SummaryOf(w, d, g)["depth"] = d
         /\ SummaryOf(w, d, g)["score"] = Score[w]
         /\ SummaryOf(w, d, g)["gain"] = g
BY DEF SummaryOf

\* Two states that once looked alike may look alike.
LEMMA SimilarMayLookAlike ==
  ASSUME NEW v \in Worlds, NEW w \in Worlds, NEW d, NEW g, NEW e, NEW h,
         Similar(SummaryOf(v, d, g), SummaryOf(w, e, h))
  PROVE  MayLookAlike(v, w)
<1> DEFINE s == SummaryOf(v, d, g)
           t == SummaryOf(w, e, h)
           x == SummaryOf(v, 0, 0)
           y == SummaryOf(w, 0, 0)
<1>1. /\ s.words = SummaryWords[v] /\ t.words = SummaryWords[w]
      /\ x.words = SummaryWords[v] /\ y.words = SummaryWords[w]
  BY SummaryFields
<1>2. SameFigures(s, t) \subseteq SameFigures(x, y)
  <2> SUFFICES ASSUME NEW f \in Figures, s[f] = t[f] PROVE x[f] = y[f]
    BY DEF SameFigures
  <2> HIDE DEF s, t, x, y
  <2>1. /\ s["score"] = Score[v] /\ t["score"] = Score[w]
        /\ x["score"] = Score[v] /\ y["score"] = Score[w]
        /\ x["depth"] = 0 /\ y["depth"] = 0 /\ x["gain"] = 0 /\ y["gain"] = 0
    BY SummaryFields DEF s, t, x, y
  <2> QED
    BY <2>1 DEF Figures
<1>3. IsFiniteSet(s.words) /\ IsFiniteSet(t.words)
  BY <1>1, StateFrontierAssumption
<1> HIDE DEF s, t, x, y
<1>4. Similar(s, t)
  BY DEF s, t
<1>5. Similar(x, y)
  BY <1>1, <1>2, <1>3, <1>4, MoreInCommonIsSimilar
<1> QED
  BY <1>5 DEF MayLookAlike, x, y

\* Two states that always look alike do, whatever else their summaries say.
LEMMA AlwaysMeansSimilar ==
  ASSUME NEW v \in Worlds, NEW w \in Worlds, NEW d, NEW g, NEW e, NEW h,
         v # w, AlwaysLookAlike(v, w)
  PROVE  Similar(SummaryOf(v, d, g), SummaryOf(w, e, h))
<1> DEFINE s == SummaryOf(v, 0, 0)
           t == SummaryOf(w, 1, 1)
           x == SummaryOf(v, d, g)
           y == SummaryOf(w, e, h)
<1>1. /\ s.words = SummaryWords[v] /\ t.words = SummaryWords[w]
      /\ x.words = SummaryWords[v] /\ y.words = SummaryWords[w]
  BY SummaryFields
<1>2. SameFigures(s, t) \subseteq SameFigures(x, y)
  <2> SUFFICES ASSUME NEW f \in Figures, s[f] = t[f] PROVE x[f] = y[f]
    BY DEF SameFigures
  <2> HIDE DEF s, t, x, y
  <2>1. /\ s["score"] = Score[v] /\ t["score"] = Score[w]
        /\ x["score"] = Score[v] /\ y["score"] = Score[w]
        /\ s["depth"] = 0 /\ t["depth"] = 1 /\ s["gain"] = 0 /\ t["gain"] = 1
    BY SummaryFields DEF s, t, x, y
  <2>2. f = "score"
    BY <2>1 DEF Figures
  <2> QED
    BY <2>1, <2>2
<1>3. IsFiniteSet(s.words) /\ IsFiniteSet(t.words)
  BY <1>1, StateFrontierAssumption
<1> HIDE DEF s, t, x, y
<1>4. Similar(s, t)
  BY DEF AlwaysLookAlike, s, t
<1>5. Similar(x, y)
  BY <1>1, <1>2, <1>3, <1>4, MoreInCommonIsSimilar
<1> QED
  BY <1>5 DEF x, y

\* Entries that duplicate each other are of the same kinds.
LEMMA DuplicatesAreOfAKind ==
  ASSUME NEW d, NEW e, NEW x, GoodEntry(e, d), GoodEntry(x, d), Duplicates(x, e),
         NEW C \in Kinds
  PROVE  x.hash \in C <=> e.hash \in C
<1>1. x.hash \in Worlds /\ e.hash \in Worlds
  BY DEF GoodEntry
<1>2. CASE x.hash = e.hash
  BY <1>2
<1>3. CASE x.id = e.id
  <2>1. x.id[2] = e.id[2]
    BY <1>3
  <2> QED
    BY <2>1 DEF GoodEntry
<1>4. CASE Similar(x.text, e.text)
  <2>1. Similar(e.text, x.text)
    BY <1>4, SimilarBothWays
  <2>2. /\ x.text = SummaryOf(x.hash, x.text.depth, x.text.gain)
        /\ e.text = SummaryOf(e.hash, e.text.depth, e.text.gain)
    BY DEF GoodEntry
  <2>3. MayLookAlike(x.hash, e.hash)
    BY <1>1, <1>4, <2>2, SimilarMayLookAlike
  <2>4. MayLookAlike(e.hash, x.hash)
    BY <1>1, <2>1, <2>2, SimilarMayLookAlike
  <2> QED
    BY <1>1, <2>3, <2>4 DEF Kinds
<1> QED
  BY <1>2, <1>3, <1>4 DEF Duplicates

\* Entries of states that always look alike duplicate each other.
LEMMA AlikeAreDuplicates ==
  ASSUME NEW d, NEW e, NEW x, GoodEntry(e, d), GoodEntry(x, d), NEW C, Alike(C),
         x.hash \in C, e.hash \in C
  PROVE  Duplicates(x, e)
<1>1. CASE x.hash = e.hash
  BY <1>1 DEF Duplicates
<1>2. CASE x.hash # e.hash
  <2>1. AlwaysLookAlike(x.hash, e.hash)
    BY DEF Alike
  <2>2. x.hash \in Worlds /\ e.hash \in Worlds
    BY DEF GoodEntry
  <2>3. /\ x.text = SummaryOf(x.hash, x.text.depth, x.text.gain)
        /\ e.text = SummaryOf(e.hash, e.text.depth, e.text.gain)
    BY DEF GoodEntry
  <2>4. Similar(SummaryOf(x.hash, x.text.depth, x.text.gain),
                SummaryOf(e.hash, e.text.depth, e.text.gain))
    BY <1>2, <2>1, <2>2, AlwaysMeansSimilar
  <2>5. Similar(x.text, e.text)
    BY <2>3, <2>4
  <2> QED
    BY <2>5 DEF Duplicates
<1> QED
  BY <1>1, <1>2

\* The entries with the one that is recorded are those of states of the game.
LEMMA OfferedIsGood ==
  ASSUME NEW d, NEW s, GoodEntries(s, d), NEW e, GoodEntry(e, d),
         NEW t, \E T : t \in Seq(T), Offered(s, e, t)
  PROVE  GoodEntries(t, d) /\ Len(t) > 0
<1>0. Len(s) \in Nat
  BY DEF GoodEntries
<1>1. CASE \E x : Same(x, e) /\ t = Append(s, x)
  <2>1. PICK x : Same(x, e) /\ t = Append(s, x)
    BY <1>1
  <2>2. PICK S : s \in Seq(S)
    BY DEF GoodEntries
  <2>3. s \in Seq(S \cup {x})
    BY <2>2
  <2>4. Len(t) = Len(s) + 1 /\ t[Len(s) + 1] = x /\ \A i \in 1..Len(s) : t[i] = s[i]
    BY <2>1, <2>3
  <2>5. GoodEntry(x, d)
    BY <2>1, SameIsGood
  <2>6. ASSUME NEW i \in 1..Len(t) PROVE GoodEntry(t[i], d)
    <3>1. CASE i = Len(s) + 1
      BY <2>4, <2>5, <3>1
    <3>2. CASE i # Len(s) + 1
      <4>1. i \in 1..Len(s)
        BY <1>0, <2>4, <3>2
      <4> QED
        BY <2>4, <4>1 DEF GoodEntries
    <3> QED
      BY <3>1, <3>2
  <2> QED
    BY <1>0, <2>4, <2>6 DEF GoodEntries
<1>2. ASSUME Len(t) = Len(s), NEW i \in 1..Len(s),
             \A j \in 1..Len(s) : j # i => t[j] = s[j],
             Same(t[i], s[i]) \/ Same(t[i], e)
      PROVE  GoodEntries(t, d) /\ Len(t) > 0
  <2>1. GoodEntry(t[i], d)
    BY <1>2, SameIsGood DEF GoodEntries
  <2>2. \A j \in 1..Len(s) : GoodEntry(t[j], d)
    BY <1>2, <2>1 DEF GoodEntries
  <2> QED
    BY <1>0, <1>2, <2>2 DEF GoodEntries
<1> QED
  BY <1>1, <1>2 DEF Offered

\* It takes the place of what it looks like, so that no two entries always look
\* alike.
LEMMA OfferedIsApart ==
  ASSUME NEW d, NEW s, GoodEntries(s, d), Apart(s), NEW e, GoodEntry(e, d),
         NEW t, Offered(s, e, t)
  PROVE  Apart(t)
<1> SUFFICES ASSUME NEW C \in Kinds, Alike(C), NEW k \in 1..Len(t), NEW l \in 1..Len(t),
                    t[k].hash \in C, t[l].hash \in C
             PROVE  k = l
  BY DEF Apart
<1>0. Len(s) \in Nat
  BY DEF GoodEntries
<1>1. ASSUME \A i \in 1..Len(s) : ~Duplicates(s[i], e), NEW x, Same(x, e), t = Append(s, x)
      PROVE  k = l
  <2>1. PICK S : s \in Seq(S)
    BY DEF GoodEntries
  <2>2. s \in Seq(S \cup {x})
    BY <2>1
  <2>3. Len(t) = Len(s) + 1 /\ t[Len(s) + 1] = x /\ \A i \in 1..Len(s) : t[i] = s[i]
    BY <1>1, <2>2
  <2>4. e.hash \in C => \A i \in 1..Len(s) : s[i].hash \notin C
    BY <1>1, AlikeAreDuplicates DEF GoodEntries
  <2>5. x.hash = e.hash
    BY <1>1 DEF Same
  <2>6. \A i \in 1..Len(t) : i # Len(s) + 1 => i \in 1..Len(s)
    BY <1>0, <2>3
  <2>7. CASE k = Len(s) + 1
    BY <2>3, <2>4, <2>5, <2>6, <2>7
  <2>8. CASE l = Len(s) + 1
    BY <2>3, <2>4, <2>5, <2>6, <2>8
  <2>9. CASE k # Len(s) + 1 /\ l # Len(s) + 1
    <3>1. k \in 1..Len(s) /\ l \in 1..Len(s)
      BY <2>6, <2>9
    <3> QED
      BY <2>3, <3>1 DEF Apart
  <2> QED
    BY <2>7, <2>8, <2>9
<1>2. ASSUME Len(t) = Len(s), NEW i \in 1..Len(s), Duplicates(s[i], e),
             \A j \in 1..Len(s) : j # i => t[j] = s[j],
             Same(t[i], s[i]) \/ Same(t[i], e)
      PROVE  k = l
  <2>1. s[i].hash \in C <=> e.hash \in C
    BY <1>2, DuplicatesAreOfAKind DEF GoodEntries
  <2>2. \A j \in 1..Len(s) : t[j].hash \in C => s[j].hash \in C
    BY <1>2, <2>1 DEF Same
  <2> QED
    BY <1>2, <2>2 DEF Apart
<1> QED
  BY <1>1, <1>2 DEF Offered

\* And of every kind that was recorded before there is still an entry.
LEMMA OfferedRemembers ==
  ASSUME NEW d, NEW s, GoodEntries(s, d), NEW K, Remembers(s, K),
         NEW e, GoodEntry(e, d), NEW t, Offered(s, e, t)
  PROVE  Remembers(t, K \cup {e.hash})
<1> SUFFICES ASSUME NEW C \in Kinds, C \cap (K \cup {e.hash}) # {}
             PROVE  \E k \in 1..Len(t) : t[k].hash \in C
  BY DEF Remembers
<1>0. Len(s) \in Nat
  BY DEF GoodEntries
<1>1. e.hash \in C \/ \E i \in 1..Len(s) : s[i].hash \in C
  BY DEF Remembers
<1>2. ASSUME NEW x, Same(x, e), t = Append(s, x)
      PROVE  \E k \in 1..Len(t) : t[k].hash \in C
  <2>1. PICK S : s \in Seq(S)
    BY DEF GoodEntries
  <2>2. s \in Seq(S \cup {x})
    BY <2>1
  <2>3. Len(t) = Len(s) + 1 /\ t[Len(s) + 1] = x /\ \A i \in 1..Len(s) : t[i] = s[i]
    BY <1>2, <2>2
  <2>4. Len(s) + 1 \in 1..Len(t) /\ 1..Len(s) \subseteq 1..Len(t)
    BY <1>0, <2>3
  <2>5. x.hash = e.hash
    BY <1>2 DEF Same
  <2> QED
    BY <1>1, <2>3, <2>4, <2>5
<1>3. ASSUME Len(t) = Len(s), NEW i \in 1..Len(s), Duplicates(s[i], e),
             \A j \in 1..Len(s) : j # i => t[j] = s[j],
             Same(t[i], s[i]) \/ Same(t[i], e)
      PROVE  \E k \in 1..Len(t) : t[k].hash \in C
  <2>1. s[i].hash \in C <=> e.hash \in C
    BY <1>3, DuplicatesAreOfAKind DEF GoodEntries
  <2>2. \A j \in 1..Len(s) : s[j].hash \in C => t[j].hash \in C
    BY <1>3, <2>1 DEF Same
  <2> QED
    BY <1>1, <1>3, <2>1, <2>2
<1> QED
  BY <1>2, <1>3 DEF Offered

\* The frontier after at most d restores, when the states in K were recorded.
FrontierInv(q, d, K) ==
  /\ DOMAIN q = {"entries", "stale"}
  /\ GoodEntries(q.entries, d)
  /\ Apart(q.entries)
  /\ Len(q.entries) < FrontierMaxSize => Remembers(q.entries, K)

\* The frontier before the episode.
LEMMA EmptyFrontier == FrontierInv(EmptyQueue, 0, {})
<1>1. /\ DOMAIN EmptyQueue = {"entries", "stale"}
      /\ EmptyQueue.entries = << >>
  BY DEF EmptyQueue
<1>2. << >> \in Seq({}) /\ Len(<< >>) = 0
  OBVIOUS
<1> QED
  BY <1>1, <1>2 DEF FrontierInv, GoodEntries, Apart, Remembers

\* Recording an entry.
LEMMA AddKeepsFrontier ==
  ASSUME NEW q, NEW d \in Nat, NEW K \in SUBSET Worlds, FrontierInv(q, d, K),
         NEW e, GoodEntry(e, d)
  PROVE  /\ FrontierInv(Add(q, e), d, K \cup {e.hash})
         /\ Len(Add(q, e).entries) \in 1..FrontierMaxSize
<1> DEFINE s == q.entries
           r == Add(q, e)
<1>1. GoodEntries(s, d) /\ DOMAIN q = {"entries", "stale"}
  BY DEF FrontierInv
<1>2. PICK S : s \in Seq(S)
  BY <1>1 DEF GoodEntries
<1>3. HasKeys(s) /\ EntryKeys \subseteq DOMAIN e
  BY <1>1 DEF HasKeys, GoodEntries, GoodEntry
<1>4. /\ DOMAIN r = DOMAIN q
      /\ \E t : /\ \E T : t \in Seq(T)
                /\ Offered(s, e, t)
                /\ Rearranged(r.entries, t)
  BY <1>1, <1>2, <1>3, AddOffers
<1> HIDE DEF r, s
<1>5. PICK t : /\ \E T : t \in Seq(T)
               /\ Offered(s, e, t)
               /\ Rearranged(r.entries, t)
  BY <1>4
<1>6. GoodEntries(t, d) /\ Len(t) > 0
  BY <1>1, <1>5, OfferedIsGood
<1>7. GoodEntries(r.entries, d) /\ Len(r.entries) \in 1..FrontierMaxSize
  BY <1>5, <1>6, RearrangedIsGood
<1>8. Apart(r.entries)
  <2>1. Apart(s)
    BY DEF FrontierInv, s
  <2>2. Apart(t)
    BY <1>1, <1>5, <2>1, OfferedIsApart
  <2> QED
    BY <1>5, <2>2, RearrangedIsApart
<1>9. Len(r.entries) < FrontierMaxSize => Remembers(r.entries, K \cup {e.hash})
  <2> SUFFICES ASSUME Len(r.entries) < FrontierMaxSize
               PROVE  Remembers(r.entries, K \cup {e.hash})
    OBVIOUS
  <2>1. Len(s) \in Nat /\ Len(t) \in Nat
    BY <1>2, <1>6 DEF GoodEntries
  <2>2. Len(s) <= Len(t)
    <3>1. CASE \E x : t = Append(s, x)
      <4>1. PICK x : t = Append(s, x)
        BY <3>1
      <4>2. s \in Seq(S \cup {x})
        BY <1>2
      <4> QED
        BY <2>1, <4>1, <4>2
    <3>2. CASE Len(t) = Len(s)
      BY <2>1, <3>2
    <3> QED
      BY <1>5, <3>1, <3>2 DEF Offered
  <2>3. Len(t) < FrontierMaxSize => Remembers(t, K \cup {e.hash})
    <3> SUFFICES ASSUME Len(t) < FrontierMaxSize PROVE Remembers(t, K \cup {e.hash})
      OBVIOUS
    <3>1. Len(s) < FrontierMaxSize
      BY <2>1, <2>2, StateFrontierAssumption
    <3>2. Remembers(s, K)
      BY <3>1 DEF FrontierInv, s
    <3> QED
      BY <1>1, <1>5, <3>2, OfferedRemembers
  <2> QED
    BY <1>5, <2>1, <2>3, RearrangedRemembers
<1>10. FrontierInv(r, d, K \cup {e.hash})
  BY <1>1, <1>4, <1>7, <1>8, <1>9 DEF FrontierInv
<1> QED
  BY <1>7, <1>10 DEF r

\* Noting how a revisit went.
LEMMA RevisitKeepsFrontier ==
  ASSUME NEW q, NEW d \in Nat, NEW K \in SUBSET Worlds, FrontierInv(q, d, K),
         Len(q.entries) > 0, NEW e, NEW progressed
  PROVE  /\ FrontierInv(NoteRevisit(q, e, progressed), d, K)
         /\ Len(NoteRevisit(q, e, progressed).entries) \in 1..FrontierMaxSize
<1> DEFINE s == q.entries
           r == NoteRevisit(q, e, progressed)
<1>1. GoodEntries(s, d) /\ DOMAIN q = {"entries", "stale"}
  BY DEF FrontierInv
<1>2. (\E S : s \in Seq(S)) /\ HasKeys(s)
  BY <1>1 DEF HasKeys, GoodEntries, GoodEntry
<1>3. DOMAIN r = DOMAIN q /\ Rearranged(r.entries, s)
  BY <1>1, <1>2, RevisitRearranges
<1> HIDE DEF r
<1>4. GoodEntries(r.entries, d) /\ Len(r.entries) \in 1..FrontierMaxSize
  BY <1>1, <1>3, RearrangedIsGood
<1>5. Apart(r.entries)
  BY <1>3, RearrangedIsApart DEF FrontierInv
<1>6. Len(r.entries) < FrontierMaxSize => Remembers(r.entries, K)
  <2>1. Len(s) \in Nat
    BY <1>2
  <2>2. Len(s) < FrontierMaxSize => Remembers(s, K)
    BY DEF FrontierInv
  <2> QED
    BY <1>3, <2>1, <2>2, RearrangedRemembers
<1>7. FrontierInv(r, d, K)
  BY <1>1, <1>3, <1>4, <1>5, <1>6 DEF FrontierInv
<1> QED
  BY <1>4, <1>7 DEF r

\* One more restore.
LEMMA FrontierForMore ==
  ASSUME NEW q, NEW d \in Nat, NEW K, FrontierInv(q, d, K)
  PROVE  FrontierInv(q, d + 1, K)
<1>1. GoodEntries(q.entries, d + 1)
  <2>1. d <= d + 1 /\ d + 1 \in Nat
    OBVIOUS
  <2> QED
    BY <2>1, GoodForMore DEF FrontierInv
<1> QED
  BY <1>1 DEF FrontierInv

\* What is recorded of a state.
LEMMA EntryForIsGood ==
  ASSUME NEW w \in Worlds, NEW m, NEW node, NEW strategic, NEW d,
         SoundNode(node, GameTexts), NodeDrift(node) \in 0..d
  PROVE  GoodEntry(EntryFor(w, m, node, strategic), d) /\ EntryFor(w, m, node, strategic).hash = w
<1> DEFINE e == EntryFor(w, m, node, strategic)
<1>1. /\ EntryKeys \subseteq DOMAIN e
      /\ e.hash = w /\ e.text = SummaryOf(w, node.stepIndex + 1, m.gain)
      /\ e.id = <<node.stepIndex, w>> /\ e.node = node
  BY DEF EntryFor, EntryKeys
<1> HIDE DEF e
<1>2. e.id[2] = w
  BY <1>1
<1>3. e.text.depth = node.stepIndex + 1 /\ e.text.gain = m.gain
  BY <1>1 DEF SummaryOf
<1> QED
  BY <1>1, <1>2, <1>3 DEF GoodEntry, e

-----------------------------------------------------------------------------
(* Choices. *)

\* What is selected is an entry of the frontier.
LEMMA SelectionIsAnEntry ==
  ASSUME \E S : queue.entries \in Seq(S), NEW guidance, NEW selected \in Selections(guidance)
  PROVE  \E i \in 1..Len(queue.entries) : selected = queue.entries[i]
<1> DEFINE s == queue.entries
           n == Len(s)
           near == {i \in 1..Min({8, n}) : s[i].cluster = guidance.preferred}
           k == Min({SelectorTopK, n})
<1>1. n \in Nat /\ SelectorTopK \in Nat
  BY LegacyEpisodeAssumption
<1>2. k \in Nat /\ k <= n
  BY <1>1, MinOfTwo
<1>3. Min({8, n}) \in Nat /\ Min({8, n}) <= n
  BY <1>1, MinOfTwo
<1>4. PICK e \in TopEntries(queue, SelectorTopK) : selected = Overridden(e, guidance)
  BY DEF Selections
<1>5. \E i \in 1..n : e = s[i]
  <2>1. e \in ToSet(SubSeq(s, 1, k))
    BY <1>4 DEF TopEntries
  <2> HIDE DEF k
  <2>2. DOMAIN SubSeq(s, 1, k) = 1..k /\ \A i \in 1..k : SubSeq(s, 1, k)[i] = s[i]
    BY <1>1, <1>2
  <2>3. PICK i \in 1..k : e = s[i]
    BY <2>1, <2>2 DEF ToSet
  <2> QED
    BY <1>1, <1>2, <2>3
<1>6. CASE selected = e
  BY <1>5, <1>6
<1>7. CASE near # {} /\ selected = s[Min(near)]
  <2>1. near \in SUBSET (1..n) /\ near \in SUBSET Nat
    BY <1>1, <1>3
  <2>2. Min(near) \in near
    <3> HIDE DEF near
    <3> QED
      BY <1>7, <2>1, LeastNumber
  <2>3. Min(near) \in 1..n
    BY <2>1, <2>2
  <2> QED
    BY <1>7, <2>3
<1>8. selected = e \/ (near # {} /\ selected = s[Min(near)])
  BY <1>4 DEF Overridden
<1> QED
  BY <1>6, <1>7, <1>8

\* The plan that is kept is a sequence of actions no longer than a branch.
LEMMA PlansTyped ==
  ASSUME NEW selected, NEW p \in PlansFrom(selected)
  PROVE  p.plan \in Seq(Actions) /\ Len(p.plan) <= RolloutDepth
<1>0. RolloutDepth \in Nat /\ BranchCommitSteps \in Nat
  BY LegacyEpisodeAssumption
<1>1. CASE p.plan = << >>
  BY <1>0, <1>1
<1>2. ASSUME NEW b \in Branches, NEW i \in 0..Len(b), p.plan = Committed(b, i)
      PROVE  p.plan \in Seq(Actions) /\ Len(p.plan) <= RolloutDepth
  <2>1. PICK n \in 1..RolloutDepth : b \in [1..n -> Actions]
    BY DEF Branches
  <2>2. b \in Seq(Actions) /\ Len(b) = n /\ n \in Nat /\ n <= RolloutDepth
    BY <1>0, <2>1, FunctionIsSeq
  <2> DEFINE x == IF i > 0 THEN i ELSE Min({Len(b), BranchCommitSteps})
  <2>3. x \in 0..n
    BY <1>0, <2>2, MinOfTwo
  <2>4. p.plan = SubSeq(b, 1, x)
    BY <1>2 DEF Committed
  <2> HIDE DEF x
  <2> QED
    BY <1>0, <2>2, <2>3, <2>4
<1>3. p.plan = << >> \/ \E b \in Branches : \E i \in 0..Len(b) : p.plan = Committed(b, i)
  BY DEF PlansFrom
<1> QED
  BY <1>1, <1>2, <1>3

-----------------------------------------------------------------------------
(* The episode. *)

\* The wrapper and the snapshot of the state last seen are true of their machine
\* states, and their step indices ahead by the restores made at most.
Wrapped ==
  /\ Sound(env, GameTexts) /\ Drift(env) \in 0..attempts
  /\ SoundNode(snapshot, GameTexts) /\ NodeDrift(snapshot) \in 0..attempts
  /\ snapshot.world = Current

\* What was played; every step of it a step of the game until a restore fails.
Played ==
  /\ views \in Seq(Worlds) /\ acts \in Seq(Actions) /\ Len(views) = Len(acts) + 1
  /\ Len(acts) <= MaxSteps /\ (phase = "act" => Len(acts) < MaxSteps)
  /\ views[1] = SeededStart
  /\ ~lost => /\ env.world = Current
              /\ \A i \in 1..Len(acts) : views[i + 1] = Move[<<views[i], acts[i]>>]

Counted ==
  /\ phase \in {"loop", "act", "over", "died"}
  /\ pending \in Seq(Actions) /\ Len(pending) <= RolloutDepth
  /\ attempts \in 0..MaxReplayAttempts /\ cooldown \in 0..PostGainCooldown
  /\ stall.quiet \in 0..Len(acts) /\ stall.moves \in 0..stall.quiet
  /\ known \subseteq Worlds /\ lost \in BOOLEAN

Kept == FrontierInv(queue, attempts, known) /\ Len(queue.entries) \in 1..FrontierMaxSize

(***************************************************************************)
(* The inductive invariant.  That the entries and the snapshot are true of *)
(* their machine states, which no property says, is what makes a restore   *)
(* lead where it should; the actions of the history of a wrapper explain   *)
(* its state, so that a replay that starts where the snapshot did arrives  *)
(* at the state last seen.                                                 *)
(***************************************************************************)
EpisodeInv == Wrapped /\ Played /\ Counted /\ Kept

\* The settings are natural numbers.
LEMMA Settings ==
  /\ MaxSteps \in Nat /\ MaxReplayAttempts \in Nat /\ PostGainCooldown \in Nat
  /\ RolloutDepth \in Nat /\ FrontierMaxSize \in Nat
BY LegacyEpisodeAssumption, StateFrontierAssumption

\* A node of the state just seen is true of it.
LEMMA SeenNode ==
  ASSUME NEW e, Sound(e, GameTexts), NEW d, Drift(e) \in 0..d
  PROVE  LET node == NodeAt(e, NativeOf(e), e.stepIndex)
         IN  /\ SoundNode(node, GameTexts) /\ NodeDrift(node) \in 0..d
             /\ node.world = e.world
<1> DEFINE node == NodeAt(e, NativeOf(e), e.stepIndex)
<1>1. NativeOf(e) \in {e.world, NoNative} /\ e.stepIndex \in Nat \cup {-1}
  BY DEF NativeOf, Sound, Wrappers
<1>2. SoundNode(node, GameTexts)
  BY <1>1, NodeAtIsSound
<1>3. node.stepIndex = e.stepIndex /\ node.prefix = e.history /\ node.world = e.world
  BY DEF NodeAt
<1>4. NodeDrift(node) = Drift(e)
  BY <1>3 DEF NodeDrift, Drift
<1> QED
  BY <1>2, <1>3, <1>4

\* The episode starts at the seeded reset, with one entry.
LEMMA InitEpisodeInv == Init => EpisodeInv
<1> SUFFICES ASSUME Init PROVE EpisodeInv
  OBVIOUS
<1> DEFINE start == EnvReset(SeededStart)
           node == NodeAt(start, NativeOf(start), 0)
           entry == EntryFor(SeededStart, Unmeasured, node,
                             StrategicScore(map, Cluster[SeededStart]))
<1>1. /\ phase = "loop" /\ env = start /\ snapshot = node
      /\ views = <<SeededStart>> /\ acts = << >> /\ pending = << >>
      /\ attempts = 0 /\ cooldown = 0
      /\ stall.quiet = 0 /\ stall.moves = 0
      /\ known = {SeededStart} /\ lost = FALSE
      /\ queue = Add(EmptyQueue, entry)
  BY DEF Init
<1>2. SeededStart \in Starts /\ SeededStart \in Worlds
  BY GameAssumption DEF GameAssumption
<1>3. Sound(start, GameTexts) /\ Drift(start) \in 0..0
  <2>1. start.history = << >> /\ start.stepIndex = 0
    BY DEF EnvReset
  <2>2. Len(<< >>) = 0
    OBVIOUS
  <2>3. Drift(start) = 0
    <3> HIDE DEF start
    <3>1. Drift(start) = 0 - 0
      BY <2>1, <2>2 DEF Drift
    <3> QED
      BY <3>1
  <2> QED
    BY <1>2, <2>3, GameTextsAreTexts, ResetIsSound
<1>4. start.stepIndex = 0 /\ start.world = SeededStart
  BY DEF EnvReset
<1>5. SoundNode(node, GameTexts) /\ NodeDrift(node) \in 0..0 /\ node.world = SeededStart
  BY <1>3, <1>4, SeenNode
<1>6. /\ views \in Seq(Worlds) /\ Len(views) = 1 /\ views[1] = SeededStart
      /\ acts \in Seq(Actions) /\ Len(acts) = 0 /\ Current = SeededStart
  BY <1>1, <1>2 DEF Current, Last
<1> HIDE DEF start, node
<1>7. Wrapped
  BY <1>1, <1>3, <1>5, <1>6 DEF Wrapped
<1>8. Played
  BY <1>1, <1>4, <1>6, Settings DEF Played
<1>9. Counted
  <2>1. pending \in Seq(Actions) /\ Len(pending) = 0
    BY <1>1
  <2>2. phase \in {"loop", "act", "over", "died"} /\ lost \in BOOLEAN /\ known \subseteq Worlds
    BY <1>1, <1>2
  <2>3. /\ attempts \in 0..MaxReplayAttempts /\ cooldown \in 0..PostGainCooldown
        /\ stall.quiet \in 0..Len(acts) /\ stall.moves \in 0..stall.quiet
        /\ Len(pending) <= RolloutDepth
    BY <1>1, <1>6, <2>1, Settings
  <2> QED
    BY <2>1, <2>2, <2>3 DEF Counted
<1>10. Kept
  <2>1. GoodEntry(entry, 0) /\ entry.hash = SeededStart
    BY <1>2, <1>5, EntryForIsGood
  <2> HIDE DEF entry
  <2>2. 0 \in Nat /\ {} \in SUBSET Worlds
    OBVIOUS
  <2>3. /\ FrontierInv(Add(EmptyQueue, entry), 0, {} \cup {entry.hash})
        /\ Len(Add(EmptyQueue, entry).entries) \in 1..FrontierMaxSize
    BY <2>1, <2>2, EmptyFrontier, AddKeepsFrontier
  <2>4. {} \cup {entry.hash} = known
    BY <1>1, <2>1
  <2> QED
    BY <1>1, <2>3, <2>4 DEF Kept
<1> QED
  BY <1>7, <1>8, <1>9, <1>10 DEF EpisodeInv

\* The frontier after a step.
LEMMA StepKeepsFrontier ==
  ASSUME Kept, Counted, NEW w \in Worlds, NEW m, NEW node, NEW strategic, NEW recorded,
         SoundNode(node, GameTexts), NodeDrift(node) \in 0..attempts,
         NEW q, NEW K,
         \/ q = queue /\ K = known
         \/ q = Add(queue, EntryFor(w, m, node, strategic)) /\ K = known \cup {w}
  PROVE  FrontierInv(q, attempts, K) /\ Len(q.entries) \in 1..FrontierMaxSize
<1>1. FrontierInv(queue, attempts, known) /\ Len(queue.entries) \in 1..FrontierMaxSize
  BY DEF Kept
<1>2. attempts \in Nat /\ known \in SUBSET Worlds
  BY Settings DEF Counted
<1>3. CASE q = queue /\ K = known
  BY <1>1, <1>3
<1>4. CASE q = Add(queue, EntryFor(w, m, node, strategic)) /\ K = known \cup {w}
  <2> DEFINE e == EntryFor(w, m, node, strategic)
  <2>1. GoodEntry(e, attempts) /\ e.hash = w
    BY EntryForIsGood
  <2> HIDE DEF e
  <2>2. /\ FrontierInv(Add(queue, e), attempts, known \cup {e.hash})
        /\ Len(Add(queue, e).entries) \in 1..FrontierMaxSize
    BY <1>1, <1>2, <2>1, AddKeepsFrontier
  <2> QED
    BY <1>4, <2>1, <2>2 DEF e
<1> QED
  BY <1>3, <1>4

\* A step of the game, taken from the head of the loop or after planning.
LEMMA StepEpisodeInv ==
  ASSUME EpisodeInv, NEW a \in ActionChoices, TakeStep(a)
  PROVE  EpisodeInv'
<1> DEFINE next == EnvStep(env, a)
           v == Current
           w == next.world
           m == Measured(a, w)
           node == NodeAt(next, NativeOf(next), next.stepIndex)
           moved == RecordTransition(map, a, v, w)
           strategic == StrategicScore(RecordState(moved, w), Cluster[w])
           n == Len(acts)
<1>1. /\ phase \in {"loop", "act"} /\ MayStep
      /\ env' = next /\ snapshot' = node
      /\ views' = Append(views, w) /\ acts' = Append(acts, a)
      /\ pending' = RestOfPlan(a, w, m)
      /\ cooldown' = Cooled(m.gain)
      /\ stall' = Stalled(a, w)
      /\ phase' \in {"loop", "over"}
      /\ attempts' = attempts /\ lost' = lost
  BY DEF TakeStep
<1>2. \/ queue' = queue /\ known' = known
      \/ queue' = Add(queue, EntryFor(w, m, node, strategic)) /\ known' = known \cup {w}
  BY DEF TakeStep, RecordFrontierState
<1> HIDE DEF m, strategic
<1>3. Wrapped /\ Played /\ Counted /\ Kept
  BY DEF EpisodeInv
<1>4. a \in Actions
  <2>1. pending \in Seq(Actions)
    BY <1>3 DEF Counted
  <2>2. CASE pending = << >>
    BY <2>2 DEF ActionChoices
  <2>3. CASE pending # << >>
    BY <2>1, <2>3 DEF ActionChoices
  <2> QED
    BY <2>2, <2>3
<1>5. /\ Sound(next, GameTexts) /\ Drift(next) \in 0..attempts
      /\ w = Move[<<env.world, a>>] /\ w \in Worlds
  <2>1. Sound(env, GameTexts) /\ Drift(env) \in 0..attempts
    BY <1>3 DEF Wrapped
  <2>2. env \in Wrappers(GameTexts) /\ Explained(env)
    BY <2>1 DEF Sound
  <2>3. /\ next \in Wrappers(GameTexts) /\ Explained(next) /\ SeesTheWorld(next)
        /\ w = Move[<<env.world, a>>]
    BY <1>4, <2>2, GameTextsAreTexts, StepIsSound
  <2>4. Drift(next) = Drift(env)
    BY <1>4, <2>2, StepKeepsDrift
  <2> QED
    BY <2>1, <2>3, <2>4 DEF Sound, Wrappers
<1>6. SoundNode(node, GameTexts) /\ NodeDrift(node) \in 0..attempts /\ node.world = w
  BY <1>5, SeenNode
<1> HIDE DEF next, node
<1>7. /\ n \in Nat /\ Len(acts') = n + 1 /\ Len(views') = n + 2
      /\ views' \in Seq(Worlds) /\ acts' \in Seq(Actions)
      /\ \A i \in 1..n : acts'[i] = acts[i]
      /\ \A i \in 1..(n + 1) : views'[i] = views[i]
      /\ acts'[n + 1] = a /\ views'[n + 2] = w /\ views[n + 1] = v
  <2> HIDE DEF w, v
  <2>1. views \in Seq(Worlds) /\ acts \in Seq(Actions) /\ Len(views) = n + 1 /\ n \in Nat
    BY <1>3 DEF Played
  <2>2. v = views[n + 1]
    BY <2>1 DEF v, Current, Last
  <2> HIDE DEF n
  <2>3. Len(acts) = n
    BY DEF n
  <2>4. w \in Worlds
    BY <1>5 DEF w
  <2>5. views' = Append(views, w) /\ acts' = Append(acts, a)
    BY <1>1 DEF w
  <2> QED
    BY <1>4, <2>1, <2>2, <2>3, <2>4, <2>5
<1>8. Current' = w
  <2>1. Current' = views'[Len(views')]
    BY DEF Current, Last
  <2> QED
    BY <1>7, <2>1
<1>9. n < MaxSteps
  <2>1. CASE phase = "loop"
    BY <1>1, <2>1 DEF MayStep, Continues
  <2>2. CASE phase = "act"
    BY <1>3, <2>2 DEF Played
  <2> QED
    BY <1>1, <2>1, <2>2
<1>10. Wrapped'
  BY <1>1, <1>5, <1>6, <1>8 DEF Wrapped
<1>11. Played'
  <2>1. views' \in Seq(Worlds) /\ acts' \in Seq(Actions) /\ Len(views') = Len(acts') + 1
    BY <1>7
  <2>2. Len(acts') <= MaxSteps /\ (phase' = "act" => Len(acts') < MaxSteps)
    BY <1>1, <1>7, <1>9, Settings
  <2>3. views'[1] = SeededStart
    <3>1. 1 \in 1..(n + 1) /\ views[1] = SeededStart
      BY <1>3, <1>7 DEF Played
    <3> QED
      BY <1>7, <3>1
  <2>4. ASSUME ~lost'
        PROVE  /\ env'.world = Current'
               /\ \A i \in 1..Len(acts') : views'[i + 1] = Move[<<views'[i], acts'[i]>>]
    <3>1. /\ env.world = v
          /\ \A i \in 1..n : views[i + 1] = Move[<<views[i], acts[i]>>]
      BY <1>1, <1>3, <2>4 DEF Played
    <3>2. env'.world = Current'
      BY <1>1, <1>8
    <3>3. ASSUME NEW i \in 1..(n + 1) PROVE views'[i + 1] = Move[<<views'[i], acts'[i]>>]
      <4>1. CASE i = n + 1
        <5>1. i + 1 = n + 2 /\ views'[i] = v /\ acts'[i] = a
          BY <1>7, <4>1
        <5> QED
          BY <1>5, <1>7, <3>1, <5>1
      <4>2. CASE i # n + 1
        <5>1. i \in 1..n /\ i \in 1..(n + 1) /\ i + 1 \in 1..(n + 1)
          BY <1>7, <4>2
        <5>2. views'[i + 1] = views[i + 1] /\ views'[i] = views[i] /\ acts'[i] = acts[i]
          BY <1>7, <5>1
        <5> QED
          BY <3>1, <5>1, <5>2
      <4> QED
        BY <4>1, <4>2
    <3> QED
      BY <1>7, <3>2, <3>3
  <2> HIDE DEF w, v, n
  <2> QED
    BY <2>1, <2>2, <2>3, <2>4 DEF Played
<1>12. Counted'
  <2>1. pending' \in Seq(Actions) /\ Len(pending') <= RolloutDepth
    <3>1. pending \in Seq(Actions) /\ Len(pending) <= RolloutDepth
      BY <1>3 DEF Counted
    <3>2. pending' = << >> \/ (pending # << >> /\ pending' = Tail(pending))
      BY <1>1 DEF RestOfPlan
    <3>3. CASE pending' = << >>
      BY <3>3, Settings
    <3>4. CASE pending # << >> /\ pending' = Tail(pending)
      <4>1. Tail(pending) \in Seq(Actions) /\ Len(Tail(pending)) = Len(pending) - 1
        BY <3>1, <3>4
      <4> QED
        BY <3>1, <3>4, <4>1, Settings
    <3> QED
      BY <3>2, <3>3, <3>4
  <2>2. cooldown' \in 0..PostGainCooldown
    <3>1. cooldown \in 0..PostGainCooldown /\ PostGainCooldown \in Nat
      BY <1>3, Settings DEF Counted
    <3>2. cooldown' \in {Max({cooldown, PostGainCooldown}), Max({cooldown - 1, 0})}
      BY <1>1 DEF Cooled
    <3>3. Max({cooldown, PostGainCooldown}) \in 0..PostGainCooldown
      BY <3>1, MaxOfTwo
    <3>4. Max({cooldown - 1, 0}) \in 0..PostGainCooldown
      BY <3>1, MaxOfTwo
    <3> QED
      BY <3>2, <3>3, <3>4
  <2>3. stall'.quiet \in 0..Len(acts') /\ stall'.moves \in 0..stall'.quiet
    <3>1. stall.quiet \in 0..n /\ stall.moves \in 0..stall.quiet
      BY <1>3 DEF Counted
    <3>2. \/ stall'.quiet = 0 /\ stall'.moves = 0
          \/ stall'.quiet = stall.quiet + 1 /\ stall'.moves \in {stall.moves + 1, 0}
      BY <1>1 DEF Stalled
    <3> QED
      BY <1>7, <3>1, <3>2
  <2>4. known' \subseteq Worlds
    BY <1>2, <1>3, <1>5 DEF Counted
  <2> HIDE DEF w, v, n
  <2> QED
    BY <1>1, <1>3, <2>1, <2>2, <2>3, <2>4 DEF Counted
<1>13. Kept'
  <2>1. FrontierInv(queue', attempts, known') /\ Len(queue'.entries) \in 1..FrontierMaxSize
    <3> HIDE DEF w, v, n
    <3>1. w \in Worlds
      BY <1>5
    <3> QED
      BY <1>2, <1>3, <1>6, <3>1, StepKeepsFrontier
  <2> QED
    BY <1>1, <2>1 DEF Kept
<1> QED
  BY <1>10, <1>11, <1>12, <1>13 DEF EpisodeInv

\* Planning, which restores the state selected and then the one last seen.
LEMMA PlanEpisodeInv ==
  ASSUME EpisodeInv, Plan
  PROVE  EpisodeInv'
<1>1. /\ phase = "loop" /\ Continues /\ attempts < MaxReplayAttempts
      /\ attempts' = attempts + 1 /\ phase' = "act"
      /\ UNCHANGED <<views, acts, snapshot, cooldown, stall, known>>
  BY DEF Plan, PlanningIsDue, PlanWhileCoolingDown, progress
<1>2. PICK selected \in Selections(CurrentGuidance) :
        \E outcome \in RestoreOutcomes(env, selected.node, UnrecordedSteps(selected.node)) :
          PlanFromRestored(selected, outcome) \/ GiveUpPlanning(selected, outcome)
  BY DEF Plan
<1>3. PICK outcome \in RestoreOutcomes(env, selected.node, UnrecordedSteps(selected.node)) :
          PlanFromRestored(selected, outcome) \/ GiveUpPlanning(selected, outcome)
  BY <1>2
<1>4. Wrapped /\ Played /\ Counted /\ Kept
  BY DEF EpisodeInv
<1>5. attempts \in Nat /\ MaxReplayAttempts \in Nat
  BY <1>4, Settings DEF Counted
<1>6. SoundNode(selected.node, GameTexts) /\ NodeDrift(selected.node) \in 0..attempts
  <2>1. GoodEntries(queue.entries, attempts)
    BY <1>4 DEF Kept, FrontierInv
  <2>2. PICK i \in 1..Len(queue.entries) : selected = queue.entries[i]
    BY <2>1, SelectionIsAnEntry DEF GoodEntries
  <2> QED
    BY <2>1, <2>2 DEF GoodEntries, GoodEntry
<1>7. Sound(outcome.env, GameTexts) /\ Drift(outcome.env) \in 0..(attempts + 1)
  <2>1. env \in Wrappers(GameTexts)
    BY <1>4 DEF Wrapped, Sound
  <2>2. Restored(outcome, selected.node, GameTexts)
    BY <1>6, <2>1, GameTextsAreTexts, RestoreIsSound
  <2>3. Drift(outcome.env) \in {0, selected.node.stepIndex + 1 - Len(selected.node.prefix)}
    BY <1>6, <2>1, GameTextsAreTexts, RestoreDrift
  <2>4. selected.node.stepIndex \in Int /\ Len(selected.node.prefix) \in Nat
    BY <1>6 DEF SoundNode, Nodes
  <2>5. selected.node.stepIndex + 1 - Len(selected.node.prefix) = NodeDrift(selected.node) + 1
    <3> DEFINE k == selected.node.stepIndex
               l == Len(selected.node.prefix)
    <3>1. k \in Int /\ l \in Int /\ NodeDrift(selected.node) = k - l
      BY <2>4 DEF NodeDrift
    <3> HIDE DEF k, l
    <3>2. k + 1 - l = NodeDrift(selected.node) + 1
      BY <3>1
    <3> QED
      BY <3>2 DEF k, l
  <2> QED
    BY <1>5, <1>6, <2>2, <2>3, <2>5 DEF Restored
<1>8. ASSUME NEW e \in RestoredEpisode(outcome.env)
      PROVE  /\ Sound(e, GameTexts) /\ Drift(e) \in 0..(attempts + 1)
             /\ e.start = snapshot.start => e.world = Current
  <2>1. outcome.env \in Wrappers(GameTexts) /\ e \in SnapshotOutcomes(outcome.env, snapshot)
    BY <1>7 DEF Sound, RestoredEpisode
  <2>2. /\ SoundNode(snapshot, GameTexts) /\ NodeDrift(snapshot) \in 0..attempts
        /\ snapshot.world = Current
    BY <1>4 DEF Wrapped
  <2>3. Sound(e, GameTexts) /\ e.history = snapshot.prefix
    BY <2>1, <2>2, GameTextsAreTexts, SnapshotRestoreIsSound
  <2>4. Drift(e) \in {0, snapshot.stepIndex + 1 - Len(snapshot.prefix)}
    BY <2>1, <2>2, GameTextsAreTexts, SnapshotDrift
  <2>5. snapshot.stepIndex \in Int /\ Len(snapshot.prefix) \in Nat
    BY <2>2 DEF SoundNode, Nodes
  <2>6. snapshot.stepIndex + 1 - Len(snapshot.prefix) = NodeDrift(snapshot) + 1
    BY <2>5 DEF NodeDrift
  <2>7. Drift(e) \in 0..(attempts + 1)
    BY <1>5, <2>2, <2>4, <2>6
  <2>8. e.start = snapshot.start => e.world = Current
    BY <2>2, <2>3 DEF Sound, Explained, SoundNode
  <2> QED
    BY <2>3, <2>7, <2>8
<1>9. /\ Sound(env', GameTexts) /\ Drift(env') \in 0..(attempts + 1)
      /\ pending' \in Seq(Actions) /\ Len(pending') <= RolloutDepth
      /\ \E progressed : queue' = NoteRevisit(queue, selected, progressed)
      /\ lost' \in BOOLEAN
      /\ ~lost' => ~lost /\ env'.world = Current
  <2>1. CASE PlanFromRestored(selected, outcome)
    <3>1. PICK e \in RestoredEpisode(outcome.env), p \in PlansFrom(selected) :
             /\ env' = e
             /\ pending' = p.plan
             /\ queue' = NoteRevisit(queue, selected, p.progressed)
             /\ lost' = (lost \/ e.start # snapshot.start)
      BY <2>1 DEF PlanFromRestored
    <3>2. p.plan \in Seq(Actions) /\ Len(p.plan) <= RolloutDepth
      BY PlansTyped
    <3>3. lost' \in BOOLEAN /\ (~lost' => ~lost /\ e.start = snapshot.start)
      BY <3>1
    <3> QED
      BY <1>8, <3>1, <3>2, <3>3
  <2>2. CASE GiveUpPlanning(selected, outcome)
    <3>1. /\ env' = outcome.env /\ lost' = TRUE /\ pending' = pending
          /\ queue' = NoteRevisit(queue, selected, FALSE)
      BY <2>2 DEF GiveUpPlanning
    <3> QED
      BY <1>4, <1>7, <3>1 DEF Counted
  <2> QED
    BY <1>3, <2>1, <2>2
<1>10. Current' = Current
  BY <1>1 DEF Current
<1>11. Wrapped'
  <2>1. NodeDrift(snapshot) \in 0..(attempts + 1)
    BY <1>4, <1>5 DEF Wrapped
  <2> QED
    BY <1>1, <1>4, <1>9, <1>10, <2>1 DEF Wrapped
<1>12. Played'
  <2>1. Len(acts) < MaxSteps
    BY <1>1 DEF Continues
  <2> QED
    BY <1>1, <1>4, <1>9, <1>10, <2>1 DEF Played
<1>13. Counted'
  <2>1. attempts + 1 \in 0..MaxReplayAttempts
    BY <1>1, <1>5
  <2> QED
    BY <1>1, <1>4, <1>9, <2>1 DEF Counted
<1>14. Kept'
  <2>1. PICK progressed : queue' = NoteRevisit(queue, selected, progressed)
    BY <1>9
  <2>2. FrontierInv(queue, attempts, known) /\ Len(queue.entries) > 0 /\ known \in SUBSET Worlds
    BY <1>4 DEF Kept, Counted
  <2>3. FrontierInv(queue, attempts + 1, known) /\ attempts + 1 \in Nat
    BY <1>5, <2>2, FrontierForMore
  <2>4. FrontierInv(queue', attempts + 1, known) /\ Len(queue'.entries) \in 1..FrontierMaxSize
    BY <2>1, <2>2, <2>3, RevisitKeepsFrontier
  <2> QED
    BY <1>1, <2>4 DEF Kept
<1> QED
  BY <1>11, <1>12, <1>13, <1>14 DEF EpisodeInv

\* The episode ends without touching anything.
LEMMA EndEpisodeInv ==
  ASSUME EpisodeInv, UNCHANGED <<env, pending, attempts, queue, lost, progress>>,
         phase' = phase \/ phase' \in {"over", "died"}
  PROVE  EpisodeInv'
<1>1. /\ UNCHANGED <<env, pending, attempts, queue, lost, snapshot>>
      /\ UNCHANGED <<views, acts, cooldown, stall, known>>
  BY DEF progress
<1>2. Wrapped /\ Played /\ Counted /\ Kept
  BY DEF EpisodeInv
<1>3. Wrapped' /\ Kept'
  BY <1>1, <1>2 DEF Wrapped, Kept, Current
<1>4. Played'
  BY <1>1, <1>2 DEF Played, Current
<1>5. Counted'
  BY <1>1, <1>2 DEF Counted
<1> QED
  BY <1>3, <1>4, <1>5 DEF EpisodeInv

\* The invariant holds through the episode.
LEMMA SpecEpisodeInv == Spec => []EpisodeInv
<1>1. EpisodeInv /\ [Next]_vars => EpisodeInv'
  <2> SUFFICES ASSUME EpisodeInv, [Next]_vars PROVE EpisodeInv'
    OBVIOUS
  <2>1. CASE Plan
    BY <2>1, PlanEpisodeInv
  <2>2. CASE \E a \in ActionChoices : TakeStep(a)
    BY <2>2, StepEpisodeInv
  <2>3. CASE PlanningRaises \/ (\E a \in ActionChoices : StepRaises(a)) \/ End
    BY <2>3, EndEpisodeInv DEF PlanningRaises, StepRaises, End
  <2>4. CASE UNCHANGED vars
    BY <2>4, EndEpisodeInv DEF vars
  <2> QED
    BY <2>1, <2>2, <2>3, <2>4 DEF Next
<1> QED
  BY InitEpisodeInv, <1>1, PTL DEF Spec

\* The variables keep their types and their bounds: the steps, the restores, the
\* rest of the plan, the wait after a gain, the fail-fast counters, the frontier.
THEOREM TypeCorrect == Spec => []TypeOK
<1>1. EpisodeInv => TypeOK
  <2> SUFFICES ASSUME EpisodeInv PROVE TypeOK
    OBVIOUS
  <2>1. Wrapped /\ Played /\ Counted /\ Kept
    BY DEF EpisodeInv
  <2>2. env.world \in Worlds /\ env.history \in Seq(Actions) /\ env.stepIndex \in Nat
    BY <2>1 DEF Wrapped, Sound, Wrappers
  <2>3. stall.quiet \in 0..MaxSteps /\ stall.moves <= stall.quiet
    BY <2>1, Settings DEF Played, Counted
  <2> QED
    BY <2>1, <2>2, <2>3 DEF TypeOK, Played, Counted, Kept
<1> QED
  BY <1>1, SpecEpisodeInv, PTL

\* Unless a restore failed, or put the episode back by a replay from another random
\* start, the recorded episode is one playthrough of the game, planning or not.
THEOREM PlanningLeavesNoTrace == Spec => []OnePlaythrough
<1>1. EpisodeInv => OnePlaythrough
  <2> SUFFICES ASSUME EpisodeInv PROVE OnePlaythrough
    OBVIOUS
  <2>1. Played
    BY DEF EpisodeInv
  <2>2. DOMAIN acts = 1..Len(acts)
    BY <2>1 DEF Played
  <2> QED
    BY <2>1, <2>2 DEF Played, OnePlaythrough
<1> QED
  BY <1>1, SpecEpisodeInv, PTL

\* Step indices run ahead of the actions by the restores made and no more.
THEOREM DriftIsBounded == Spec => []DriftCountsPlanning
<1>1. EpisodeInv => DriftCountsPlanning
  <2> SUFFICES ASSUME EpisodeInv PROVE DriftCountsPlanning
    OBVIOUS
  <2>1. Drift(env) \in 0..attempts
    BY DEF EpisodeInv, Wrapped
  <2>2. GoodEntries(queue.entries, attempts)
    BY DEF EpisodeInv, Kept, FrontierInv
  <2>3. ASSUME NEW e \in ToSet(queue.entries) PROVE NodeDrift(e.node) \in 0..attempts
    <3>1. PICK i \in 1..Len(queue.entries) : e = queue.entries[i]
      BY <2>2 DEF GoodEntries, ToSet
    <3> QED
      BY <2>2, <3>1 DEF GoodEntries, GoodEntry
  <2> QED
    BY <2>1, <2>3 DEF DriftCountsPlanning, Drift, NodeDrift
<1> QED
  BY <1>1, SpecEpisodeInv, PTL

\* Of the states that look alike whatever else their summaries say, the frontier
\* never keeps two (FrontierQueue.add, _find_duplicate_index).
THEOREM NoTwoEntriesAlike == Spec => []DistinctEntries
<1>1. EpisodeInv => DistinctEntries
  <2> SUFFICES ASSUME EpisodeInv, NEW C \in Kinds, Alike(C),
                      NEW i \in DOMAIN queue.entries, NEW j \in DOMAIN queue.entries,
                      queue.entries[i].hash \in C, queue.entries[j].hash \in C
               PROVE  i = j
    BY DEF DistinctEntries, Alike
  <2>1. Apart(queue.entries) /\ GoodEntries(queue.entries, attempts)
    BY DEF EpisodeInv, Kept, FrontierInv
  <2>2. DOMAIN queue.entries = 1..Len(queue.entries)
    BY <2>1 DEF GoodEntries
  <2> QED
    BY <2>1, <2>2 DEF Apart
<1> QED
  BY <1>1, SpecEpisodeInv, PTL

\* As long as the frontier has room, it holds an entry of every kind of state that
\* was recorded (FrontierQueue.add, _resort_and_trim).
THEOREM RoomMeansNothingLost == Spec => []NothingLostWhileRoom
<1>1. EpisodeInv => NothingLostWhileRoom
  <2> SUFFICES ASSUME EpisodeInv, Len(queue.entries) < FrontierMaxSize,
                      NEW C \in Kinds, C \cap known # {}
               PROVE  \E e \in ToSet(queue.entries) : e.hash \in C
    BY DEF NothingLostWhileRoom
  <2>1. Remembers(queue.entries, known) /\ GoodEntries(queue.entries, attempts)
    BY DEF EpisodeInv, Kept, FrontierInv
  <2>2. PICK i \in 1..Len(queue.entries) : queue.entries[i].hash \in C
    BY <2>1 DEF Remembers
  <2>3. queue.entries[i] \in ToSet(queue.entries)
    BY <2>1 DEF GoodEntries, ToSet
  <2> QED
    BY <2>2, <2>3
<1> QED
  BY <1>1, SpecEpisodeInv, PTL

-----------------------------------------------------------------------------
(* The exits of the map. *)

OpportunityKeys == {"base", "noProgress", "durable", "resolved"}

\* The exits in R are those that may be held for resolved.
ResolvedOnlyIn(R, o, opp) ==
  /\ DOMAIN opp = OpportunityKeys /\ opp.resolved \in BOOLEAN
  /\ o[1] = "exit" /\ opp.resolved => <<o[2], o[3]>> \in R

ResolvesOnly(opps, R) == \A o \in DOMAIN opps : ResolvedOnlyIn(R, o, opps[o])

\* The exits that were walked through.
Walked ==
  {<<Cluster[views[i]], acts[i]>> :
     i \in {j \in 1..Len(acts) : Cluster[views[j + 1]] # Cluster[views[j]]}}

ExitInv == Lists /\ ResolvesOnly(map.opps, Walked)

\* To see a region again does not resolve anything.
LEMMA StateResolvesNothing ==
  ASSUME NEW m, NEW R, ResolvesOnly(m.opps, R), NEW w
  PROVE  ResolvesOnly(RecordState(m, w).opps, R)
<1> DEFINE seen == SeenOpportunities(w)
           base(o) == BasePriority(o, w)
           opps == [o \in DOMAIN m.opps \cup seen |->
                      IF o \in seen THEN UpsertOpportunity(m.opps, o, base(o)) ELSE m.opps[o]]
<1>1. RecordState(m, w).opps = opps
  BY DEF RecordState
<1> HIDE DEF seen, base
<1>2. ASSUME NEW o \in DOMAIN opps
      PROVE  ResolvedOnlyIn(R, o, opps[o])
  <2>1. CASE o \in DOMAIN m.opps
    <3> DEFINE old == m.opps[o]
               top == Max({old.base, base(o)})
               new == [old EXCEPT !.base = top]
    <3>1. /\ DOMAIN old = OpportunityKeys /\ old.resolved \in BOOLEAN
          /\ o[1] = "exit" /\ old.resolved => <<o[2], o[3]>> \in R
      BY <2>1 DEF ResolvesOnly, ResolvedOnlyIn
    <3>2. opps[o] \in {old, new}
      BY <2>1 DEF UpsertOpportunity
    <3> HIDE DEF old, top
    <3>3. DOMAIN new = DOMAIN old /\ new.resolved = old.resolved
      BY <3>1 DEF OpportunityKeys
    <3> HIDE DEF new
    <3> QED
      BY <3>1, <3>2, <3>3 DEF ResolvedOnlyIn
  <2>2. CASE o \notin DOMAIN m.opps
    <3>1. opps[o] = [base |-> base(o), noProgress |-> 0, durable |-> 0, resolved |-> FALSE]
      BY <2>2 DEF UpsertOpportunity
    <3> HIDE DEF opps
    <3>2. DOMAIN opps[o] = OpportunityKeys /\ opps[o].resolved = FALSE
      BY <3>1 DEF OpportunityKeys
    <3> QED
      BY <3>2 DEF ResolvedOnlyIn
  <2> QED
    BY <2>1, <2>2
<1> HIDE DEF opps
<1>3. ResolvesOnly(opps, R)
  BY <1>2 DEF ResolvesOnly
<1> QED
  BY <1>1, <1>3

\* More exits may be held for resolved.
LEMMA MoreMayBeResolved ==
  ASSUME NEW opps, NEW R, NEW T, R \subseteq T, ResolvesOnly(opps, R)
  PROVE  ResolvesOnly(opps, T)
<1>1. ASSUME NEW o \in DOMAIN opps PROVE ResolvedOnlyIn(T, o, opps[o])
  <2>1. ResolvedOnlyIn(R, o, opps[o])
    BY DEF ResolvesOnly
  <2> QED
    BY <2>1 DEF ResolvedOnlyIn
<1> QED
  BY <1>1 DEF ResolvesOnly

\* An action resolves an exit only when it left the region by it.
LEMMA TransitionResolves ==
  ASSUME NEW m, NEW R, ResolvesOnly(m.opps, R), NEW a, NEW v, NEW w,
         Cluster[w] # Cluster[v] => <<Cluster[v], a>> \in R
  PROVE  ResolvesOnly(RecordTransition(m, a, v, w).opps, R)
<1> DEFINE c == Cluster[v]
           paid == ScoreGain(v, w) > 0 \/ InventoryGained(v, w)
           node == [NodeOf(m, c) EXCEPT !.durable = @ + (IF paid THEN 1 ELSE 0),
                                        !.explored = @ \cup ({a} \cap Movement)]
           touched == {o \in DOMAIN m.opps : o[2] = c /\ ~m.opps[o].resolved /\ MatchesAction(o, a)}
           GivenUp(o) ==
             /\ ~paid /\ o[1] = "object"
             /\ \/ m.opps[o].noProgress + 1 >= 3
                \/ node.durable > 0 /\ m.opps[o].noProgress + 1 >= 1
           traversed == IF ExitTraversed(m, a, v, w) THEN {<<"exit", c, a>>} ELSE {}
           settled(o) == GivenUp(o) \/ (paid /\ ResolvedBy(o, a, v, w))
           Updated(o) ==
             IF o \in touched
             THEN [m.opps[o] EXCEPT !.durable = @ + (IF paid THEN 1 ELSE 0),
                                    !.noProgress = @ + (IF paid THEN 0 ELSE 1),
                                    !.resolved = settled(o)]
             ELSE m.opps[o]
           Marked(o) == [Updated(o) EXCEPT !.resolved = TRUE]
           opps == [o \in DOMAIN m.opps |-> IF o \in traversed THEN Marked(o) ELSE Updated(o)]
<1>1. RecordTransition(m, a, v, w).opps = opps
  BY DEF RecordTransition
<1> HIDE DEF paid, node, Marked, Updated
<1>2. ASSUME NEW o \in DOMAIN m.opps
      PROVE  ResolvedOnlyIn(R, o, opps[o])
  <2> DEFINE old == m.opps[o]
             durable == old.durable + (IF paid THEN 1 ELSE 0)
             noProgress == old.noProgress + (IF paid THEN 0 ELSE 1)
             resolved == settled(o)
             tried == [old EXCEPT !.durable = durable, !.noProgress = noProgress,
                                  !.resolved = resolved]
  <2>1. /\ DOMAIN old = OpportunityKeys /\ old.resolved \in BOOLEAN
        /\ o[1] = "exit" /\ old.resolved => <<o[2], o[3]>> \in R
    BY DEF ResolvesOnly, ResolvedOnlyIn
  <2>2. resolved \in BOOLEAN
    OBVIOUS
  <2>3. Updated(o) = IF o \in touched THEN tried ELSE old
    BY DEF Updated
  <2>4. o \in touched /\ o[1] = "exit" /\ resolved => <<o[2], o[3]>> \in R
    <3> SUFFICES ASSUME o \in touched, o[1] = "exit", resolved PROVE <<o[2], o[3]>> \in R
      OBVIOUS
    <3>1. o[2] = c /\ MatchesAction(o, a)
      OBVIOUS
    <3>2. a = o[3]
      BY <3>1 DEF MatchesAction
    <3>3. ~GivenUp(o)
      OBVIOUS
    <3>4. ResolvedBy(o, a, v, w)
      BY <3>3
    <3>5. Cluster[w] # Cluster[v]
      BY <3>4 DEF ResolvedBy
    <3> QED
      BY <3>1, <3>2, <3>5
  <2>5. o \in traversed => <<o[2], o[3]>> \in R
    <3> SUFFICES ASSUME o \in traversed PROVE <<o[2], o[3]>> \in R
      OBVIOUS
    <3>1. Cluster[w] # Cluster[v] /\ o = <<"exit", c, a>>
      BY DEF ExitTraversed
    <3> QED
      BY <3>1
  <2>6. opps[o] = IF o \in traversed THEN Marked(o) ELSE Updated(o)
    OBVIOUS
  <2> DEFINE now == Updated(o)
             marked == [now EXCEPT !.resolved = TRUE]
  <2>7. marked = Marked(o)
    BY DEF Marked
  <2> HIDE DEF touched, traversed, resolved, durable, noProgress, old
  <2>8. DOMAIN tried = OpportunityKeys /\ tried.resolved = resolved
    BY <2>1 DEF OpportunityKeys
  <2> HIDE DEF tried
  <2>9. /\ DOMAIN now = OpportunityKeys /\ now.resolved \in BOOLEAN
        /\ o[1] = "exit" /\ now.resolved => <<o[2], o[3]>> \in R
    <3>1. now = IF o \in touched THEN tried ELSE old
      BY <2>3
    <3> HIDE DEF now
    <3> QED
      BY <2>1, <2>2, <2>4, <2>8, <3>1
  <2> HIDE DEF opps
  <2>10. opps[o] = IF o \in traversed THEN marked ELSE now
    BY <2>6, <2>7
  <2> HIDE DEF now
  <2>11. CASE o \in traversed
    <3>1. DOMAIN marked = OpportunityKeys /\ marked.resolved = TRUE
      BY <2>9 DEF OpportunityKeys
    <3> HIDE DEF marked
    <3>2. opps[o] = marked
      BY <2>10, <2>11
    <3> QED
      BY <2>5, <2>11, <3>1, <3>2 DEF ResolvedOnlyIn
  <2>12. CASE o \notin traversed
    BY <2>9, <2>10, <2>12 DEF ResolvedOnlyIn
  <2> QED
    BY <2>11, <2>12
<1>3. DOMAIN opps = DOMAIN m.opps
  OBVIOUS
<1> HIDE DEF opps
<1>4. ResolvesOnly(opps, R)
  BY <1>2, <1>3 DEF ResolvesOnly
<1> QED
  BY <1>1, <1>4

\* A step walks through one more exit, or through none.
LEMMA StepExitInv ==
  ASSUME ExitInv, NEW a, TakeStep(a)
  PROVE  ExitInv'
<1> DEFINE w == EnvStep(env, a).world
           v == Current
           n == Len(acts)
           moved == RecordTransition(map, a, v, w)
<1>1. /\ views' = Append(views, w) /\ acts' = Append(acts, a)
      /\ map' = RecordState(moved, w)
  BY DEF TakeStep
<1> HIDE DEF w, moved
<1>2. /\ Lists' /\ n \in Nat /\ Len(acts') = n + 1
      /\ \A i \in 1..n : acts'[i] = acts[i] /\ views'[i] = views[i] /\ views'[i + 1] = views[i + 1]
      /\ acts'[n + 1] = a /\ views'[n + 1] = v /\ views'[n + 2] = w
  BY <1>1, StepAppends DEF ExitInv
<1> DEFINE R == {<<Cluster[views'[i]], acts'[i]>> :
                   i \in {j \in 1..Len(acts') : Cluster[views'[j + 1]] # Cluster[views'[j]]}}
<1>3. Walked' = R
  BY DEF Walked
<1> HIDE DEF v
<1>4. Walked \subseteq R
  <2> SUFFICES ASSUME NEW i \in 1..n, Cluster[views[i + 1]] # Cluster[views[i]]
               PROVE  <<Cluster[views[i]], acts[i]>> \in R
    BY DEF Walked
  <2>1. i \in 1..Len(acts') /\ Cluster[views'[i + 1]] # Cluster[views'[i]]
        /\ acts'[i] = acts[i] /\ views'[i] = views[i]
    BY <1>2
  <2>2. <<Cluster[views'[i]], acts'[i]>> \in R
    BY <2>1
  <2> QED
    BY <2>1, <2>2
<1>5. Cluster[w] # Cluster[v] => <<Cluster[v], a>> \in R
  <2> SUFFICES ASSUME Cluster[w] # Cluster[v] PROVE <<Cluster[v], a>> \in R
    OBVIOUS
  <2>1. n + 1 \in 1..Len(acts') /\ (n + 1) + 1 = n + 2
    BY <1>2
  <2>2. Cluster[views'[(n + 1) + 1]] # Cluster[views'[n + 1]]
    BY <1>2, <2>1
  <2>3. <<Cluster[views'[n + 1]], acts'[n + 1]>> \in R
    BY <2>1, <2>2
  <2> QED
    BY <1>2, <2>3
<1> HIDE DEF R
<1>6. ResolvesOnly(map.opps, R)
  BY <1>4, MoreMayBeResolved DEF ExitInv
<1>7. ResolvesOnly(moved.opps, R)
  BY <1>5, <1>6, TransitionResolves DEF moved
<1>8. ResolvesOnly(map'.opps, R)
  BY <1>1, <1>7, StateResolvesNothing
<1> QED
  BY <1>2, <1>3, <1>8 DEF ExitInv

\* An exit that the map holds for resolved was walked through in this episode.
THEOREM ExitsResolvedWereWalked == Spec => []ResolvedExitWasTraversed
<1>1. Init => ExitInv
  <2> SUFFICES ASSUME Init PROVE ExitInv
    OBVIOUS
  <2>1. Lists
    BY InitStallInv DEF StallInv
  <2>2. ResolvesOnly(EmptyMap.opps, Walked)
    BY DEF EmptyMap, ResolvesOnly
  <2>3. map = RecordState(EmptyMap, SeededStart)
    BY DEF Init
  <2> QED
    BY <2>1, <2>2, <2>3, StateResolvesNothing DEF ExitInv
<1>2. ExitInv /\ [Next]_vars => ExitInv'
  <2> SUFFICES ASSUME ExitInv, [Next]_vars PROVE ExitInv'
    OBVIOUS
  <2>1. CASE \E a \in ActionChoices : TakeStep(a)
    BY <2>1, StepExitInv
  <2>2. CASE ~ \E a \in ActionChoices : TakeStep(a)
    <3>1. UNCHANGED <<views, acts, map>>
      BY <2>2 DEF Next, Plan, PlanningRaises, StepRaises, End, vars, progress
    <3> QED
      BY <3>1 DEF ExitInv, Lists, Walked
  <2> QED
    BY <2>1, <2>2
<1>3. ExitInv => ResolvedExitWasTraversed
  <2> SUFFICES ASSUME ExitInv, NEW o \in DOMAIN map.opps, o[1] = "exit", map.opps[o].resolved
               PROVE  \E i \in DOMAIN acts : /\ acts[i] = o[3] /\ Cluster[views[i]] = o[2]
                                             /\ Cluster[views[i + 1]] # o[2]
    BY DEF ResolvedExitWasTraversed
  <2>1. <<o[2], o[3]>> \in Walked
    BY DEF ExitInv, ResolvesOnly, ResolvedOnlyIn
  <2>2. PICK i \in 1..Len(acts) : /\ Cluster[views[i + 1]] # Cluster[views[i]]
                                  /\ <<o[2], o[3]>> = <<Cluster[views[i]], acts[i]>>
    BY <2>1 DEF Walked
  <2>3. o[2] = Cluster[views[i]] /\ o[3] = acts[i]
    BY <2>2
  <2>4. DOMAIN acts = 1..Len(acts)
    BY DEF ExitInv, Lists
  <2> QED
    BY <2>2, <2>3, <2>4
<1> QED
  BY <1>1, <1>2, <1>3, PTL DEF Spec

-----------------------------------------------------------------------------
(* The cooldown. *)

\* A step that scored d steps ago left at least PostGainCooldown - d to wait.
CoolsDown ==
  /\ Lists
  /\ \A i \in 1..Len(acts) :
       Score[views[i + 1]] <= Score[views[i]] \/ cooldown >= PostGainCooldown - (Len(acts) - i)

\* A step that scores starts the wait again, and any other takes one off it.
LEMMA StepCoolsDown ==
  ASSUME CoolsDown, TypeOK, TypeOK', NEW a, TakeStep(a)
  PROVE  CoolsDown'
<1> DEFINE w == EnvStep(env, a).world
           n == Len(acts)
<1>1. /\ views' = Append(views, w) /\ acts' = Append(acts, a)
      /\ cooldown' = Cooled(Measured(a, w).gain)
  BY DEF TakeStep
<1>2. Measured(a, w).gain = Score[w] - Score[Current]
  BY DEF Measured, ScoreGain
<1> HIDE DEF w
<1>3. /\ Lists' /\ n \in Nat /\ Len(acts') = n + 1
      /\ \A i \in 1..n : views'[i] = views[i] /\ views'[i + 1] = views[i + 1]
      /\ views'[n + 1] = Current /\ views'[n + 2] = w
  BY <1>1, StepAppends DEF CoolsDown
<1>4. Score[w] \in Int /\ Score[Current] \in Int
  <2>1. views' \in Seq(Worlds) /\ Len(views') = n + 2
    BY <1>3 DEF TypeOK
  <2>2. views'[n + 1] \in Worlds /\ views'[n + 2] \in Worlds
    BY <1>3, <2>1
  <2>3. QED BY <1>3, <2>2, GameAssumption
<1>5. PostGainCooldown \in Nat /\ cooldown \in Nat
  BY LegacyEpisodeAssumption DEF TypeOK
<1>6. /\ cooldown' \in Int /\ cooldown' >= cooldown - 1
      /\ Score[w] <= Score[Current] \/ cooldown' >= PostGainCooldown
  <2> DEFINE gain == Measured(a, w).gain
  <2>1. gain \in Int /\ (gain > 0 \/ Score[w] <= Score[Current])
    BY <1>2, <1>4
  <2>2. /\ Max({cooldown, PostGainCooldown}) \in Int
        /\ Max({cooldown, PostGainCooldown}) >= cooldown
        /\ Max({cooldown, PostGainCooldown}) >= PostGainCooldown
    <3>1. cooldown \in Int /\ PostGainCooldown \in Int
      BY <1>5
    <3>2. QED BY <3>1, MaxOfTwo
  <2>3. Max({cooldown - 1, 0}) \in Int /\ Max({cooldown - 1, 0}) >= cooldown - 1
    <3>1. cooldown - 1 \in Int /\ 0 \in Int
      BY <1>5
    <3>2. QED BY <3>1, MaxOfTwo
  <2> HIDE DEF gain
  <2>4. cooldown' = IF gain > 0 THEN Max({cooldown, PostGainCooldown})
                    ELSE Max({cooldown - 1, 0})
    BY <1>1 DEF Cooled, gain
  <2>5. QED BY <1>5, <2>1, <2>2, <2>3, <2>4
<1>7. ASSUME NEW i \in 1..(n + 1)
      PROVE  Score[views'[i + 1]] <= Score[views'[i]] \/ cooldown' >= PostGainCooldown - ((n + 1) - i)
  <2>1. CASE i = n + 1
    <3>1. i + 1 = n + 2 /\ PostGainCooldown - ((n + 1) - i) = PostGainCooldown
      BY <1>3, <1>5, <2>1
    <3>2. QED BY <1>3, <1>6, <2>1, <3>1
  <2>2. CASE i # n + 1
    <3>1. i \in 1..n
      BY <1>3, <2>2
    <3>2. Score[views[i + 1]] <= Score[views[i]] \/ cooldown >= PostGainCooldown - (n - i)
      BY <3>1 DEF CoolsDown
    <3>3. cooldown >= PostGainCooldown - (n - i) => cooldown' >= PostGainCooldown - ((n + 1) - i)
      BY <1>3, <1>5, <1>6, <3>1
    <3>4. QED BY <1>3, <3>1, <3>2, <3>3
  <2>3. QED BY <2>1, <2>2
<1>8. QED BY <1>3, <1>7 DEF CoolsDown

\* No revisit begins in the PostGainCooldown steps after a step that scored.
THEOREM GainsAreFollowedUp == Spec => QuietAfterGain
<1>1. Init => CoolsDown
  <2> SUFFICES ASSUME Init PROVE CoolsDown
    OBVIOUS
  <2>1. acts = << >> /\ Lists
    BY InitStallInv DEF Init, StallInv
  <2>2. Len(acts) = 0
    BY <2>1
  <2>3. QED BY <2>1, <2>2 DEF CoolsDown
<1>2. CoolsDown /\ TypeOK /\ TypeOK' /\ [Next]_vars => CoolsDown'
  <2> SUFFICES ASSUME CoolsDown, TypeOK, TypeOK', [Next]_vars PROVE CoolsDown'
    OBVIOUS
  <2>1. CASE \E a \in ActionChoices : TakeStep(a)
    BY <2>1, StepCoolsDown
  <2>2. CASE ~ \E a \in ActionChoices : TakeStep(a)
    BY <2>2, OnlyStepsAreRecorded DEF CoolsDown, Lists
  <2>3. QED BY <2>1, <2>2
<1>3. CoolsDown /\ TypeOK /\ [Next]_vars =>
        [attempts' # attempts =>
           \A i \in DOMAIN acts :
             i > Len(acts) - PostGainCooldown => Score[views[i + 1]] <= Score[views[i]]]_vars
  <2> SUFFICES ASSUME CoolsDown, TypeOK, Next, attempts' # attempts,
                      NEW i \in DOMAIN acts, i > Len(acts) - PostGainCooldown
               PROVE  Score[views[i + 1]] <= Score[views[i]]
    OBVIOUS
  <2>1. cooldown = 0
    <3>1. Plan
      BY DEF Next, PlanningRaises, TakeStep, StepRaises, End
    <3>2. QED BY <3>1 DEF Plan, PlanningIsDue
  <2>2. Len(acts) \in Nat /\ i \in 1..Len(acts) /\ PostGainCooldown \in Nat
    <3>1. acts \in Seq(Actions)
      BY DEF TypeOK
    <3>2. QED BY <3>1, LegacyEpisodeAssumption
  <2>3. ~ (cooldown >= PostGainCooldown - (Len(acts) - i))
    BY <2>1, <2>2
  <2>4. QED BY <2>2, <2>3 DEF CoolsDown
<1>4. QED BY <1>1, <1>2, <1>3, TypeCorrect, PTL DEF QuietAfterGain, Spec

-----------------------------------------------------------------------------
(* The worn-out objects. *)

Paid(i) == AttemptPaid(acts[i], views[i], views[i + 1])

\* The attempts on t after the last one that paid.
Unrewarded(t) ==
  {i \in 1..Len(acts) :
     /\ t \in Targets[acts[i]]
     /\ \A j \in 1..Len(acts) : t \in Targets[acts[j]] /\ Paid(j) => j < i}

\* An object without a count has no attempt to count.
CountsAttempts ==
  /\ Lists
  /\ DOMAIN history = {"visits", "texts", "stalls"}
  /\ \A t : IF t \in DOMAIN history.stalls THEN history.stalls[t] = Cardinality(Unrewarded(t))
            ELSE Unrewarded(t) = {}

\* An attempt on an object adds one to its count, or takes the count away.
LEMMA StepCountsAttempts ==
  ASSUME CountsAttempts, NEW a, TakeStep(a)
  PROVE  CountsAttempts'
<1> DEFINE w == EnvStep(env, a).world
           n == Len(acts)
           v == Current
           paid(i) == AttemptPaid(acts'[i], views'[i], views'[i + 1])
           later(t) == {i \in 1..(n + 1) :
                          /\ t \in Targets[acts'[i]]
                          /\ \A j \in 1..(n + 1) : t \in Targets[acts'[j]] /\ paid(j) => j < i}
           seen == RecordStateCluster(history, w)
<1>1. /\ views' = Append(views, w) /\ acts' = Append(acts, a)
      /\ history' = RecordAttempt(seen, a, v, w)
  BY DEF TakeStep
<1> HIDE DEF w
<1>2. /\ Lists' /\ n \in Nat /\ Len(acts') = n + 1
      /\ \A i \in 1..n : acts'[i] = acts[i] /\ views'[i] = views[i] /\ views'[i + 1] = views[i + 1]
      /\ acts'[n + 1] = a /\ views'[n + 1] = v /\ views'[n + 2] = w
  BY <1>1, StepAppends DEF CountsAttempts
<1>3. seen.stalls = history.stalls /\ DOMAIN seen = {"visits", "texts", "stalls"}
  BY DEF CountsAttempts, RecordStateCluster
<1>4. /\ \A i \in 1..n : paid(i) <=> Paid(i)
      /\ paid(n + 1) <=> AttemptPaid(a, v, w)
  <2>1. (n + 1) + 1 = n + 2
    BY <1>2
  <2>2. QED BY <1>2, <2>1 DEF Paid
<1>5. \A t : Unrewarded(t)' = later(t)
  BY <1>2 DEF Unrewarded, Paid
<1> HIDE DEF paid, seen, v
<1>6. ASSUME NEW t, t \notin Targets[a]
      PROVE  later(t) = Unrewarded(t)
  BY <1>2, <1>4, <1>6 DEF Unrewarded
<1>7. ASSUME NEW t, t \in Targets[a], AttemptPaid(a, v, w)
      PROVE  later(t) = {}
  BY <1>2, <1>4, <1>7
<1>8. ASSUME NEW t, t \in Targets[a], ~ AttemptPaid(a, v, w)
      PROVE  later(t) = Unrewarded(t) \cup {n + 1}
  <2>1. ASSUME NEW i \in 1..n
        PROVE  i \in later(t) <=> i \in Unrewarded(t)
    <3>1. i \in 1..(n + 1) /\ acts'[i] = acts[i]
      BY <1>2
    <3>2. (\A j \in 1..(n + 1) : t \in Targets[acts'[j]] /\ paid(j) => j < i)
            <=> (\A j \in 1..n : t \in Targets[acts[j]] /\ Paid(j) => j < i)
      <4>1. 1..(n + 1) = (1..n) \cup {n + 1} /\ ~ paid(n + 1)
        BY <1>2, <1>4, <1>8
      <4>2. \A j \in 1..n : (t \in Targets[acts'[j]] /\ paid(j)) <=> (t \in Targets[acts[j]] /\ Paid(j))
        BY <1>2, <1>4
      <4>3. QED BY <4>1, <4>2
    <3>3. QED BY <3>1, <3>2 DEF Unrewarded
  <2>2. n + 1 \in later(t)
    BY <1>2, <1>4, <1>8
  <2>3. later(t) \subseteq 1..(n + 1) /\ Unrewarded(t) \subseteq 1..n
    BY DEF Unrewarded
  <2> HIDE DEF later
  <2>4. QED BY <1>2, <2>1, <2>2, <2>3
<1> HIDE DEF later
<1>9. ASSUME NEW t
      PROVE  Cardinality(Unrewarded(t) \cup {n + 1}) = Cardinality(Unrewarded(t)) + 1
  <2>1. IsFiniteSet(1..n) /\ Unrewarded(t) \subseteq 1..n /\ n + 1 \notin Unrewarded(t)
    BY <1>2, FS_Interval DEF Unrewarded
  <2>2. IsFiniteSet(Unrewarded(t))
    BY <2>1, FS_Subset
  <2>3. QED BY <2>1, <2>2, FS_AddElement
<1>10. CASE AttemptPaid(a, v, w)
  <2>1. /\ DOMAIN history' = {"visits", "texts", "stalls"}
        /\ history'.stalls = [t \in DOMAIN history.stalls \ Targets[a] |-> history.stalls[t]]
    BY <1>1, <1>3, <1>10 DEF RecordAttempt
  <2>2. ASSUME NEW t
        PROVE  IF t \in DOMAIN history'.stalls THEN history'.stalls[t] = Cardinality(later(t))
               ELSE later(t) = {}
    BY <1>6, <1>7, <1>10, <2>1 DEF CountsAttempts
  <2>3. QED BY <1>2, <1>5, <2>1, <2>2 DEF CountsAttempts
<1>11. CASE ~ AttemptPaid(a, v, w)
  <2>1. /\ DOMAIN history' = {"visits", "texts", "stalls"}
        /\ history'.stalls = [t \in DOMAIN history.stalls \cup Targets[a] |->
             Count(history.stalls, t) + (IF t \in Targets[a] THEN 1 ELSE 0)]
    BY <1>1, <1>3, <1>11 DEF RecordAttempt
  <2>2. ASSUME NEW t
        PROVE  IF t \in DOMAIN history'.stalls THEN history'.stalls[t] = Cardinality(later(t))
               ELSE later(t) = {}
    <3>1. Count(history.stalls, t) = Cardinality(Unrewarded(t))
      BY FS_EmptySet DEF CountsAttempts, Count
    <3>2. Cardinality(Unrewarded(t)) \in Nat
      <4>1. IsFiniteSet(1..n) /\ Unrewarded(t) \subseteq 1..n
        BY <1>2, FS_Interval DEF Unrewarded
      <4>2. QED BY <4>1, FS_Subset, FS_CardinalityType
    <3>3. CASE t \in Targets[a]
      BY <1>8, <1>9, <1>11, <2>1, <3>1, <3>3
    <3>4. CASE t \notin Targets[a]
      BY <1>6, <2>1, <3>1, <3>2, <3>4 DEF CountsAttempts
    <3>5. QED BY <3>3, <3>4
  <2>3. QED BY <1>2, <1>5, <2>1, <2>2 DEF CountsAttempts
<1>12. QED BY <1>10, <1>11

\* An object is worn out for want of gains and for nothing else: its count is the
\* number of attempts on it since the last one that paid.
THEOREM WornOutForWantOfGains == Spec => []ExhaustionIsEarned
<1>1. Init => CountsAttempts
  <2> SUFFICES ASSUME Init PROVE CountsAttempts
    OBVIOUS
  <2>1. acts = << >> /\ Lists
    BY InitStallInv DEF Init, StallInv
  <2>2. history = RecordStateCluster(EmptyClusterHistory, SeededStart)
    BY DEF Init
  <2>3. DOMAIN history = {"visits", "texts", "stalls"} /\ history.stalls = NoCounts
    BY <2>2 DEF RecordStateCluster, EmptyClusterHistory
  <2>4. Len(acts) = 0
    BY <2>1
  <2>5. \A t : Unrewarded(t) = {}
    BY <2>4 DEF Unrewarded
  <2>6. DOMAIN NoCounts = {}
    BY DEF NoCounts
  <2>7. QED BY <2>1, <2>3, <2>5, <2>6 DEF CountsAttempts
<1>2. CountsAttempts /\ [Next]_vars => CountsAttempts'
  <2> SUFFICES ASSUME CountsAttempts, [Next]_vars PROVE CountsAttempts'
    OBVIOUS
  <2>1. CASE \E a \in ActionChoices : TakeStep(a)
    BY <2>1, StepCountsAttempts
  <2>2. CASE ~ \E a \in ActionChoices : TakeStep(a)
    BY <2>2, OnlyStepsAreRecorded DEF CountsAttempts, Lists, Unrewarded, Paid
  <2>3. QED BY <2>1, <2>2
<1>3. CountsAttempts => ExhaustionIsEarned
  <2> SUFFICES ASSUME CountsAttempts, NEW t \in DOMAIN history.stalls
               PROVE  LET tried == {i \in DOMAIN acts : t \in Targets[acts[i]]}
                          paid == {i \in tried : AttemptPaid(acts[i], views[i], views[i + 1])}
                      IN  history.stalls[t] = Cardinality({i \in tried : \A j \in paid : j < i})
    BY DEF ExhaustionIsEarned
  <2> DEFINE tried == {i \in DOMAIN acts : t \in Targets[acts[i]]}
             paid == {i \in tried : AttemptPaid(acts[i], views[i], views[i + 1])}
  <2>1. DOMAIN acts = 1..Len(acts)
    BY DEF CountsAttempts, Lists
  <2>2. {i \in tried : \A j \in paid : j < i} = Unrewarded(t)
    BY <2>1 DEF Unrewarded, Paid
  <2>3. QED BY <2>2 DEF CountsAttempts
<1>4. QED BY <1>1, <1>2, <1>3, PTL DEF Spec
=============================================================================
