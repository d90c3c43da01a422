-------------------------- MODULE GlowEpisodeProofs --------------------------
(***************************************************************************)
(* Proofs about GlowEpisode, for every game, configuration, answer of the  *)
(* language model and number of episodes, cycles, branches and actions.    *)
(***************************************************************************)
EXTENDS GlowEpisode, SavedNodesProofs

-----------------------------------------------------------------------------
(* The data of an episode. *)

GameTexts ==
  {EmptyText} \cup {Observation[w] : w \in Worlds} \cup {Inventory[w] : w \in Worlds}
    \cup {Summary[Observation[w]] : w \in Worlds} \cup {Summary[Inventory[w]] : w \in Worlds}

StepRecords == [world : Worlds, reward : Int, replay : Seq(Actions)]
Paths == Seq(StepRecords) \ {<< >>}

Trajectories == [id : TrajectoryIds, steps : Paths]
Batches == Seq(Trajectories)

\* The ids of the trajectories and roots that an archived state comes from.
Provenances == EpisodeIds \X Nat \X Nat

StateIds == {StateId[w] : w \in Worlds}

ArchivedStates ==
  [prov : Provenances, timestep : Nat, replay : Seq(Actions), native : Worlds \cup {NoNative},
   referenced : BOOLEAN, score : Int, observation : GameTexts, inventory : GameTexts,
   achieved : Int, projected : Int \cup {NoValue}, support : SUBSET TrajectoryIds,
   selections : Nat, visits : Nat, failures : Nat, barren : Nat, fruitless : Nat,
   saturation : Nat]

Archives == UNION {[D -> ArchivedStates] : D \in {E \in SUBSET StateIds : IsFiniteSet(E)}}

\* The texts of the game and their summaries are texts.
LEMMA GameTextsAreTexts == TextsIn(GameTexts)
BY DEF TextsIn, GameTexts

\* What an archive is.
LEMMA ArchiveFacts ==
  ASSUME NEW a \in Archives
  PROVE  /\ DOMAIN a \subseteq StateIds /\ IsFiniteSet(DOMAIN a)
         /\ a = [s \in DOMAIN a |-> a[s]]
         /\ \A s \in DOMAIN a : a[s] \in ArchivedStates
<1>1. PICK D \in SUBSET StateIds : IsFiniteSet(D) /\ a \in [D -> ArchivedStates]
  BY DEF Archives
<1> QED
  BY <1>1

\* What makes an archive.
LEMMA IsAnArchive ==
  ASSUME NEW D \in SUBSET StateIds, IsFiniteSet(D), NEW a, a = [s \in D |-> a[s]],
         \A s \in D : a[s] \in ArchivedStates
  PROVE  a \in Archives /\ DOMAIN a = D
<1>1. a \in [D -> ArchivedStates]
  OBVIOUS
<1> QED
  BY <1>1 DEF Archives

\* Rewards add up to an integer.
LEMMA CumulativeIsInt ==
  ASSUME NEW steps \in Seq(StepRecords), NEW k \in 1..Len(steps)
  PROVE  Cumulative(steps, k) \in Int
<1> DEFINE s == SubSeq(steps, 1, k)
           zero == 0
           n == Len(s)
           step == [i \in 1..n |-> [v \in Int |-> v + s[i].reward]]
           Body(g) == [S \in SUBSET (DOMAIN s) |->
                         IF S = {} THEN zero ELSE g[S \ {Max(S)}] + s[Max(S)].reward]
           iter == CHOOSE g : g = Body(g)
<1>1. /\ n \in Nat /\ DOMAIN s = 1..n
      /\ \A i \in 1..n : s[i] \in StepRecords
  <2>1. s \in Seq(StepRecords)
    OBVIOUS
  <2> HIDE DEF s
  <2> QED
    BY <2>1
<1>2. step \in Steps(n, Int)
  BY <1>1 DEF Steps, StepRecords
<1>3. Cumulative(steps, k) = iter[1..n]
  BY <1>1 DEF Cumulative, s, FoldLeft, MapThenFoldSet
<1>4. zero \in Int
  OBVIOUS
<1>5. \E g : g = Body(g)
  <2>1. PICK g : Solves(g, n, Int, zero, step)
    <3> HIDE DEF step, n
    <3> QED
      BY <1>1, <1>2, <1>4, FoldExists
  <2>2. ASSUME NEW S \in SUBSET (1..n), S # {}
        PROVE  /\ Max(S) \in 1..n
               /\ step[Max(S)][g[S \ {Max(S)}]] = g[S \ {Max(S)}] + s[Max(S)].reward
    <3>1. Max(S) \in 1..n
      BY <1>1, <2>2, MaxOfIndices
    <3>2. g[S \ {Max(S)}] \in Int
      <4> HIDE DEF step
      <4> QED
        BY <2>1 DEF Solves
    <3> QED
      BY <3>1, <3>2
  <2>3. g = Body(g)
    <3>1. DOMAIN s = 1..n
      BY <1>1
    <3> HIDE DEF step, n
    <3> QED
      BY <2>1, <2>2, <3>1 DEF Solves
  <2> QED
    BY <2>3
<1>6. iter = Body(iter)
  <2> HIDE DEF Body
  <2> QED
    BY <1>5
<1>7. SolvesWithin(iter, n, Int, zero, step)
  <2> HIDE DEF iter
  <2>1. iter[{}] = zero
    BY <1>6
  <2>2. ASSUME NEW S \in SUBSET (1..n), S # {}, iter[S \ {Max(S)}] \in Int
        PROVE  iter[S] = step[Max(S)][iter[S \ {Max(S)}]]
    <3>1. Max(S) \in 1..n
      BY <1>1, <2>2, MaxOfIndices
    <3> QED
      BY <1>1, <1>6, <2>2, <3>1
  <2> HIDE DEF step, n
  <2> QED
    BY <2>1, <2>2 DEF SolvesWithin
<1>8. PICK f : IsTrace(f, n, Int, zero, step) /\ f[n] = iter[1..n]
  <2> HIDE DEF iter, n, step, zero
  <2> QED
    BY <1>1, <1>2, <1>4, <1>7, FoldTrace
<1>9. f \in [0..n -> Int] /\ f[0] = zero /\ \A i \in 1..n : f[i] = step[i][f[i - 1]]
  <2> HIDE DEF iter, n, step
  <2> QED
    BY <1>8 DEF IsTrace
<1>10. f[n] \in Int
  <2> HIDE DEF iter, n, step
  <2> QED
    BY <1>1, <1>9
<1> HIDE DEF iter, step, n
<1> QED
  BY <1>3, <1>8, <1>10

\* The value of a trajectory is the best of its partial sums.
LEMMA ValueIsInt ==
  ASSUME NEW steps \in Paths
  PROVE  /\ TrajectoryValue(steps) \in Int
         /\ \A i \in 1..Len(steps) : Cumulative(steps, i) =< TrajectoryValue(steps)
         /\ \E i \in 1..Len(steps) : Cumulative(steps, i) = TrajectoryValue(steps)
<1> DEFINE n == Len(steps)
           f == [i \in 1..n |-> Cumulative(steps, i)]
           S == {f[i] : i \in 1..n}
<1>1. n \in Nat /\ n # 0 /\ 1 \in 1..n /\ steps \in Seq(StepRecords)
  BY DEF Paths
<1>2. S = {Cumulative(steps, i) : i \in 1..n}
  OBVIOUS
<1>3. S \in SUBSET Int /\ S # {}
  BY <1>1, <1>2, CumulativeIsInt
<1>4. IsFiniteSet(S)
  <2>1. IsFiniteSet(1..n) /\ DOMAIN f = 1..n /\ f = [i \in 1..n |-> f[i]]
    BY <1>1, FS_Interval
  <2> HIDE DEF f, n
  <2> QED
    BY <2>1, FiniteImage
<1> HIDE DEF f
<1>5. Max(S) \in S /\ Max(S) \in Int /\ \A x \in S : x =< Max(S)
  <2> HIDE DEF S
  <2> QED
    BY <1>3, <1>4, FiniteMax
<1>6. TrajectoryValue(steps) = Max(S)
  BY <1>2 DEF TrajectoryValue
<1> HIDE DEF n, S
<1> QED
  BY <1>2, <1>5, <1>6 DEF n

-----------------------------------------------------------------------------
(* The operations of the archive. *)

\* What an entry of the archive remembers of its revisits never shrinks, and no
\* entry is lost.
Later(old, new) ==
  /\ DOMAIN old \subseteq DOMAIN new
  /\ \A s \in DOMAIN old : /\ new[s].selections >= old[s].selections
                           /\ new[s].visits >= old[s].visits

\* Every entry has a property, given as a set of pairs of an id and a state.
Holds(a, P) == \A s \in DOMAIN a : <<s, a[s]>> \in P

\* A property that a merge keeps.
KeptByMerges(P) ==
  \A s \in StateIds, old \in ArchivedStates, new \in ArchivedStates :
    <<s, old>> \in P /\ <<s, new>> \in P => <<s, MergeState(old, new)>> \in P

\* The counters of one archive are not above those of a later one.
LEMMA LaterIsAnOrder ==
  ASSUME NEW a \in Archives, NEW b \in Archives, NEW c \in Archives
  PROVE  Later(a, a) /\ (Later(a, b) /\ Later(b, c) => Later(a, c))
<1>1. \A d \in {a, b, c}, s \in UNION {DOMAIN a, DOMAIN b, DOMAIN c} :
        s \in DOMAIN d => d[s].selections \in Nat /\ d[s].visits \in Nat
  BY ArchiveFacts DEF ArchivedStates
<1> QED
  BY <1>1 DEF Later

\* A state that was just archived: nothing was achieved, promised or spent yet.
JustArchived(new, replay, native) ==
  /\ new \in ArchivedStates
  /\ new.achieved = 0 /\ new.projected = NoValue /\ new.support = {}
  /\ new.replay = replay /\ new.native = native

\* What is archived of a state is an archived state.
LEMMA ArchivedTyped ==
  ASSUME NEW w \in Worlds, NEW id \in Provenances, NEW timestep \in Nat,
         NEW replay \in Seq(Actions), NEW native \in Worlds \cup {NoNative},
         NEW referenced, referenced \in BOOLEAN
  PROVE  JustArchived(Archived(w, id, timestep, replay, native, referenced), replay, native)
<1> DEFINE new == Archived(w, id, timestep, replay, native, referenced)
<1>1. /\ Score[w] \in Int /\ Summary[Observation[w]] \in GameTexts
      /\ Summary[Inventory[w]] \in GameTexts
  BY GameAssumption DEF GameAssumption, GameTexts
<1>2. new = [prov |-> id, timestep |-> timestep, replay |-> replay, native |-> native,
             referenced |-> referenced, score |-> Score[w],
             observation |-> Summary[Observation[w]], inventory |-> Summary[Inventory[w]],
             achieved |-> 0, projected |-> NoValue, support |-> {},
             selections |-> 0, visits |-> 0, failures |-> 0, barren |-> 0, fruitless |-> 0,
             saturation |-> 0]
  BY DEF Archived
<1> HIDE DEF new
<1>3. new \in ArchivedStates
  BY <1>1, <1>2 DEF ArchivedStates
<1>4. JustArchived(new, replay, native)
  BY <1>2, <1>3 DEF JustArchived
<1> QED
  BY <1>4 DEF new

\* A merge keeps the provenance, the values and the counters of the old entry.
LEMMA MergeTyped ==
  ASSUME NEW old \in ArchivedStates, NEW new \in ArchivedStates,
         NEW merged, merged = MergeState(old, new)
  PROVE  /\ merged \in ArchivedStates
         /\ merged.achieved = old.achieved /\ merged.projected = old.projected
         /\ merged.support = old.support
         /\ merged.selections = old.selections /\ merged.visits = old.visits
         /\ \/ merged.replay = old.replay
            \/ merged.replay = new.replay /\ (new.native # NoNative \/ old.replay = << >>)
         /\ new.native # NoNative => merged.replay = new.replay
         /\ merged.native = IF new.native # NoNative THEN new.native ELSE old.native
<1> DEFINE replay == IF new.native # NoNative \/ (old.replay = << >> /\ new.replay # << >>)
                     THEN new.replay ELSE old.replay
           native == IF new.native # NoNative THEN new.native ELSE old.native
           observation == IF new.observation # EmptyText THEN new.observation ELSE old.observation
           inventory == IF new.inventory # EmptyText THEN new.inventory ELSE old.inventory
           referenced == old.referenced \/ new.referenced
<1>1. /\ replay \in Seq(Actions) /\ native \in Worlds \cup {NoNative}
      /\ observation \in GameTexts /\ inventory \in GameTexts /\ new.score \in Int
      /\ old.prov \in Provenances /\ old.timestep \in Nat
      /\ old.achieved \in Int /\ old.projected \in Int \cup {NoValue}
      /\ old.support \in SUBSET TrajectoryIds
      /\ old.selections \in Nat /\ old.visits \in Nat /\ old.failures \in Nat
      /\ old.barren \in Nat /\ old.fruitless \in Nat /\ old.saturation \in Nat
  BY DEF ArchivedStates
<1>2. referenced \in BOOLEAN
  BY DEF ArchivedStates
<1>3. merged = [prov |-> old.prov, timestep |-> old.timestep, replay |-> replay,
                native |-> native, referenced |-> referenced, score |-> new.score,
                observation |-> observation, inventory |-> inventory,
                achieved |-> old.achieved, projected |-> old.projected, support |-> old.support,
                selections |-> old.selections, visits |-> old.visits, failures |-> old.failures,
                barren |-> old.barren, fruitless |-> old.fruitless,
                saturation |-> old.saturation]
  BY DEF MergeState, ArchivedStates
<1> HIDE DEF native, observation, inventory, referenced, replay
<1>4. merged \in ArchivedStates
  BY <1>1, <1>2, <1>3 DEF ArchivedStates
<1>5. /\ merged.achieved = old.achieved /\ merged.projected = old.projected
      /\ merged.support = old.support
      /\ merged.selections = old.selections /\ merged.visits = old.visits
      /\ merged.replay = replay /\ merged.native = native
  BY <1>3
<1>6. /\ \/ replay = old.replay
         \/ replay = new.replay /\ (new.native # NoNative \/ old.replay = << >>)
      /\ new.native # NoNative => replay = new.replay
  BY DEF replay
<1> QED
  BY <1>4, <1>5, <1>6 DEF native

\* Archiving one more state.
LEMMA UpsertFacts ==
  ASSUME NEW a \in Archives, NEW id \in StateIds, NEW new \in ArchivedStates,
         NEW P, KeptByMerges(P), Holds(a, P), <<id, new>> \in P
  PROVE  /\ Upsert(a, id, new) \in Archives
         /\ Later(a, Upsert(a, id, new))
         /\ Holds(Upsert(a, id, new), P)
         /\ DOMAIN Upsert(a, id, new) = DOMAIN a \cup {id}
<1> DEFINE b == Upsert(a, id, new)
           entry == IF id \in DOMAIN a THEN MergeState(a[id], new) ELSE new
           D == DOMAIN a \cup {id}
<1>1. /\ DOMAIN a \subseteq StateIds /\ IsFiniteSet(DOMAIN a)
      /\ \A s \in DOMAIN a : a[s] \in ArchivedStates /\ <<s, a[s]>> \in P
  BY ArchiveFacts DEF Holds
<1>2. b = [s \in D |-> IF s = id THEN entry ELSE a[s]]
  BY DEF Upsert
<1>3. entry \in ArchivedStates /\ <<id, entry>> \in P
  <2>1. CASE id \in DOMAIN a
    <3>1. entry = MergeState(a[id], new) /\ a[id] \in ArchivedStates
      BY <1>1, <2>1
    <3>2. <<id, entry>> \in P
      BY <1>1, <2>1, <3>1 DEF KeptByMerges
    <3> HIDE DEF entry
    <3> QED
      BY <3>1, <3>2, MergeTyped
  <2>2. CASE id \notin DOMAIN a
    BY <2>2
  <2> QED
    BY <2>1, <2>2
<1>4. id \in DOMAIN a => /\ entry.selections = a[id].selections
                         /\ entry.visits = a[id].visits
  <2> SUFFICES ASSUME id \in DOMAIN a
               PROVE  entry.selections = a[id].selections /\ entry.visits = a[id].visits
    OBVIOUS
  <2>1. entry = MergeState(a[id], new) /\ a[id] \in ArchivedStates
    BY <1>1
  <2> HIDE DEF entry
  <2> QED
    BY <2>1, MergeTyped
<1> HIDE DEF b, entry
<1>5. D \in SUBSET StateIds /\ IsFiniteSet(D)
  BY <1>1, FS_AddElement
<1>6. \A s \in D : b[s] \in ArchivedStates /\ <<s, b[s]>> \in P
  BY <1>1, <1>2, <1>3
<1>7. b = [s \in D |-> b[s]] /\ DOMAIN b = D
  BY <1>2
<1>8. b \in Archives
  <2> HIDE DEF D
  <2> QED
    BY <1>5, <1>6, <1>7, IsAnArchive
<1>9. Holds(b, P)
  BY <1>6, <1>7 DEF Holds
<1>10. Later(a, b)
  <2>1. \A s \in DOMAIN a : /\ b[s].selections = a[s].selections /\ b[s].visits = a[s].visits
                            /\ a[s].selections \in Nat /\ a[s].visits \in Nat
    BY <1>1, <1>2, <1>4 DEF ArchivedStates
  <2> QED
    BY <1>7, <2>1 DEF Later
<1> QED
  BY <1>7, <1>8, <1>9, <1>10 DEF b

\* The archived state of a step of a trajectory.
LEMMA StateForStepTyped ==
  ASSUME NEW t \in Trajectories, NEW i \in 1..Len(t.steps)
  PROVE  /\ StateId[t.steps[i].world] \in StateIds
         /\ JustArchived(StateForStep(t, i), t.steps[i].replay, NoNative)
<1> DEFINE w == t.steps[i].world
           replay == t.steps[i].replay
           k == i - 1
<1>0. t.id \in TrajectoryIds /\ t.steps \in Paths
  BY DEF Trajectories
<1>1. w \in Worlds /\ replay \in Seq(Actions) /\ k \in Nat
  <2>1. t.steps \in Seq(StepRecords)
    BY <1>0 DEF Paths
  <2>2. t.steps[i] \in StepRecords
    BY <2>1
  <2> QED
    BY <2>2 DEF StepRecords
<1>2. t.id \in Provenances
  BY <1>0, EpisodeAssumption DEF TrajectoryIds, Provenances, EpisodeAssumption
<1>3. StateForStep(t, i) = Archived(w, t.id, k, replay, NoNative, TRUE)
  BY DEF StateForStep
<1>4. NoNative \in Worlds \cup {NoNative} /\ TRUE \in BOOLEAN
  OBVIOUS
<1> HIDE DEF w, replay, k
<1>5. JustArchived(Archived(w, t.id, k, replay, NoNative, TRUE), replay, NoNative)
  BY <1>1, <1>2, <1>4, ArchivedTyped
<1> QED
  BY <1>1, <1>3, <1>5 DEF StateIds, w, replay

\* The archives that may come of `a` when entries with the property P are added.
Outgrowths(a, P) == {b \in Archives : Later(a, b) /\ Holds(b, P)}

\* The states that a trajectory would archive have the property.
StepsHold(t, P) ==
  \A i \in 1..Len(t.steps) : <<StateId[t.steps[i].world], StateForStep(t, i)>> \in P

\* An archive is one of its outgrowths.
LEMMA OutgrowthOfItself ==
  ASSUME NEW a \in Archives, NEW P, Holds(a, P)
  PROVE  a \in Outgrowths(a, P)
BY LaterIsAnOrder DEF Outgrowths

\* So is an outgrowth of an outgrowth.
LEMMA OutgrowthOfOutgrowth ==
  ASSUME NEW a \in Archives, NEW P, NEW b \in Outgrowths(a, P), NEW c \in Outgrowths(b, P)
  PROVE  c \in Outgrowths(a, P)
<1>1. b \in Archives /\ c \in Archives /\ Later(a, b) /\ Later(b, c) /\ Holds(c, P)
  BY DEF Outgrowths
<1> QED
  BY <1>1, LaterIsAnOrder DEF Outgrowths

\* Archiving one step of a trajectory.
LEMMA UpsertOutgrows ==
  ASSUME NEW a \in Archives, NEW P, KeptByMerges(P), NEW b \in Outgrowths(a, P),
         NEW t \in Trajectories, StepsHold(t, P),
         NEW i \in 1..Len(t.steps)
  PROVE  Upsert(b, StateId[t.steps[i].world], StateForStep(t, i)) \in Outgrowths(a, P)
<1> DEFINE id == StateId[t.steps[i].world]
           new == StateForStep(t, i)
           c == Upsert(b, id, new)
<1>1. b \in Archives /\ Later(a, b) /\ Holds(b, P)
  BY DEF Outgrowths
<1>2. id \in StateIds /\ new \in ArchivedStates
  BY StateForStepTyped DEF JustArchived
<1>3. <<id, new>> \in P
  BY DEF StepsHold
<1> HIDE DEF id, new
<1>4. c \in Archives /\ Later(b, c) /\ Holds(c, P)
  BY <1>1, <1>2, <1>3, UpsertFacts
<1> HIDE DEF c
<1>5. Later(a, c)
  BY <1>1, <1>4, LaterIsAnOrder
<1>6. c \in Outgrowths(a, P)
  BY <1>4, <1>5 DEF Outgrowths
<1> QED
  BY <1>6 DEF c, new, id

\* The archives that the ingestion of a trajectory runs through.
LEMMA IngestTrace ==
  ASSUME NEW a \in Archives, NEW P, KeptByMerges(P), Holds(a, P),
         NEW t \in Trajectories, StepsHold(t, P)
  PROVE  \E f \in [0..Len(t.steps) -> Outgrowths(a, P)] :
           /\ f[0] = a /\ f[Len(t.steps)] = Ingest(a, t)
           /\ \A i \in 1..Len(t.steps) :
                f[i] = Upsert(f[i - 1], StateId[t.steps[i].world], StateForStep(t, i))
<1> DEFINE s == [i \in DOMAIN t.steps |-> i]
           n == Len(t.steps)
           step == [i \in 1..n |-> [v \in Outgrowths(a, P) |-> Upsert(v, StateId[t.steps[s[i]].world], StateForStep(t, s[i]))]]
           Body(g) == [S \in SUBSET (DOMAIN s) |->
                         IF S = {} THEN a ELSE Upsert(g[S \ {Max(S)}], StateId[t.steps[s[Max(S)]].world], StateForStep(t, s[Max(S)]))]
           iter == CHOOSE g : g = Body(g)
<1>1. n \in Nat /\ DOMAIN s = 1..n /\ \A i \in 1..n : s[i] = i
  BY DEF Trajectories, Paths
<1>2. step \in Steps(n, Outgrowths(a, P))
  <2>1. \A i \in 1..n, v \in Outgrowths(a, P) :
          Upsert(v, StateId[t.steps[i].world], StateForStep(t, i)) \in Outgrowths(a, P)
    BY UpsertOutgrows
  <2> HIDE DEF n, s
  <2> QED
    BY <1>1, <2>1 DEF Steps
<1>3. Ingest(a, t) = iter[1..n]
  BY <1>1 DEF Ingest, s, FoldLeftDomain, FoldLeft, MapThenFoldSet
<1>4. a \in Outgrowths(a, P)
  BY OutgrowthOfItself
<1>5. \E g : g = Body(g)
  <2>1. PICK g : Solves(g, n, Outgrowths(a, P), a, step)
    <3> HIDE DEF step, n
    <3> QED
      BY <1>1, <1>2, <1>4, FoldExists
  <2>2. ASSUME NEW S \in SUBSET (1..n), S # {}
        PROVE  /\ Max(S) \in 1..n
               /\ step[Max(S)][g[S \ {Max(S)}]] = Upsert(g[S \ {Max(S)}], StateId[t.steps[s[Max(S)]].world], StateForStep(t, s[Max(S)]))
    <3>1. Max(S) \in 1..n
      BY <1>1, <2>2, MaxOfIndices
    <3>2. g[S \ {Max(S)}] \in Outgrowths(a, P)
      <4> HIDE DEF step
      <4> QED
        BY <2>1 DEF Solves
    <3> QED
      BY <3>1, <3>2
  <2>3. g = Body(g)
    <3>1. DOMAIN s = 1..n
      BY <1>1
    <3> HIDE DEF step, n, s
    <3> QED
      BY <2>1, <2>2, <3>1 DEF Solves
  <2> QED
    BY <2>3
<1>6. iter = Body(iter)
  <2> HIDE DEF Body
  <2> QED
    BY <1>5
<1>7. SolvesWithin(iter, n, Outgrowths(a, P), a, step)
  <2> HIDE DEF iter
  <2>1. iter[{}] = a
    BY <1>6
  <2>2. ASSUME NEW S \in SUBSET (1..n), S # {}, iter[S \ {Max(S)}] \in Outgrowths(a, P)
        PROVE  iter[S] = step[Max(S)][iter[S \ {Max(S)}]]
    <3>1. Max(S) \in 1..n
      BY <1>1, <2>2, MaxOfIndices
    <3> QED
      BY <1>1, <1>6, <2>2, <3>1
  <2> HIDE DEF step, n
  <2> QED
    BY <2>1, <2>2 DEF SolvesWithin
<1>8. PICK f : IsTrace(f, n, Outgrowths(a, P), a, step) /\ f[n] = iter[1..n]
  <2> HIDE DEF iter, n, step
  <2> QED
    BY <1>1, <1>2, <1>4, <1>7, FoldTrace
<1>9. f \in [0..n -> Outgrowths(a, P)] /\ f[0] = a /\ \A i \in 1..n : f[i] = step[i][f[i - 1]]
  <2> HIDE DEF iter, n, step
  <2> QED
    BY <1>8 DEF IsTrace
<1>10. \A i \in 1..n : f[i] = Upsert(f[i - 1], StateId[t.steps[i].world], StateForStep(t, i))
  <2> HIDE DEF iter, s
  <2>1. ASSUME NEW i \in 1..n PROVE f[i - 1] \in Outgrowths(a, P)
    BY <1>1, <1>9
  <2> QED
    BY <1>1, <1>9, <2>1
<1> HIDE DEF iter, step, s
<1> QED
  BY <1>3, <1>8, <1>9, <1>10

\* The ingestion of a trajectory loses nothing that the archive remembers.
LEMMA IngestOutgrows ==
  ASSUME NEW a \in Archives, NEW P, KeptByMerges(P), NEW b \in Outgrowths(a, P),
         NEW t \in Trajectories, StepsHold(t, P)
  PROVE  Ingest(b, t) \in Outgrowths(a, P)
<1>1. b \in Archives /\ Holds(b, P)
  BY DEF Outgrowths
<1>2. PICK f : f \in [0..Len(t.steps) -> Outgrowths(b, P)] /\ f[Len(t.steps)] = Ingest(b, t)
  BY <1>1, IngestTrace
<1>3. Len(t.steps) \in 0..Len(t.steps)
  BY DEF Trajectories, Paths
<1>4. Ingest(b, t) \in Outgrowths(b, P)
  BY <1>2, <1>3
<1> QED
  BY <1>1, <1>4, OutgrowthOfOutgrowth

\* The archives that the ingestion of a batch runs through.
LEMMA BatchTrace ==
  ASSUME NEW a \in Archives, NEW P, KeptByMerges(P), Holds(a, P), NEW s \in Batches,
         \A i \in 1..Len(s) : StepsHold(s[i], P)
  PROVE  \E f \in [0..Len(s) -> Outgrowths(a, P)] :
           /\ f[0] = a /\ f[Len(s)] = IngestAll(a, s)
           /\ \A i \in 1..Len(s) : f[i] = Ingest(f[i - 1], s[i])
<1> DEFINE n == Len(s)
           step == [i \in 1..n |-> [v \in Outgrowths(a, P) |-> Ingest(v, s[i])]]
           Body(g) == [S \in SUBSET (DOMAIN s) |->
                         IF S = {} THEN a ELSE Ingest(g[S \ {Max(S)}], s[Max(S)])]
           iter == CHOOSE g : g = Body(g)
<1>1. /\ n \in Nat /\ DOMAIN s = 1..n
      /\ \A i \in 1..n : s[i] \in Trajectories
  BY DEF Batches
<1>2. step \in Steps(n, Outgrowths(a, P))
  <2>1. \A i \in 1..n, v \in Outgrowths(a, P) : Ingest(v, s[i]) \in Outgrowths(a, P)
    BY <1>1, IngestOutgrows
  <2> HIDE DEF n
  <2> QED
    BY <1>1, <2>1 DEF Steps
<1>3. IngestAll(a, s) = iter[1..n]
  BY <1>1 DEF IngestAll, FoldLeft, MapThenFoldSet
<1>4. a \in Outgrowths(a, P)
  BY OutgrowthOfItself
<1>5. \E g : g = Body(g)
  <2>1. PICK g : Solves(g, n, Outgrowths(a, P), a, step)
    <3> HIDE DEF step, n
    <3> QED
      BY <1>1, <1>2, <1>4, FoldExists
  <2>2. ASSUME NEW S \in SUBSET (1..n), S # {}
        PROVE  /\ Max(S) \in 1..n
               /\ step[Max(S)][g[S \ {Max(S)}]] = Ingest(g[S \ {Max(S)}], s[Max(S)])
    <3>1. Max(S) \in 1..n
      BY <1>1, <2>2, MaxOfIndices
    <3>2. g[S \ {Max(S)}] \in Outgrowths(a, P)
      <4> HIDE DEF step
      <4> QED
        BY <2>1 DEF Solves
    <3> QED
      BY <3>1, <3>2
  <2>3. g = Body(g)
    <3>1. DOMAIN s = 1..n
      BY <1>1
    <3> HIDE DEF step, n
    <3> QED
      BY <2>1, <2>2, <3>1 DEF Solves
  <2> QED
    BY <2>3
<1>6. iter = Body(iter)
  <2> HIDE DEF Body
  <2> QED
    BY <1>5
<1>7. SolvesWithin(iter, n, Outgrowths(a, P), a, step)
  <2> HIDE DEF iter
  <2>1. iter[{}] = a
    BY <1>6
  <2>2. ASSUME NEW S \in SUBSET (1..n), S # {}, iter[S \ {Max(S)}] \in Outgrowths(a, P)
        PROVE  iter[S] = step[Max(S)][iter[S \ {Max(S)}]]
    <3>1. Max(S) \in 1..n
      BY <1>1, <2>2, MaxOfIndices
    <3> QED
      BY <1>1, <1>6, <2>2, <3>1
  <2> HIDE DEF step, n
  <2> QED
    BY <2>1, <2>2 DEF SolvesWithin
<1>8. PICK f : IsTrace(f, n, Outgrowths(a, P), a, step) /\ f[n] = iter[1..n]
  <2> HIDE DEF iter, n, step
  <2> QED
    BY <1>1, <1>2, <1>4, <1>7, FoldTrace
<1>9. f \in [0..n -> Outgrowths(a, P)] /\ f[0] = a /\ \A i \in 1..n : f[i] = step[i][f[i - 1]]
  <2> HIDE DEF iter, n, step
  <2> QED
    BY <1>8 DEF IsTrace
<1>10. \A i \in 1..n : f[i] = Ingest(f[i - 1], s[i])
  <2> HIDE DEF iter
  <2>1. ASSUME NEW i \in 1..n PROVE f[i - 1] \in Outgrowths(a, P)
    BY <1>1, <1>9
  <2> QED
    BY <1>1, <1>9, <2>1
<1> HIDE DEF iter, step
<1> QED
  BY <1>3, <1>8, <1>9, <1>10

\* Nor does the ingestion of a batch lose anything.
LEMMA BatchOutgrows ==
  ASSUME NEW a \in Archives, NEW P, KeptByMerges(P), Holds(a, P), NEW s \in Batches,
         \A i \in 1..Len(s) : StepsHold(s[i], P)
  PROVE  IngestAll(a, s) \in Outgrowths(a, P)
<1>1. PICK f : f \in [0..Len(s) -> Outgrowths(a, P)] /\ f[Len(s)] = IngestAll(a, s)
  BY BatchTrace
<1>2. Len(s) \in 0..Len(s)
  BY DEF Batches
<1> QED
  BY <1>1, <1>2

-----------------------------------------------------------------------------
(* The restores. *)

\* The node for what a wrapper has just seen.
LEMMA NodeAtTyped ==
  ASSUME NEW X, NEW e \in Wrappers(X), NEW native \in Worlds \cup {NoNative},
         NEW stepIndex \in Nat \cup {-1}
  PROVE  NodeAt(e, native, stepIndex) \in Nodes(X)
<1>1. /\ e.history \in Seq(Actions) /\ e.world \in Worlds /\ e.start \in Starts
      /\ e.last \in LastStates(X)
  BY DEF Wrappers
<1>2. e.last.observation \in X /\ e.last.inventory \in X /\ e.last.score \in Int
  BY <1>1 DEF LastStates
<1> QED
  BY <1>1, <1>2 DEF NodeAt, Nodes

\* The node for an archived state.
LEMMA ArchivedNodeTyped ==
  ASSUME NEW a \in ArchivedStates
  PROVE  /\ ArchivedNode(a) \in Nodes(GameTexts)
         /\ ArchivedNode(a).native = a.native /\ ArchivedNode(a).prefix = a.replay
         /\ ArchivedNode(a).start = SeededStart
<1>1. /\ a.replay \in Seq(Actions) /\ a.native \in Worlds \cup {NoNative} /\ a.score \in Int
      /\ a.observation \in GameTexts /\ a.inventory \in GameTexts
      /\ a.timestep \in Nat \cup {-1}
  BY DEF ArchivedStates
<1>2. SeededStart \in Starts /\ SeededStart \in Worlds
  BY GameAssumption DEF GameAssumption
<1>3. Play(SeededStart, a.replay) \in Worlds
  BY <1>1, <1>2, PlayTyped
<1> QED
  BY <1>1, <1>2, <1>3 DEF ArchivedNode, Nodes

\* The wrapper is on a run of the game: its history explains its machine state, or the
\* native snapshot of the node was put back.
Reached(e, node) == Explained(e) \/ PutBack(e, node)

\* A restore of an archived state.
LEMMA ArchivedRestore ==
  ASSUME NEW e \in Wrappers(GameTexts), NEW a \in ArchivedStates,
         NEW outcome \in RestoreArchived(e, a)
  PROVE  /\ outcome.env \in Wrappers(GameTexts)
         /\ Reached(outcome.env, ArchivedNode(a))
         /\ outcome.result.success /\ a.observation # EmptyText
              => outcome.env.history = a.replay
<1> DEFINE node == ArchivedNode(a)
           steps == UnrecordedSteps(node)
<1>1. TextsIn(GameTexts)
  BY GameTextsAreTexts
<1>2. node \in Nodes(GameTexts) /\ node.prefix = a.replay
  BY ArchivedNodeTyped
<1>3. CASE a.observation = EmptyText
  <2>1. PICK w \in Starts : outcome = [env |-> EnvReset(w),
                                       result |-> [success |-> TRUE, mode |-> "RESET_ONLY"]]
    BY <1>3 DEF RestoreArchived
  <2>2. Sound(EnvReset(w), GameTexts)
    BY <1>1, ResetIsSound
  <2>3. outcome.env = EnvReset(w)
    BY <2>1
  <2> QED
    BY <1>3, <2>2, <2>3 DEF Sound, Reached
<1>4. CASE a.observation # EmptyText
  <2>1. outcome \in RestoreOutcomes(e, node, steps)
    BY <1>4 DEF RestoreArchived
  <2>2. steps \in {RecordedSteps(node), UnrecordedSteps(node)}
    OBVIOUS
  <2> HIDE DEF node, steps
  <2>3. /\ outcome.env \in Wrappers(GameTexts)
        /\ Explained(outcome.env) \/ PutBack(outcome.env, node)
        /\ outcome.result.success => outcome.env.history = node.prefix
    BY <1>1, <1>2, <2>1, <2>2, AnyRestore
  <2> QED
    BY <1>2, <2>3 DEF Reached, node
<1> QED
  BY <1>3, <1>4

\* A restore of the base of a cycle.
LEMMA BranchRestore ==
  ASSUME env \in Wrappers(GameTexts), base \in Nodes(GameTexts), NEW outcome \in BranchStart
  PROVE  /\ outcome.env \in Wrappers(GameTexts)
         /\ Reached(outcome.env, base)
         /\ outcome.result.success => outcome.env.history = base.prefix
<1> DEFINE steps == UnrecordedSteps(base)
<1>1. TextsIn(GameTexts)
  BY GameTextsAreTexts
<1>2. outcome \in RestoreOutcomes(env, base, steps)
  BY DEF BranchStart
<1>3. steps \in {RecordedSteps(base), UnrecordedSteps(base)}
  OBVIOUS
<1> HIDE DEF steps
<1>4. /\ outcome.env \in Wrappers(GameTexts)
      /\ Explained(outcome.env) \/ PutBack(outcome.env, base)
      /\ outcome.result.success => outcome.env.history = base.prefix
  BY <1>1, <1>2, <1>3, AnyRestore
<1> QED
  BY <1>4 DEF Reached

-----------------------------------------------------------------------------
(* The rollouts. *)

\* The wrappers that a rollout runs through.
LEMMA RolloutTrace ==
  ASSUME NEW e \in Wrappers(GameTexts), NEW s \in Seq(Actions)
  PROVE  \E f \in [0..Len(s) -> Wrappers(GameTexts)] :
           /\ f[0] = e /\ f[Len(s)] = RolledOut(e, s)
           /\ \A i \in 1..Len(s) : f[i] = EnvStep(f[i - 1], s[i])
<1> DEFINE n == Len(s)
           step == [i \in 1..n |-> [v \in Wrappers(GameTexts) |-> EnvStep(v, s[i])]]
           Body(g) == [S \in SUBSET (DOMAIN s) |->
                         IF S = {} THEN e ELSE EnvStep(g[S \ {Max(S)}], s[Max(S)])]
           iter == CHOOSE g : g = Body(g)
<1>1. n \in Nat /\ DOMAIN s = 1..n /\ \A i \in 1..n : s[i] \in Actions
  OBVIOUS
<1>2. step \in Steps(n, Wrappers(GameTexts))
  <2>1. \A v \in Wrappers(GameTexts), a \in Actions : EnvStep(v, a) \in Wrappers(GameTexts)
    BY GameTextsAreTexts, StepIsSound
  <2> HIDE DEF n
  <2> QED
    BY <1>1, <2>1 DEF Steps
<1>3. RolledOut(e, s) = iter[1..n]
  BY <1>1 DEF RolledOut, FoldLeft, MapThenFoldSet
<1>4. e \in Wrappers(GameTexts)
  OBVIOUS
<1>5. \E g : g = Body(g)
  <2>1. PICK g : Solves(g, n, Wrappers(GameTexts), e, step)
    <3> HIDE DEF step, n
    <3> QED
      BY <1>1, <1>2, <1>4, FoldExists
  <2>2. ASSUME NEW S \in SUBSET (1..n), S # {}
        PROVE  /\ Max(S) \in 1..n
               /\ step[Max(S)][g[S \ {Max(S)}]] = EnvStep(g[S \ {Max(S)}], s[Max(S)])
    <3>1. Max(S) \in 1..n
      BY <1>1, <2>2, MaxOfIndices
    <3>2. g[S \ {Max(S)}] \in Wrappers(GameTexts)
      <4> HIDE DEF step
      <4> QED
        BY <2>1 DEF Solves
    <3> QED
      BY <3>1, <3>2
  <2>3. g = Body(g)
    <3>1. DOMAIN s = 1..n
      BY <1>1
    <3> HIDE DEF step, n
    <3> QED
      BY <2>1, <2>2, <3>1 DEF Solves
  <2> QED
    BY <2>3
<1>6. iter = Body(iter)
  <2> HIDE DEF Body
  <2> QED
    BY <1>5
<1>7. SolvesWithin(iter, n, Wrappers(GameTexts), e, step)
  <2> HIDE DEF iter
  <2>1. iter[{}] = e
    BY <1>6
  <2>2. ASSUME NEW S \in SUBSET (1..n), S # {}, iter[S \ {Max(S)}] \in Wrappers(GameTexts)
        PROVE  iter[S] = step[Max(S)][iter[S \ {Max(S)}]]
    <3>1. Max(S) \in 1..n
      BY <1>1, <2>2, MaxOfIndices
    <3> QED
      BY <1>1, <1>6, <2>2, <3>1
  <2> HIDE DEF step, n
  <2> QED
    BY <2>1, <2>2 DEF SolvesWithin
<1>8. PICK f : IsTrace(f, n, Wrappers(GameTexts), e, step) /\ f[n] = iter[1..n]
  <2> HIDE DEF iter, n, step
  <2> QED
    BY <1>1, <1>2, <1>4, <1>7, FoldTrace
<1>9. f \in [0..n -> Wrappers(GameTexts)] /\ f[0] = e /\ \A i \in 1..n : f[i] = step[i][f[i - 1]]
  <2> HIDE DEF iter, n, step
  <2> QED
    BY <1>8 DEF IsTrace
<1>10. \A i \in 1..n : f[i] = EnvStep(f[i - 1], s[i])
  <2> HIDE DEF iter
  <2>1. ASSUME NEW i \in 1..n PROVE f[i - 1] \in Wrappers(GameTexts)
    BY <1>1, <1>9
  <2> QED
    BY <1>1, <1>9, <2>1
<1> HIDE DEF iter, step
<1> QED
  BY <1>3, <1>8, <1>9, <1>10

\* A rollout leaves a wrapper of the right type.
LEMMA RolledOutTyped ==
  ASSUME NEW e \in Wrappers(GameTexts), NEW s \in Seq(Actions)
  PROVE  RolledOut(e, s) \in Wrappers(GameTexts)
<1>1. PICK f : f \in [0..Len(s) -> Wrappers(GameTexts)] /\ f[Len(s)] = RolledOut(e, s)
  BY RolloutTrace
<1>2. Len(s) \in 0..Len(s)
  OBVIOUS
<1> QED
  BY <1>1, <1>2

\* The actions of a rollout.
LEMMA RolloutsAreActions ==
  ASSUME NEW e, NEW actions \in Rollouts(e), BranchHorizon \in Nat
  PROVE  actions \in Seq(Actions) /\ Len(actions) =< BranchHorizon
<1>1. actions \in SeqOf(Actions, BranchHorizon)
  BY DEF Rollouts
<1>2. PICK m \in 0..BranchHorizon : actions \in [1..m -> Actions]
  BY <1>1 DEF SeqOf
<1>3. m \in Nat /\ m =< BranchHorizon
  BY <1>2
<1>4. actions \in Seq(Actions) /\ Len(actions) = m
  BY <1>2, <1>3, FunctionIsSeq
<1> QED
  BY <1>3, <1>4

\* The steps recorded of a rollout.
LEMMA StepsOfTyped ==
  ASSUME NEW e \in Wrappers(GameTexts), NEW actions \in Seq(Actions)
  PROVE  /\ StepsOf(e, actions) \in Seq(StepRecords)
         /\ Len(StepsOf(e, actions)) = Len(actions)
         /\ \A i \in 1..Len(actions) :
              LET before == Play(e.world, SubSeq(actions, 1, i - 1))
              IN  /\ before \in Worlds
                  /\ StepsOf(e, actions)[i].world = Move[<<before, actions[i]>>]
                  /\ StepsOf(e, actions)[i].reward
                       = Score[Move[<<before, actions[i]>>]] - Score[before]
                  /\ StepsOf(e, actions)[i].replay = e.history \o SubSeq(actions, 1, i)
<1> DEFINE n == Len(actions)
           before(i) == Play(e.world, SubSeq(actions, 1, i - 1))
           after(i) == Move[<<before(i), actions[i]>>]
           step(i) == [world |-> after(i), reward |-> Score[after(i)] - Score[before(i)],
                       replay |-> e.history \o SubSeq(actions, 1, i)]
           s == [i \in 1..n |-> step(i)]
<1>1. e.world \in Worlds /\ e.history \in Seq(Actions) /\ n \in Nat
  BY DEF Wrappers
<1>2. ASSUME NEW i \in 1..n
      PROVE  before(i) \in Worlds /\ step(i) \in StepRecords
  <2>1. SubSeq(actions, 1, i - 1) \in Seq(Actions) /\ SubSeq(actions, 1, i) \in Seq(Actions)
    OBVIOUS
  <2>2. before(i) \in Worlds
    BY <1>1, <2>1, PlayTyped
  <2>3. actions[i] \in Actions
    BY <1>1
  <2>4. after(i) \in Worlds
    <3> HIDE DEF before
    <3> QED
      BY <2>2, <2>3, GameAssumption DEF GameAssumption
  <2>5. Score[after(i)] - Score[before(i)] \in Int
    <3> HIDE DEF before, after
    <3>1. Score[after(i)] \in Int /\ Score[before(i)] \in Int
      BY <2>2, <2>4, GameAssumption DEF GameAssumption
    <3> QED
      BY <3>1
  <2>6. e.history \o SubSeq(actions, 1, i) \in Seq(Actions)
    BY <1>1, <2>1
  <2> HIDE DEF before, after
  <2> QED
    BY <2>2, <2>4, <2>5, <2>6 DEF StepRecords
<1>3. StepsOf(e, actions) = s
  BY DEF StepsOf
<1>4. s \in [1..n -> StepRecords]
  <2> HIDE DEF step
  <2> QED
    BY <1>2
<1>5. s \in Seq(StepRecords) /\ Len(s) = n
  <2> HIDE DEF s
  <2> QED
    BY <1>1, <1>4, FunctionIsSeq
<1>6. \A i \in 1..n : s[i] = step(i)
  <2> HIDE DEF step
  <2> QED
    OBVIOUS
<1> HIDE DEF s
<1>7. ASSUME NEW i \in 1..n
      PROVE  /\ s[i].world = after(i)
             /\ s[i].reward = Score[after(i)] - Score[before(i)]
             /\ s[i].replay = e.history \o SubSeq(actions, 1, i)
  <2>1. s[i] = step(i)
    BY <1>6
  <2>2. /\ step(i).world = after(i)
        /\ step(i).reward = Score[after(i)] - Score[before(i)]
        /\ step(i).replay = e.history \o SubSeq(actions, 1, i)
    <3> HIDE DEF after, before
    <3> QED
      OBVIOUS
  <2> HIDE DEF step
  <2> QED
    BY <2>1, <2>2
<1>8. \A i \in 1..n : before(i) \in Worlds
  <2> HIDE DEF before, step
  <2> QED
    BY <1>2
<1> QED
  BY <1>3, <1>5, <1>7, <1>8

-----------------------------------------------------------------------------
(* The budget and the trajectories of a cycle. *)

\* The shares of the branches of a cycle are within what is left of the budget.
LEMMA BudgetOfACycle ==
  ASSUME total \in Nat
  PROVE  /\ BranchCount \in 1..BranchesPerRoot /\ BranchHorizon \in Nat \ {0}
         /\ total < MaxSteps => BranchCount * BranchHorizon =< MaxSteps - total
<1> DEFINE r == Remaining
           c == BranchCount
           q == r \div c
<1>1. /\ MaxSteps \in Nat \ {0} /\ BranchesPerRoot \in Nat \ {0} /\ RolloutDepth \in Nat \ {0}
  BY EpisodeAssumption DEF EpisodeAssumption
<1>2. /\ \A i \in Int : Max({1, i}) = IF i > 1 THEN i ELSE 1
      /\ \A i \in Int, j \in Int : Min({i, j}) = IF i < j THEN i ELSE j
  <2>1. ASSUME NEW i \in Int PROVE Max({1, i}) = IF i > 1 THEN i ELSE 1
    BY DEF Max
  <2>2. ASSUME NEW i \in Int, NEW j \in Int PROVE Min({i, j}) = IF i < j THEN i ELSE j
    BY DEF Min
  <2> QED
    BY <2>1, <2>2
<1>3. r \in Nat \ {0} /\ (total < MaxSteps => r = MaxSteps - total)
  <2>1. MaxSteps - total \in Int
    BY <1>1
  <2> QED
    BY <1>1, <1>2, <2>1 DEF Remaining
<1> HIDE DEF r
<1>4. c = Max({1, Min({BranchesPerRoot, r})})
  BY DEF BranchCount, r
<1>5. c \in 1..BranchesPerRoot /\ c =< r
  <2> HIDE DEF c
  <2>1. Min({BranchesPerRoot, r}) = IF BranchesPerRoot < r THEN BranchesPerRoot ELSE r
    BY <1>1, <1>2, <1>3
  <2>2. Min({BranchesPerRoot, r}) \in Nat \ {0}
    BY <1>1, <1>3, <2>1
  <2>3. c = Min({BranchesPerRoot, r})
    BY <1>2, <1>4, <2>2
  <2> QED
    BY <1>1, <1>3, <2>1, <2>3
<1>6. c \in Nat \ {0}
  BY <1>1, <1>5
<1> HIDE DEF c
<1>7. q \in Nat /\ c * q =< r /\ q # 0
  BY <1>3, <1>5, <1>6
<1>8. BranchHorizon = Max({1, Min({RolloutDepth, Max({1, q})})})
  BY DEF BranchHorizon, r, c
<1> HIDE DEF q
<1>9. Max({1, q}) = q
  BY <1>2, <1>7
<1>10. BranchHorizon \in Nat \ {0} /\ BranchHorizon =< q
  <2>1. Min({RolloutDepth, q}) = IF RolloutDepth < q THEN RolloutDepth ELSE q
    BY <1>1, <1>2, <1>7
  <2>2. Min({RolloutDepth, q}) \in Nat \ {0} /\ Min({RolloutDepth, q}) =< q
    BY <1>1, <1>7, <2>1
  <2>3. BranchHorizon = Min({RolloutDepth, q})
    BY <1>2, <1>8, <1>9, <2>2
  <2> QED
    BY <2>2, <2>3
<1>11. c * BranchHorizon =< c * q
  BY <1>6, <1>7, <1>10
<1>12. c * BranchHorizon \in Int /\ c * q \in Int
  BY <1>6, <1>7, <1>10
<1>13. c * BranchHorizon =< r
  BY <1>3, <1>7, <1>11, <1>12
<1> QED
  BY <1>3, <1>5, <1>10, <1>13 DEF c

BranchesTyped == branches \in Seq(Seq(StepRecords))

\* The steps of the branches, summed up branch by branch.
LEMMA StepsTakenTrace ==
  ASSUME BranchesTyped
  PROVE  \E f \in [0..Len(branches) -> Nat] :
           /\ f[0] = 0 /\ f[Len(branches)] = StepsTaken
           /\ \A i \in 1..Len(branches) : f[i] = f[i - 1] + Len(branches[i])
<1> DEFINE zero == 0
           Sums == Nat
           n == Len(branches)
           step == [i \in 1..n |-> [v \in Nat |-> v + Len(branches[i])]]
           Body(g) == [S \in SUBSET (DOMAIN branches) |->
                         IF S = {} THEN zero ELSE g[S \ {Max(S)}] + Len(branches[Max(S)])]
           iter == CHOOSE g : g = Body(g)
<1>1. /\ n \in Nat /\ DOMAIN branches = 1..n
      /\ \A i \in 1..n : branches[i] \in Seq(StepRecords) /\ Len(branches[i]) \in Nat
  BY DEF BranchesTyped
<1> HIDE DEF zero
<1>0. n \in Nat
  BY <1>1
<1>2. step \in Steps(n, Sums)
  <2>1. \A i \in 1..n, v \in Nat : v + Len(branches[i]) \in Nat
    BY <1>1
  <2> HIDE DEF n
  <2> QED
    BY <1>1, <2>1 DEF Steps
<1>3. StepsTaken = iter[1..n]
  BY <1>1 DEF StepsTaken, FoldLeft, MapThenFoldSet, zero
<1>4. zero \in Sums
  BY DEF zero
<1>5. \E g : g = Body(g)
  <2>1. PICK g : Solves(g, n, Sums, zero, step)
    <3> HIDE DEF step, n
    <3> QED
      BY <1>1, <1>2, <1>4, FoldExists
  <2>2. ASSUME NEW S \in SUBSET (1..n), S # {}
        PROVE  /\ Max(S) \in 1..n
               /\ step[Max(S)][g[S \ {Max(S)}]] = g[S \ {Max(S)}] + Len(branches[Max(S)])
    <3>1. Max(S) \in 1..n
      BY <1>1, <2>2, MaxOfIndices
    <3>2. g[S \ {Max(S)}] \in Nat
      <4> HIDE DEF step
      <4> QED
        BY <2>1 DEF Solves
    <3> QED
      BY <3>1, <3>2
  <2>3. g = Body(g)
    <3>1. DOMAIN branches = 1..n
      BY <1>1
    <3> HIDE DEF step, n
    <3> QED
      BY <2>1, <2>2, <3>1 DEF Solves
  <2> QED
    BY <2>3
<1>6. iter = Body(iter)
  <2> HIDE DEF Body
  <2> QED
    BY <1>5
<1>7. SolvesWithin(iter, n, Sums, zero, step)
  <2> HIDE DEF iter
  <2>1. iter[{}] = zero
    BY <1>6
  <2>2. ASSUME NEW S \in SUBSET (1..n), S # {}, iter[S \ {Max(S)}] \in Nat
        PROVE  iter[S] = step[Max(S)][iter[S \ {Max(S)}]]
    <3>1. Max(S) \in 1..n
      BY <1>1, <2>2, MaxOfIndices
    <3> QED
      BY <1>1, <1>6, <2>2, <3>1
  <2> HIDE DEF step, n
  <2> QED
    BY <2>1, <2>2 DEF SolvesWithin
<1>8. PICK f : IsTrace(f, n, Sums, zero, step) /\ f[n] = iter[1..n]
  <2> HIDE DEF iter, n, step, Sums
  <2> QED
    BY <1>0, <1>2, <1>4, <1>7, FoldTrace
<1>9. f \in [0..n -> Nat] /\ f[0] = zero /\ \A i \in 1..n : f[i] = step[i][f[i - 1]]
  <2> HIDE DEF iter, n, step
  <2> QED
    BY <1>8 DEF IsTrace
<1>10. \A i \in 1..n : f[i] = f[i - 1] + Len(branches[i])
  <2> HIDE DEF iter
  <2>1. ASSUME NEW i \in 1..n PROVE f[i - 1] \in Nat
    <3>1. i - 1 \in 0..n
      BY <1>0
    <3> HIDE DEF n, step
    <3> QED
      BY <1>9, <3>1
  <2> QED
    BY <1>1, <1>9, <2>1
<1> HIDE DEF iter, step
<1> QED
  BY <1>3, <1>8, <1>9, <1>10 DEF zero

\* The steps taken are at most the horizon for each branch, and at least one when a
\* branch took one.
LEMMA StepsTakenBounds ==
  ASSUME BranchesTyped, NEW h \in Nat, \A b \in DOMAIN branches : Len(branches[b]) =< h
  PROVE  /\ StepsTaken \in Nat
         /\ StepsTaken =< Len(branches) * h
         /\ \A b \in DOMAIN branches : Len(branches[b]) =< StepsTaken
<1> DEFINE n == Len(branches)
<1>1. /\ n \in Nat /\ DOMAIN branches = 1..n
      /\ \A i \in 1..n : Len(branches[i]) \in Nat
  BY DEF BranchesTyped
<1>2. PICK f : /\ f \in [0..n -> Nat]
               /\ f[0] = 0 /\ f[n] = StepsTaken
               /\ \A i \in 1..n : f[i] = f[i - 1] + Len(branches[i])
  BY StepsTakenTrace
<1> HIDE DEF n
<1>3. 0 \in 0..n /\ n \in 0..n /\ \A i \in 1..n : i \in 0..n /\ i - 1 \in 0..n
  BY <1>1
<1>4. f[n] =< n * h
  <2> DEFINE S == {i \in 0..n : f[i] =< i * h}
  <2>1. 0 \in S
    BY <1>1, <1>2, <1>3
  <2>2. ASSUME NEW i \in 1..n, i - 1 \in S PROVE i \in S
    <3>1. f[i] = f[i - 1] + Len(branches[i]) /\ f[i - 1] \in Nat /\ f[i - 1] =< (i - 1) * h
      BY <1>2, <1>3, <2>2
    <3>2. Len(branches[i]) \in Nat /\ Len(branches[i]) =< h
      BY <1>1
    <3>3. (i - 1) * h + h = i * h /\ i * h \in Int /\ (i - 1) * h \in Int
      BY <1>1
    <3>4. f[i] =< i * h
      BY <3>1, <3>2, <3>3
    <3> QED
      BY <1>3, <3>4
  <2> HIDE DEF S
  <2>3. 0..n \subseteq S
    BY <1>1, <2>1, <2>2, IntervalInduct
  <2> QED
    BY <1>3, <2>3 DEF S
<1>5. ASSUME NEW b \in 1..n PROVE Len(branches[b]) =< f[n]
  <2> DEFINE S == {i \in 0..n : i >= b => f[i] >= Len(branches[b])}
  <2>1. 0 \in S
    BY <1>1, <1>3
  <2>2. ASSUME NEW i \in 1..n, i - 1 \in S PROVE i \in S
    <3>1. f[i] = f[i - 1] + Len(branches[i]) /\ f[i - 1] \in Nat /\ Len(branches[i]) \in Nat
      BY <1>1, <1>2, <1>3
    <3>2. Len(branches[b]) \in Nat
      BY <1>1
    <3>3. CASE i = b
      BY <1>3, <3>1, <3>2, <3>3
    <3>4. CASE i # b
      <4>1. i >= b => f[i - 1] >= Len(branches[b])
        BY <1>1, <2>2, <3>4
      <4>2. i >= b => f[i] >= Len(branches[b])
        BY <3>1, <3>2, <4>1
      <4> QED
        BY <1>3, <4>2
    <3> QED
      BY <3>3, <3>4
  <2> HIDE DEF S
  <2>3. 0..n \subseteq S
    BY <1>1, <2>1, <2>2, IntervalInduct
  <2>4. n \in S /\ n >= b
    BY <1>1, <1>3, <2>3
  <2> QED
    BY <2>4, <1>1, <1>2, <1>3 DEF S
<1>6. f[n] \in Nat
  BY <1>2, <1>3
<1> QED
  BY <1>1, <1>2, <1>4, <1>5, <1>6 DEF n

\* The trajectory of a branch.
BranchTrajectory(prefix, b) == [id |-> <<EpisodeOf[run], cycle, b>>, steps |-> prefix \o branches[b]]

WithTrajectory(built, prefix, b) ==
  IF branches[b] = << >> THEN built ELSE Append(built, BranchTrajectory(prefix, b))

\* The trajectory of a branch that took a step is one.
LEMMA BranchTrajectoryTyped ==
  ASSUME BranchesTyped, NEW prefix \in Seq(StepRecords), NEW b \in DOMAIN branches,
         branches[b] # << >>, run \in 1..MaxRuns, cycle \in 1..MaxCycles,
         Len(branches) =< BranchesPerRoot
  PROVE  BranchTrajectory(prefix, b) \in Trajectories
<1>1. branches[b] \in Seq(StepRecords) /\ b \in 1..Len(branches) /\ Len(branches) \in Nat
  BY DEF BranchesTyped
<1>2. prefix \o branches[b] \in Seq(StepRecords)
  BY <1>1
<1>3. prefix \o branches[b] # << >>
  <2>1. Len(branches[b]) \in Nat /\ Len(branches[b]) # 0
    BY <1>1
  <2>2. Len(prefix \o branches[b]) = Len(prefix) + Len(branches[b]) /\ Len(prefix) \in Nat
    BY <1>1
  <2>3. Len(<< >>) = 0
    OBVIOUS
  <2> QED
    BY <2>1, <2>2, <2>3
<1>4. prefix \o branches[b] \in Paths
  BY <1>2, <1>3 DEF Paths
<1>5. <<EpisodeOf[run], cycle, b>> \in TrajectoryIds
  <2>1. b \in 1..BranchesPerRoot
    BY <1>1, EpisodeAssumption DEF EpisodeAssumption
  <2>2. EpisodeOf[run] \in EpisodeIds
    BY EpisodeAssumption DEF EpisodeAssumption
  <2> QED
    BY <2>1, <2>2 DEF TrajectoryIds
<1> QED
  BY <1>4, <1>5 DEF BranchTrajectory, Trajectories

\* The trajectories of a cycle, built branch by branch.
LEMMA BranchTrajectoriesTrace ==
  ASSUME BranchesTyped, NEW prefix \in Seq(StepRecords), prefix = PrefixSteps(archive[selected]),
         run \in 1..MaxRuns, cycle \in 1..MaxCycles, Len(branches) =< BranchesPerRoot
  PROVE  \E f \in [0..Len(branches) -> Batches] :
           /\ f[0] = << >> /\ f[Len(branches)] = BranchTrajectories
           /\ \A i \in 1..Len(branches) : f[i] = WithTrajectory(f[i - 1], prefix, i)
<1> DEFINE s == [i \in DOMAIN branches |-> i]
           n == Len(branches)
           step == [i \in 1..n |-> [v \in Batches |-> WithTrajectory(v, prefix, s[i])]]
           Body(g) == [S \in SUBSET (DOMAIN s) |->
                         IF S = {} THEN << >> ELSE WithTrajectory(g[S \ {Max(S)}], prefix, s[Max(S)])]
           iter == CHOOSE g : g = Body(g)
<1>1. n \in Nat /\ DOMAIN branches = 1..n /\ DOMAIN s = 1..n /\ \A i \in 1..n : s[i] = i
  BY DEF BranchesTyped
<1>2. step \in Steps(n, Batches)
  <2>1. ASSUME NEW i \in 1..n, NEW v \in Batches
        PROVE  WithTrajectory(v, prefix, i) \in Batches
    <3>1. CASE branches[i] = << >>
      BY <3>1 DEF WithTrajectory
    <3>2. CASE branches[i] # << >>
      <4>1. BranchTrajectory(prefix, i) \in Trajectories
        BY <1>1, <3>2, BranchTrajectoryTyped
      <4> QED
        BY <3>2, <4>1 DEF WithTrajectory, Batches
    <3> QED
      BY <3>1, <3>2
  <2> HIDE DEF n, s
  <2> QED
    BY <1>1, <2>1 DEF Steps
<1>3. BranchTrajectories = iter[1..n]
  BY <1>1 DEF BranchTrajectories, WithTrajectory, BranchTrajectory, s, FoldLeftDomain, FoldLeft, MapThenFoldSet
<1>4. << >> \in Batches
  BY DEF Batches
<1>5. \E g : g = Body(g)
  <2>1. PICK g : Solves(g, n, Batches, << >>, step)
    <3> HIDE DEF step, n
    <3> QED
      BY <1>1, <1>2, <1>4, FoldExists
  <2>2. ASSUME NEW S \in SUBSET (1..n), S # {}
        PROVE  /\ Max(S) \in 1..n
               /\ step[Max(S)][g[S \ {Max(S)}]] = WithTrajectory(g[S \ {Max(S)}], prefix, s[Max(S)])
    <3>1. Max(S) \in 1..n
      BY <1>1, <2>2, MaxOfIndices
    <3>2. g[S \ {Max(S)}] \in Batches
      <4> HIDE DEF step
      <4> QED
        BY <2>1 DEF Solves
    <3> QED
      BY <3>1, <3>2
  <2>3. g = Body(g)
    <3>1. DOMAIN s = 1..n
      BY <1>1
    <3> HIDE DEF step, n, s
    <3> QED
      BY <2>1, <2>2, <3>1 DEF Solves
  <2> QED
    BY <2>3
<1>6. iter = Body(iter)
  <2> HIDE DEF Body
  <2> QED
    BY <1>5
<1>7. SolvesWithin(iter, n, Batches, << >>, step)
  <2> HIDE DEF iter
  <2>1. iter[{}] = << >>
    BY <1>6
  <2>2. ASSUME NEW S \in SUBSET (1..n), S # {}, iter[S \ {Max(S)}] \in Batches
        PROVE  iter[S] = step[Max(S)][iter[S \ {Max(S)}]]
    <3>1. Max(S) \in 1..n
      BY <1>1, <2>2, MaxOfIndices
    <3> QED
      BY <1>1, <1>6, <2>2, <3>1
  <2> HIDE DEF step, n
  <2> QED
    BY <2>1, <2>2 DEF SolvesWithin
<1>8. PICK f : IsTrace(f, n, Batches, << >>, step) /\ f[n] = iter[1..n]
  <2> HIDE DEF iter, n, step, s
  <2> QED
    BY <1>1, <1>2, <1>4, <1>7, FoldTrace
<1>9. f \in [0..n -> Batches] /\ f[0] = << >> /\ \A i \in 1..n : f[i] = step[i][f[i - 1]]
  <2> HIDE DEF iter, n, step
  <2> QED
    BY <1>8 DEF IsTrace
<1>10. \A i \in 1..n : f[i] = WithTrajectory(f[i - 1], prefix, i)
  <2> HIDE DEF iter, s
  <2>1. ASSUME NEW i \in 1..n PROVE f[i - 1] \in Batches
    BY <1>1, <1>9
  <2> QED
    BY <1>1, <1>9, <2>1
<1> HIDE DEF iter, step, s
<1> QED
  BY <1>3, <1>8, <1>9, <1>10

-----------------------------------------------------------------------------
(* The frontier of the episode: what is proved of TrajectoryFrontier holds of it. *)

FP == INSTANCE TrajectoryFrontierProofs
  WITH Ids <- TrajectoryIds, Values <- Int, Bonuses <- {0},
       MaxSize <- FrontierSize, EnableTiebreak <- FALSE,
       MaxInsertions <- MaxCycles * BranchesPerRoot

\* The configuration is one of a trajectory frontier.
LEMMA FrontierAssumptions ==
  /\ Int \subseteq Int /\ {0} \subseteq Nat
  /\ FrontierSize \in Nat \ {0}
  /\ FALSE \in BOOLEAN
  /\ MaxCycles * BranchesPerRoot \in Nat
<1>1. FrontierSize \in Nat \ {0}
  BY EpisodeAssumption DEF EpisodeAssumption
<1>2. MaxCycles \in Nat /\ BranchesPerRoot \in Nat
  BY EpisodeAssumption DEF EpisodeAssumption
<1>3. MaxCycles * BranchesPerRoot \in Nat
  BY <1>2
<1> QED
  BY <1>1, <1>3

\* The frontier is in order, and the steps of every retained trajectory are kept.
FrontierInv ==
  /\ FP!IInv
  /\ paths = [id \in DOMAIN trajectories |-> paths[id]]
  /\ \A id \in DOMAIN trajectories :
       paths[id] \in Paths /\ trajectories[id] = TrajectoryValue(paths[id])

\* What the best retained trajectory is worth, or zero.
Top == Max({0} \cup {e.value : e \in entries})

\* What the invariant of the frontier says of its entries and trajectories.
LEMMA FrontierFacts ==
  ASSUME FP!IInv
  PROVE  /\ IsFiniteSet(entries)
         /\ \A e \in entries : e.value \in Int
         /\ DOMAIN trajectories = {e.id : e \in entries}
         /\ \A e \in entries : trajectories[e.id] = e.value
         /\ DOMAIN trajectories \subseteq TrajectoryIds
         /\ IsFiniteSet(DOMAIN trajectories)
<1>1. /\ entries \subseteq FP!Entry /\ IsFiniteSet(entries)
      /\ DOMAIN trajectories \subseteq TrajectoryIds
      /\ DOMAIN trajectories = FP!IdsOf(entries)
      /\ \A e \in entries : trajectories[e.id] = e.value
  BY DEF FP!IInv, FP!TypeOK, FP!TableMatchesEntries, IsFiniteSet, FP!IsFiniteSet
<1>2. \A e \in entries : e.value \in Int
  BY <1>1 DEF FP!Entry
<1>3. DOMAIN trajectories = {e.id : e \in entries}
  BY <1>1 DEF FP!IdsOf
<1>4. IsFiniteSet({e.id : e \in entries})
  <2> DEFINE f == [e \in entries |-> e.id]
  <2>1. f = [e \in entries |-> f[e]] /\ DOMAIN f = entries /\ {f[e] : e \in entries} = {e.id : e \in entries}
    OBVIOUS
  <2> HIDE DEF f
  <2>2. IsFiniteSet({f[e] : e \in entries})
    BY <1>1, <2>1, FiniteImage
  <2> QED
    BY <2>1, <2>2
<1> QED
  BY <1>1, <1>2, <1>3, <1>4

\* The best value is one.
LEMMA TopFacts ==
  ASSUME FP!IInv
  PROVE  /\ Top \in Nat
         /\ \A e \in entries : e.value =< Top
         /\ Top = 0 \/ \E e \in entries : e.value = Top
<1> DEFINE f == [e \in entries |-> e.value]
           V == {f[e] : e \in entries}
           S == {0} \cup V
<1>1. IsFiniteSet(entries) /\ \A e \in entries : e.value \in Int
  BY FrontierFacts
<1>2. f = [e \in entries |-> f[e]] /\ DOMAIN f = entries /\ V = {e.value : e \in entries}
  OBVIOUS
<1>3. IsFiniteSet(V)
  <2> HIDE DEF f
  <2> QED
    BY <1>1, <1>2, FiniteImage
<1>4. IsFiniteSet({0})
  BY FS_Singleton
<1>5. IsFiniteSet(S)
  <2> HIDE DEF V
  <2> QED
    BY <1>3, <1>4, FS_Union
<1>6. S \in SUBSET Int /\ S # {}
  BY <1>1, <1>2
<1>7. Max(S) \in S /\ Max(S) \in Int /\ \A x \in S : x =< Max(S)
  <2> HIDE DEF S
  <2> QED
    BY <1>5, <1>6, FiniteMax
<1>8. Top = Max(S)
  BY <1>2 DEF Top
<1>9. 0 \in S /\ \A e \in entries : e.value \in S
  BY <1>2
<1>10. \A x \in S : x = 0 \/ \E e \in entries : e.value = x
  BY <1>2
<1> HIDE DEF S
<1> QED
  BY <1>7, <1>8, <1>9, <1>10

\* No partial sum of a retained trajectory is above the best value.
LEMMA TopBoundsTheRetained ==
  ASSUME FrontierInv, NEW id \in DOMAIN paths
  PROVE  /\ paths[id] \in Paths /\ id \in TrajectoryIds
         /\ TrajectoryValue(paths[id]) =< Top
         /\ \A i \in 1..Len(paths[id]) :
              Cumulative(paths[id], i) \in Int /\ Cumulative(paths[id], i) =< Top
<1>1. /\ FP!IInv /\ id \in DOMAIN trajectories
      /\ paths[id] \in Paths /\ trajectories[id] = TrajectoryValue(paths[id])
  BY DEF FrontierInv
<1>2. PICK e \in entries : e.id = id /\ trajectories[id] = e.value
  BY <1>1, FrontierFacts
<1>3. e.value \in Int /\ e.value =< Top /\ Top \in Int
  BY <1>1, FrontierFacts, TopFacts
<1>4. id \in TrajectoryIds
  BY <1>1, FrontierFacts
<1>5. TrajectoryValue(paths[id]) = e.value
  BY <1>1, <1>2
<1>6. ASSUME NEW i \in 1..Len(paths[id])
      PROVE  Cumulative(paths[id], i) \in Int /\ Cumulative(paths[id], i) =< Top
  <2> DEFINE p == paths[id]
  <2>1. p \in Seq(StepRecords) /\ i \in 1..Len(p)
    BY <1>1 DEF Paths
  <2> HIDE DEF p
  <2>2. Cumulative(p, i) \in Int
    BY <2>1, CumulativeIsInt
  <2>3. p \in Paths /\ TrajectoryValue(p) = e.value
    BY <1>1, <1>5 DEF p
  <2>4. Cumulative(p, i) =< TrajectoryValue(p)
    BY <2>1, <2>3, ValueIsInt
  <2>5. Cumulative(p, i) =< Top
    BY <1>3, <2>2, <2>3, <2>4
  <2> QED
    BY <2>2, <2>5 DEF p
<1> QED
  BY <1>1, <1>3, <1>4, <1>5, <1>6

\* The step of the frontier.
LEMMA InsertIntoTheFrontier ==
  ASSUME FP!IInv, NEW id \in TrajectoryIds, NEW value \in Int, Frontier!InsertNew(id, value, 0)
  PROVE  /\ FP!IInv'
         /\ id \notin DOMAIN trajectories
         /\ DOMAIN trajectories' \subseteq DOMAIN trajectories \cup {id}
         /\ \A other \in DOMAIN trajectories' :
              trajectories'[other] = IF other = id THEN value ELSE trajectories[other]
         /\ \A x \in entries' : x \in entries \/ (x.id = id /\ x.value = value)
         /\ \E x \in entries' : x.value >= value
         /\ \A y \in entries : \E x \in entries' : x.value >= y.value
<1> USE FrontierAssumptions
<1>1. FP!InsertNew(id, value, 0)
  BY DEF FP!InsertNew, FP!Store, FP!IdsOf, FP!Clip, FP!Prune, FP!BestOf, FP!Outranks,
         FP!RetentionScore, FP!Cardinality, Frontier!InsertNew, Frontier!Store, Frontier!IdsOf,
         Frontier!Clip, Frontier!Prune, Frontier!BestOf, Frontier!Outranks,
         Frontier!RetentionScore, Frontier!Cardinality
<1>2. 0 \in {0}
  OBVIOUS
<1> HIDE DEF FP!IInv, FP!InsertNew
<1>3. FP!IInv'
  BY <1>1, <1>2, FP!InsertNewKeepsIInv
<1>4. /\ id \notin DOMAIN trajectories
      /\ DOMAIN trajectories' \subseteq DOMAIN trajectories \cup {id}
      /\ \A other \in DOMAIN trajectories' :
           trajectories'[other] = IF other = id THEN value ELSE trajectories[other]
      /\ \A x \in entries' : x \in entries \/ (x.id = id /\ x.value = value)
      /\ \E x \in entries' : FALSE \/ x.value >= value
      /\ \A y \in entries : \E x \in entries' : FALSE \/ x.value >= y.value
  BY <1>1, <1>2, FP!InsertNewKeepsTheTop
<1> QED
  BY <1>3, <1>4

-----------------------------------------------------------------------------
(* What changes the entries of the archive, and adds none. *)

\* The new entry is for the same state, restored in the same way, and its counters did
\* not shrink.
SameEntry(old, new) ==
  /\ new.prov = old.prov /\ new.timestep = old.timestep
  /\ new.replay = old.replay /\ new.native = old.native /\ new.observation = old.observation
  /\ new.selections >= old.selections /\ new.visits >= old.visits

Alters(a, b) ==
  /\ b \in Archives /\ DOMAIN b = DOMAIN a
  /\ \A s \in DOMAIN a : SameEntry(a[s], b[s])

\* An altered archive is a later one.
LEMMA AlteredIsLater ==
  ASSUME NEW a, NEW b, Alters(a, b)
  PROVE  Later(a, b)
BY DEF Alters, SameEntry, Later

\* How to alter an archive: entry by entry.
LEMMA AlteringEntries ==
  ASSUME NEW a \in Archives, NEW b, b = [s \in DOMAIN a |-> b[s]],
         \A s \in DOMAIN a : b[s] \in ArchivedStates /\ SameEntry(a[s], b[s])
  PROVE  Alters(a, b)
<1>1. DOMAIN a \in SUBSET StateIds /\ IsFiniteSet(DOMAIN a)
  BY ArchiveFacts
<1> DEFINE D == DOMAIN a
<1>2. D \in SUBSET StateIds /\ IsFiniteSet(D) /\ b = [s \in D |-> b[s]]
      /\ \A s \in D : b[s] \in ArchivedStates
  BY <1>1
<1> HIDE DEF D
<1>3. b \in Archives /\ DOMAIN b = D
  BY <1>2, IsAnArchive
<1> QED
  BY <1>3 DEF D, Alters

\* Altering twice.
LEMMA AlteredTwice ==
  ASSUME NEW a \in Archives, NEW b, NEW c, Alters(a, b), Alters(b, c)
  PROVE  Alters(a, c)
<1>1. ASSUME NEW s \in DOMAIN a PROVE SameEntry(a[s], c[s])
  <2>1. /\ a[s] \in ArchivedStates /\ b[s] \in ArchivedStates /\ c[s] \in ArchivedStates
    BY ArchiveFacts DEF Alters
  <2>2. /\ a[s].selections \in Nat /\ b[s].selections \in Nat /\ c[s].selections \in Nat
        /\ a[s].visits \in Nat /\ b[s].visits \in Nat /\ c[s].visits \in Nat
    BY <2>1 DEF ArchivedStates
  <2>3. SameEntry(a[s], b[s]) /\ SameEntry(b[s], c[s])
    BY DEF Alters
  <2> QED
    BY <2>2, <2>3 DEF SameEntry
<1> QED
  BY <1>1 DEF Alters

\* The new archive is one of the same states, with the same values.
SameValues(a, b) ==
  /\ DOMAIN b = DOMAIN a
  /\ \A s \in DOMAIN a : /\ b[s].achieved = a[s].achieved /\ b[s].projected = a[s].projected
                         /\ b[s].support = a[s].support

\* The result of a restore is noted.
LEMMA NoteRestoreAlters ==
  ASSUME NEW a \in Archives, NEW s \in DOMAIN a, NEW success, success \in BOOLEAN
  PROVE  /\ Alters(a, NoteRestore(a, s, success))
         /\ SameValues(a, NoteRestore(a, s, success))
<1> DEFINE b == NoteRestore(a, s, success)
           old == a[s]
           selections == old.selections + 1
           visits == IF success THEN old.visits + 1 ELSE old.visits
           failures == IF success THEN old.failures ELSE old.failures + 1
           new == [old EXCEPT !.selections = selections, !.visits = visits, !.failures = failures]
<1>1. /\ a = [t \in DOMAIN a |-> a[t]]
      /\ \A t \in DOMAIN a : /\ a[t] \in ArchivedStates
                             /\ a[t].selections \in Nat /\ a[t].visits \in Nat
  BY ArchiveFacts DEF ArchivedStates
<1>2. /\ old \in ArchivedStates /\ selections \in Nat /\ visits \in Nat /\ failures \in Nat
      /\ selections >= old.selections /\ visits >= old.visits
  <2>1. old \in ArchivedStates
    BY <1>1
  <2>2. old.selections \in Nat /\ old.visits \in Nat /\ old.failures \in Nat
    BY <2>1 DEF ArchivedStates
  <2> HIDE DEF old
  <2> QED
    BY <2>1, <2>2
<1>3. b = [t \in DOMAIN a |-> IF t = s THEN new ELSE a[t]]
  <2>1. old = [old EXCEPT !.selections = old.selections]
    <3> HIDE DEF old
    <3> QED
      BY <1>2 DEF ArchivedStates
  <2> QED
    BY <1>1, <1>2 DEF NoteRestore, ArchivedStates
<1> HIDE DEF b, selections, visits, failures
<1>4. /\ new \in ArchivedStates /\ SameEntry(old, new)
      /\ new.achieved = old.achieved /\ new.projected = old.projected /\ new.support = old.support
  <2> HIDE DEF old
  <2>1. new \in ArchivedStates
    BY <1>2 DEF ArchivedStates
  <2>2. /\ new.prov = old.prov /\ new.timestep = old.timestep
        /\ new.replay = old.replay /\ new.native = old.native
        /\ new.observation = old.observation
        /\ new.achieved = old.achieved /\ new.projected = old.projected
        /\ new.support = old.support
    BY <1>2 DEF ArchivedStates
  <2>3. new.selections = selections /\ new.visits = visits
    BY <1>2 DEF ArchivedStates
  <2> HIDE DEF new
  <2> QED
    BY <1>2, <2>1, <2>2, <2>3 DEF SameEntry
<1> HIDE DEF new
<1>5. \A t \in DOMAIN a : b[t] = IF t = s THEN new ELSE a[t]
  BY <1>3
<1>6. \A t \in DOMAIN a : b[t] \in ArchivedStates /\ SameEntry(a[t], b[t])
  BY <1>1, <1>4, <1>5 DEF SameEntry
<1>7. b = [t \in DOMAIN a |-> b[t]]
  BY <1>3
<1>8. Alters(a, b)
  BY <1>6, <1>7, AlteringEntries
<1>9. SameValues(a, b)
  BY <1>4, <1>5, <1>7 DEF SameValues
<1> QED
  BY <1>8, <1>9 DEF b

\* A revisit is judged.
LEMMA NoteRevisitAlters ==
  ASSUME NEW a \in Archives, NEW s \in DOMAIN a, NEW level \in Nat,
         NEW achieved, achieved \in BOOLEAN, NEW exploratory, exploratory \in BOOLEAN
  PROVE  /\ Alters(a, NoteRevisit(a, s, achieved, exploratory, level))
         /\ SameValues(a, NoteRevisit(a, s, achieved, exploratory, level))
<1> DEFINE b == NoteRevisit(a, s, achieved, exploratory, level)
           old == a[s]
           barren == IF achieved THEN 0 ELSE old.barren + 1
           fruitless == IF achieved \/ exploratory THEN 0 ELSE old.fruitless + 1
           new == [old EXCEPT !.barren = barren, !.fruitless = fruitless, !.saturation = level]
<1>1. /\ a = [t \in DOMAIN a |-> a[t]]
      /\ \A t \in DOMAIN a : /\ a[t] \in ArchivedStates
                             /\ a[t].selections \in Nat /\ a[t].visits \in Nat
  BY ArchiveFacts DEF ArchivedStates
<1>2. old \in ArchivedStates /\ barren \in Nat /\ fruitless \in Nat
  <2>1. old \in ArchivedStates
    BY <1>1
  <2>2. old.barren \in Nat /\ old.fruitless \in Nat
    BY <2>1 DEF ArchivedStates
  <2> HIDE DEF old
  <2> QED
    BY <2>1, <2>2
<1>3. b = [t \in DOMAIN a |-> IF t = s THEN new ELSE a[t]]
  BY <1>1, <1>2 DEF NoteRevisit, ArchivedStates
<1> HIDE DEF b, barren, fruitless
<1>4. /\ new \in ArchivedStates /\ SameEntry(old, new)
      /\ new.achieved = old.achieved /\ new.projected = old.projected /\ new.support = old.support
  <2>1. old.selections \in Nat /\ old.visits \in Nat
    BY <1>1
  <2> HIDE DEF old
  <2>2. new \in ArchivedStates
    BY <1>2 DEF ArchivedStates
  <2>3. /\ new.prov = old.prov /\ new.timestep = old.timestep
        /\ new.replay = old.replay /\ new.native = old.native
        /\ new.observation = old.observation
        /\ new.selections = old.selections /\ new.visits = old.visits
        /\ new.achieved = old.achieved /\ new.projected = old.projected
        /\ new.support = old.support
    BY <1>2 DEF ArchivedStates
  <2> HIDE DEF new
  <2> QED
    BY <2>1, <2>2, <2>3 DEF SameEntry
<1> HIDE DEF new
<1>5. \A t \in DOMAIN a : b[t] = IF t = s THEN new ELSE a[t]
  BY <1>3
<1>6. \A t \in DOMAIN a : b[t] \in ArchivedStates /\ SameEntry(a[t], b[t])
  BY <1>1, <1>4, <1>5 DEF SameEntry
<1>7. b = [t \in DOMAIN a |-> b[t]]
  BY <1>3
<1>8. Alters(a, b)
  BY <1>6, <1>7, AlteringEntries
<1>9. SameValues(a, b)
  BY <1>4, <1>5, <1>7 DEF SameValues
<1> QED
  BY <1>8, <1>9 DEF b

\* The retained trajectories are trajectories.
LEMMA RetainedAreTrajectories ==
  ASSUME FrontierInv
  PROVE  /\ RetainedTrajectories \subseteq Trajectories
         /\ DOMAIN paths = DOMAIN trajectories
         /\ \A t \in RetainedTrajectories : t.id \in DOMAIN paths /\ t.steps = paths[t.id]
<1>1. \A id \in DOMAIN paths : paths[id] \in Paths /\ id \in TrajectoryIds
  BY TopBoundsTheRetained
<1>2. DOMAIN paths = DOMAIN trajectories
  BY DEF FrontierInv
<1> QED
  BY <1>1, <1>2 DEF RetainedTrajectories, Trajectories

\* The archive as the frontier supports it.
Supported(a, b) ==
  /\ Alters(a, b)
  /\ \A s \in DOMAIN a :
       /\ b[s].achieved \in 0..Top
       /\ b[s].support \subseteq DOMAIN paths
       /\ \A id \in DOMAIN paths, i \in Nat \ {0} :
            /\ i =< Len(paths[id])
            /\ StateId[paths[id][i].world] = s
            => id \in b[s].support /\ b[s].achieved >= Cumulative(paths[id], i)

\* The refresh leaves what the frontier supports, and nothing above its best value.
LEMMA RefreshFacts ==
  ASSUME FrontierInv, NEW a \in Archives
  PROVE  Supported(a, Refresh(a, RetainedTrajectories))
<1> DEFINE b == Refresh(a, RetainedTrajectories)
           through(s) == {t \in RetainedTrajectories : Visits(t, s) # {}}
           sums(s) == UNION {{Cumulative(t.steps, i) : i \in Visits(t, s)} : t \in through(s)}
           S(s) == {0} \cup sums(s)
           support(s) == {t.id : t \in through(s)}
           entry(s) == [a[s] EXCEPT !.achieved = Max(S(s)), !.support = support(s)]
<1>1. b = [s \in DOMAIN a |-> entry(s)]
  BY DEF Refresh
<1>2. Top \in Nat /\ DOMAIN paths = DOMAIN trajectories
  BY TopFacts DEF FrontierInv
<1>3. \A t \in RetainedTrajectories : /\ t.id \in DOMAIN paths /\ t.steps = paths[t.id]
                                      /\ t.id \in TrajectoryIds
  BY RetainedAreTrajectories, TopBoundsTheRetained
<1>4. ASSUME NEW s \in DOMAIN a
      PROVE  /\ S(s) \in SUBSET Int /\ S(s) # {} /\ \A x \in S(s) : x =< Top
             /\ 0 \in S(s)
  <2>1. ASSUME NEW t \in RetainedTrajectories, NEW i \in Visits(t, s)
        PROVE  Cumulative(t.steps, i) \in Int /\ Cumulative(t.steps, i) =< Top
    <3>1. t.id \in DOMAIN paths /\ t.steps = paths[t.id] /\ i \in 1..Len(paths[t.id])
      BY <1>3 DEF Visits
    <3> QED
      BY <3>1, TopBoundsTheRetained
  <2> QED
    BY <1>2, <2>1
<1>5. ASSUME NEW s \in DOMAIN a
      PROVE  /\ Max(S(s)) \in 0..Top
             /\ \A x \in S(s) : x =< Max(S(s))
  <2> HIDE DEF S
  <2>1. S(s) \in SUBSET Int /\ S(s) # {} /\ \A x \in S(s) : x =< Top
    BY <1>4
  <2>2. Top \in Int
    BY <1>2
  <2> DEFINE R == S(s)
  <2>3. R \in SUBSET Int /\ R # {} /\ \A x \in R : x =< Top
    BY <2>1
  <2> HIDE DEF R
  <2>4. Max(R) \in R /\ Max(R) \in Int /\ \A x \in R : x =< Max(R)
    BY <2>2, <2>3, BoundedMax
  <2>5. 0 \in R
    BY <1>4 DEF R
  <2>6. Max(R) =< Top /\ 0 =< Max(R)
    BY <2>3, <2>4, <2>5
  <2> QED
    BY <1>2, <2>4, <2>6 DEF R
<1>6. ASSUME NEW s \in DOMAIN a
      PROVE  support(s) \in SUBSET TrajectoryIds /\ support(s) \subseteq DOMAIN paths
  BY <1>3
<1>7. ASSUME NEW s \in DOMAIN a, NEW id \in DOMAIN paths, NEW i \in Nat \ {0},
             i =< Len(paths[id]), StateId[paths[id][i].world] = s
      PROVE  id \in support(s) /\ Cumulative(paths[id], i) \in S(s)
  <2> DEFINE t == [id |-> id, steps |-> paths[id]]
  <2>1. t \in RetainedTrajectories /\ t.id = id /\ t.steps = paths[id]
    BY DEF RetainedTrajectories
  <2> HIDE DEF t
  <2>2. i \in Visits(t, s)
    <3>1. paths[id] \in Paths
      BY TopBoundsTheRetained
    <3>2. Len(paths[id]) \in Nat
      BY <3>1 DEF Paths
    <3> QED
      BY <1>7, <2>1, <3>2 DEF Visits
  <2>3. t \in through(s)
    BY <2>1, <2>2
  <2> QED
    BY <2>1, <2>2, <2>3
<1> DEFINE highest(s) == Max(S(s))
<1> HIDE DEF S, support
<1>8. ASSUME NEW s \in DOMAIN a
      PROVE  /\ b[s] \in ArchivedStates /\ SameEntry(a[s], b[s])
             /\ b[s].achieved = highest(s) /\ b[s].support = support(s)
  <2>1. b[s] = [a[s] EXCEPT !.achieved = highest(s), !.support = support(s)]
    BY <1>1
  <2>2. a[s] \in ArchivedStates
    BY ArchiveFacts
  <2>3. highest(s) \in Int /\ support(s) \in SUBSET TrajectoryIds
    BY <1>2, <1>5, <1>6
  <2>4. a[s].selections \in Nat /\ a[s].visits \in Nat
    BY <2>2 DEF ArchivedStates
  <2> DEFINE old == a[s]
             new == [old EXCEPT !.achieved = highest(s), !.support = support(s)]
  <2> HIDE DEF highest, b, old
  <2>5. old \in ArchivedStates /\ b[s] = new
    BY <2>1, <2>2 DEF old
  <2>6. new \in ArchivedStates
    BY <2>3, <2>5 DEF ArchivedStates
  <2>7. /\ new.prov = old.prov /\ new.timestep = old.timestep
        /\ new.replay = old.replay /\ new.native = old.native
        /\ new.observation = old.observation
        /\ new.selections = old.selections /\ new.visits = old.visits
        /\ new.achieved = highest(s) /\ new.support = support(s)
    BY <2>3, <2>5 DEF ArchivedStates
  <2> HIDE DEF new
  <2> QED
    BY <2>4, <2>5, <2>6, <2>7 DEF SameEntry, old
<1>9. b = [s \in DOMAIN a |-> b[s]]
  BY <1>1
<1> HIDE DEF b, highest
<1>10. Alters(a, b)
  BY <1>8, <1>9, AlteringEntries
<1>11. ASSUME NEW s \in DOMAIN a
       PROVE  /\ b[s].achieved \in 0..Top /\ b[s].support \subseteq DOMAIN paths
              /\ \A x \in S(s) : x =< b[s].achieved
  BY <1>5, <1>6, <1>8 DEF highest
<1>12. ASSUME NEW s \in DOMAIN a, NEW id \in DOMAIN paths, NEW i \in Nat \ {0},
              i =< Len(paths[id]), StateId[paths[id][i].world] = s
       PROVE  id \in b[s].support /\ b[s].achieved >= Cumulative(paths[id], i)
  <2>1. id \in support(s) /\ Cumulative(paths[id], i) \in S(s)
    BY <1>7, <1>12
  <2>2. Cumulative(paths[id], i) \in Int /\ b[s].achieved \in Int
    BY <1>4, <1>11, <2>1, <1>2
  <2>3. Cumulative(paths[id], i) =< b[s].achieved
    BY <1>11, <2>1
  <2> QED
    BY <1>8, <2>1, <2>2, <2>3
<1> QED
  BY <1>10, <1>11, <1>12 DEF Supported, b

-----------------------------------------------------------------------------
(* The analysis and its projection. *)

\* An insight is a finite set of annotations with integers for potentials.
InsightTyped(named) == IsFiniteSet(named) /\ \A note \in named : note.potential \in Int

\* No annotation promises more than the bound.
Within(named, bound) == \A note \in named : note.potential =< bound

\* What a state is promised is finite.
LEMMA PromisedFacts ==
  ASSUME NEW named, InsightTyped(named), NEW s
  PROVE  /\ IsFiniteSet(Promised(named, s)) /\ Promised(named, s) \subseteq Int
         /\ \A bound : Within(named, bound) => \A x \in Promised(named, s) : x =< bound
<1> DEFINE N == {n \in named : s = n.critical \/ s \in n.supporting}
           f == [n \in N |-> n.potential]
<1>1. IsFiniteSet(N)
  BY FS_Subset DEF InsightTyped
<1>2. DOMAIN f = N /\ f = [n \in N |-> f[n]] /\ Promised(named, s) = {f[n] : n \in N}
  BY DEF Promised
<1>3. \A n \in N : n \in named /\ f[n] = n.potential
  OBVIOUS
<1> HIDE DEF f, N
<1>4. IsFiniteSet({f[n] : n \in N})
  BY <1>1, <1>2, FiniteImage
<1> QED
  BY <1>2, <1>3, <1>4 DEF InsightTyped, Within

\* A property of what an archived state was granted: nothing, or at least what it
\* achieved.
IsBounded(st) == st.projected # NoValue => st.projected >= st.achieved

\* The projection grants every entry nothing or at least what it achieved, and not
\* more than the annotations promise.
LEMMA ProjectFacts ==
  ASSUME NEW a \in Archives, NEW named, InsightTyped(named)
  PROVE  /\ Alters(a, Project(a, named))
         /\ \A s \in DOMAIN a :
              LET new == Project(a, named)[s]
              IN  /\ IsBounded(new)
                  /\ new.achieved = a[s].achieved /\ new.support = a[s].support
                  /\ \A bound \in Int : Within(named, bound) /\ a[s].achieved =< bound
                                          => new.projected = NoValue \/ new.projected =< bound
<1> DEFINE b == Project(a, named)
           potential(s) == IF Promised(named, s) = {} THEN NoValue
                           ELSE Max(Promised(named, s) \cup {a[s].achieved})
<1>1. b = [s \in DOMAIN a |-> [a[s] EXCEPT !.projected = potential(s)]]
  BY DEF Project
<1>2. \A s \in DOMAIN a : /\ a[s] \in ArchivedStates /\ a[s].achieved \in Int
                          /\ a[s].selections \in Nat /\ a[s].visits \in Nat
  BY ArchiveFacts DEF ArchivedStates
<1>3. ASSUME NEW s \in DOMAIN a
      PROVE  /\ potential(s) \in Int \cup {NoValue}
             /\ potential(s) # NoValue => potential(s) >= a[s].achieved
             /\ \A bound \in Int : Within(named, bound) /\ a[s].achieved =< bound
                                     => potential(s) = NoValue \/ potential(s) =< bound
  <2> DEFINE P == Promised(named, s)
             achieved == a[s].achieved
             S == P \cup {achieved}
  <2>1. achieved \in Int
    BY <1>2
  <2>2. /\ IsFiniteSet(P) /\ P \subseteq Int
        /\ \A bound : Within(named, bound) => \A x \in P : x =< bound
    BY PromisedFacts
  <2> HIDE DEF achieved, P
  <2>3. IsFiniteSet(S)
    BY <2>2, FS_AddElement
  <2>4. S \in SUBSET Int /\ S # {} /\ achieved \in S
    BY <2>1, <2>2
  <2>5. ASSUME NEW bound \in Int, Within(named, bound), achieved =< bound
        PROVE  \A x \in S : x =< bound
    BY <2>2, <2>5
  <2> HIDE DEF S
  <2>6. Max(S) \in S /\ Max(S) \in Int /\ \A x \in S : x =< Max(S)
    BY <2>3, <2>4, FiniteMax
  <2>7. potential(s) = IF P = {} THEN NoValue ELSE Max(S)
    BY DEF S, P, achieved
  <2>8. Max(S) >= achieved
    BY <2>1, <2>4, <2>6
  <2>9. ASSUME NEW bound \in Int, Within(named, bound), achieved =< bound
        PROVE  Max(S) =< bound
    BY <2>5, <2>6, <2>9
  <2> HIDE DEF potential
  <2> QED
    BY <2>6, <2>7, <2>8, <2>9 DEF achieved
<1> HIDE DEF potential
<1>4. ASSUME NEW s \in DOMAIN a
      PROVE  /\ b[s] \in ArchivedStates /\ SameEntry(a[s], b[s])
             /\ b[s].achieved = a[s].achieved /\ b[s].support = a[s].support
             /\ b[s].projected = potential(s)
  <2>1. b[s] = [a[s] EXCEPT !.projected = potential(s)]
    BY <1>1
  <2>2. a[s] \in ArchivedStates /\ potential(s) \in Int \cup {NoValue}
    BY <1>2, <1>3
  <2> DEFINE old == a[s]
             new == [old EXCEPT !.projected = potential(s)]
  <2> HIDE DEF b, old
  <2>3. old \in ArchivedStates /\ b[s] = new
    BY <2>1, <2>2 DEF old
  <2>4. new \in ArchivedStates
    BY <2>2, <2>3 DEF ArchivedStates
  <2>5. /\ new.prov = old.prov /\ new.timestep = old.timestep
        /\ new.replay = old.replay /\ new.native = old.native
        /\ new.observation = old.observation
        /\ new.selections = old.selections /\ new.visits = old.visits
        /\ new.achieved = old.achieved /\ new.support = old.support
        /\ new.projected = potential(s)
    BY <2>2, <2>3 DEF ArchivedStates
  <2> HIDE DEF new
  <2> QED
    BY <1>2, <2>3, <2>4, <2>5 DEF SameEntry, old
<1>5. b = [s \in DOMAIN a |-> b[s]]
  BY <1>1
<1> HIDE DEF b
<1>6. Alters(a, b)
  BY <1>4, <1>5, AlteringEntries
<1>7. ASSUME NEW s \in DOMAIN a
      PROVE  /\ IsBounded(b[s])
             /\ \A bound \in Int : Within(named, bound) /\ a[s].achieved =< bound
                                     => b[s].projected = NoValue \/ b[s].projected =< bound
  BY <1>3, <1>4 DEF IsBounded
<1> QED
  BY <1>4, <1>6, <1>7 DEF b

\* What an analysis names is an insight; without a language model it promises nothing
\* that no retained trajectory reached.
LEMMA InsightsTyped ==
  ASSUME FrontierInv, NEW a \in Archives, NEW named \in Insights(a, RetainedTrajectories, Rank)
  PROVE  /\ InsightTyped(named)
         /\ AnalysisAnswers = {} /\ (\A s \in DOMAIN a : a[s].achieved =< Top) => Within(named, Top)
<1>1. CASE named \in FallbackInsights(a, RetainedTrajectories, Rank)
  <2>0. PICK D \in UNION {Named(a, RetainedTrajectories, listed) : listed \in Listed(a)} :
               named = {FallbackNote(a, RetainedTrajectories, Rank, s) : s \in D}
    BY <1>1 DEF FallbackInsights
  <2> DEFINE S(s) == {a[s].achieved} \cup ReachedAfter(RetainedTrajectories, s)
             note(s) == [critical |-> s, supporting |-> {s},
                         sources |-> Cited(RetainedTrajectories, Rank, s),
                         potential |-> Max(S(s))]
             f == [s \in D |-> note(s)]
  <2>1. named = {f[s] : s \in D} /\ DOMAIN f = D /\ f = [s \in D |-> f[s]]
    BY <2>0 DEF FallbackNote, PotentialOf
  <2>2. IsFiniteSet(D) /\ \A s \in D : s \in DOMAIN a
    <3>1. PICK listed \in Listed(a) : D \in Named(a, RetainedTrajectories, listed)
      BY <2>0
    <3>2. \A s \in listed : s \in DOMAIN a
      BY DEF Listed, FirstOnes
    <3>3. \A s \in D : s \in listed
      BY <3>1 DEF Named, FirstOnes
    <3>4. D \subseteq DOMAIN a
      BY <3>2, <3>3
    <3> QED
      BY <3>4, ArchiveFacts, FS_Subset
  <2>3. ASSUME NEW s \in DOMAIN a
        PROVE  /\ Max(S(s)) \in Int
               /\ a[s].achieved =< Top => Max(S(s)) =< Top
    <3> DEFINE R == S(s)
               achieved == a[s].achieved
               bound == IF achieved =< Top THEN Top ELSE achieved
    <3>1. achieved \in Int
      BY ArchiveFacts DEF ArchivedStates
    <3>2. Top \in Int
      BY TopFacts DEF FrontierInv
    <3>3. \A x \in ReachedAfter(RetainedTrajectories, s) : x \in Int /\ x =< Top
      <4> SUFFICES ASSUME NEW t \in Through(RetainedTrajectories, s)
                   PROVE  TrajectoryValue(t.steps) \in Int /\ TrajectoryValue(t.steps) =< Top
        BY DEF ReachedAfter
      <4>1. t.id \in DOMAIN paths /\ t.steps = paths[t.id]
        BY RetainedAreTrajectories DEF Through
      <4>2. paths[t.id] \in Paths /\ TrajectoryValue(paths[t.id]) =< Top
        BY <4>1, TopBoundsTheRetained
      <4> QED
        BY <4>1, <4>2, ValueIsInt
    <3> HIDE DEF achieved
    <3>4. bound \in Int /\ achieved =< bound /\ Top =< bound /\ (achieved =< Top => bound = Top)
      BY <3>1, <3>2
    <3> HIDE DEF bound
    <3>5. R = {achieved} \cup ReachedAfter(RetainedTrajectories, s)
      BY DEF achieved
    <3>6. R \in SUBSET Int /\ R # {} /\ \A x \in R : x =< bound
      <4> HIDE DEF R
      <4> QED
        BY <3>1, <3>2, <3>3, <3>4, <3>5
    <3> HIDE DEF R
    <3>7. Max(R) \in R /\ Max(R) \in Int
      BY <3>4, <3>6, BoundedMax
    <3>8. Max(R) =< bound
      BY <3>6, <3>7
    <3> QED
      BY <3>4, <3>7, <3>8 DEF R, achieved
  <2>4. \A s \in D : f[s].potential = Max(S(s))
    <3> HIDE DEF S
    <3> QED
      OBVIOUS
  <2> HIDE DEF S, f
  <2>5. IsFiniteSet(named)
    BY <2>1, <2>2, FiniteImage
  <2>6. \A n \in named : \E s \in DOMAIN a : n.potential = Max(S(s))
    BY <2>1, <2>2, <2>4
  <2> QED
    BY <2>3, <2>5, <2>6 DEF InsightTyped, Within
<1>2. CASE \E answer \in AnalysisAnswers :
             named = {Annotation(block, a, RetainedTrajectories) : block \in answer}
  <2>1. PICK answer \in AnalysisAnswers :
               named = {Annotation(block, a, RetainedTrajectories) : block \in answer}
    BY <1>2
  <2>2. /\ IsFiniteSet(answer)
        /\ \A block \in answer : block.achieved \in Int /\ block.potential \in Int
    BY AnswersAssumption DEF AnswersAssumption
  <2> DEFINE f == [block \in answer |-> Annotation(block, a, RetainedTrajectories)]
  <2>3. named = {f[block] : block \in answer} /\ DOMAIN f = answer
        /\ f = [block \in answer |-> f[block]]
    BY <2>1
  <2>4. \A block \in answer : f[block].potential \in Int
    <3> SUFFICES ASSUME NEW block \in answer PROVE f[block].potential \in Int
      OBVIOUS
    <3>1. f[block].potential = Max({block.potential, block.achieved})
      BY DEF Annotation
    <3> DEFINE x == block.potential
               y == block.achieved
    <3>2. x \in Int /\ y \in Int
      BY <2>2
    <3> HIDE DEF x, y, f
    <3>3. IsFiniteSet({x, y}) /\ {x, y} \in SUBSET Int /\ {x, y} # {}
      <4>1. IsFiniteSet({x}) /\ {x, y} = {x} \cup {y}
        BY FS_Singleton
      <4> QED
        BY <3>2, <4>1, FS_AddElement
    <3>4. Max({x, y}) \in Int
      <4> DEFINE R == {x, y}
      <4>1. IsFiniteSet(R) /\ R \in SUBSET Int /\ R # {}
        BY <3>3
      <4> HIDE DEF R
      <4>2. Max(R) \in Int
        BY <4>1, FiniteMax
      <4> QED
        BY <4>2 DEF R
    <3> QED
      BY <3>1, <3>4 DEF x, y
  <2> HIDE DEF f
  <2>5. IsFiniteSet(named)
    BY <2>2, <2>3, FiniteImage
  <2> QED
    BY <2>3, <2>4, <2>5 DEF InsightTyped
<1> QED
  BY <1>1, <1>2 DEF Insights

-----------------------------------------------------------------------------
(* The snapshot. *)

\* A part of an archive is an archive.
LEMMA PartOfAnArchive ==
  ASSUME NEW a \in Archives, NEW D \in SUBSET DOMAIN a
  PROVE  /\ Restrict(a, D) \in Archives /\ DOMAIN Restrict(a, D) = D
         /\ \A s \in D : Restrict(a, D)[s] = a[s]
<1> DEFINE b == Restrict(a, D)
<1>1. b = [s \in D |-> a[s]]
  BY DEF Restrict
<1>2. D \in SUBSET StateIds /\ IsFiniteSet(D) /\ \A s \in D : a[s] \in ArchivedStates
  BY ArchiveFacts, FS_Subset
<1> HIDE DEF b
<1>3. b = [s \in D |-> b[s]] /\ \A s \in D : b[s] = a[s]
  BY <1>1
<1>4. b \in Archives /\ DOMAIN b = D
  BY <1>2, <1>3, IsAnArchive
<1> QED
  BY <1>3, <1>4 DEF b

\* An archived state loses its native snapshot on the way to the disk, and nothing else.
Written(old, new) ==
  /\ new.prov = old.prov /\ new.timestep = old.timestep /\ new.replay = old.replay
  /\ new.native = NoNative /\ new.observation = old.observation
  /\ new.achieved = old.achieved /\ new.projected = old.projected
  /\ new.selections = old.selections /\ new.visits = old.visits

\* What is on disk of an archive.
LEMMA OnDiskFacts ==
  ASSUME NEW a \in Archives
  PROVE  /\ OnDisk(a) \in Archives /\ DOMAIN OnDisk(a) = DOMAIN a
         /\ \A s \in DOMAIN a : Written(a[s], OnDisk(a)[s])
<1> DEFINE b == OnDisk(a)
<1>1. b = [s \in DOMAIN a |-> [a[s] EXCEPT !.native = NoNative]]
  BY DEF OnDisk
<1>2. ASSUME NEW s \in DOMAIN a PROVE b[s] \in ArchivedStates /\ Written(a[s], b[s])
  <2> DEFINE old == a[s]
             new == [old EXCEPT !.native = NoNative]
  <2>1. old \in ArchivedStates /\ b[s] = new
    BY <1>1, ArchiveFacts
  <2> HIDE DEF old, b
  <2>2. new \in ArchivedStates
    BY <2>1 DEF ArchivedStates
  <2>3. Written(old, new)
    BY <2>1 DEF ArchivedStates, Written
  <2> HIDE DEF new
  <2> QED
    BY <2>1, <2>2, <2>3 DEF old
<1>3. b = [s \in DOMAIN a |-> b[s]] /\ DOMAIN a \in SUBSET StateIds /\ IsFiniteSet(DOMAIN a)
  BY <1>1, ArchiveFacts
<1> DEFINE D == DOMAIN a
<1>4. b = [s \in D |-> b[s]] /\ D \in SUBSET StateIds /\ IsFiniteSet(D)
      /\ \A s \in D : b[s] \in ArchivedStates
  BY <1>2, <1>3
<1> HIDE DEF b, D
<1>5. b \in Archives /\ DOMAIN b = D
  BY <1>4, IsAnArchive
<1> QED
  BY <1>2, <1>5 DEF b, D

-----------------------------------------------------------------------------
(* The invariant of the loop. *)

Bounded == {x \in StateIds \X ArchivedStates : IsBounded(x[2])}

ControlInv ==
  /\ phase \in {"idle", "write", "select", "explore", "insert", "update", "close"}
  /\ run \in 0..MaxRuns /\ (phase # "idle" => run # 0)
  /\ cycle \in 0..MaxCycles /\ (phase \in {"explore", "insert", "update"} => cycle # 0)
  /\ env \in Wrappers(GameTexts) /\ base \in Nodes(GameTexts)
  /\ phase = "explore" => selected \in DOMAIN archive

ArchiveInv ==
  /\ archive \in Archives /\ disk.states \in Archives
  /\ Holds(archive, Bounded) /\ Holds(disk.states, Bounded)
  /\ phase # "idle" => Later(disk.states, archive)
  /\ ~torn => written \subseteq DOMAIN disk.states
  /\ InsightTyped(insight)

BranchInv ==
  /\ BranchesTyped /\ Len(branches) =< BranchesPerRoot
  /\ batch \in Batches /\ Len(batch) =< Len(branches)
  /\ inserted \in 0..Len(batch)
  /\ phase = "insert" => inserted < Len(batch)
  /\ phase \in {"idle", "select"} => branches = << >>
  /\ phase \in {"idle", "select", "explore"} => batch = << >>

\* The best trajectory is worth as much as the best retained one.
BestInv ==
  /\ best = NoBest => entries = {}
  /\ best # NoBest => /\ best.value \in Int /\ best.score \in Int
                      /\ \A e \in entries : e.value =< best.value
                      /\ \E e \in entries : e.value = best.value

\* Cycles are paid for by steps taken or by tolerated failures, and the branches of a
\* cycle share what is left of the budget.
BudgetInv ==
  /\ total \in 0..MaxSteps
  /\ phase \notin {"explore", "close"} => cycle =< MaxReplayAttempts + total
  /\ cycle =< MaxReplayAttempts + total + 1
  /\ phase = "explore" => /\ total < MaxSteps /\ Len(branches) =< BranchCount
                          /\ \A b \in DOMAIN branches : Len(branches[b]) =< BranchHorizon

IInv == ControlInv /\ ArchiveInv /\ BranchInv /\ BestInv /\ BudgetInv /\ FrontierInv

-----------------------------------------------------------------------------
(* The parts of the invariant that an action leaves alone. *)

\* A frontier that does not change stays in order.
LEMMA FrontierUnchanged ==
  ASSUME FrontierInv, UNCHANGED <<frontierVars, paths>>
  PROVE  FrontierInv' /\ Top' = Top
<1>1. /\ entries' = entries /\ trajectories' = trajectories /\ dropped' = dropped
      /\ insertionCounter' = insertionCounter /\ demoted' = demoted /\ paths' = paths
  BY DEF frontierVars
<1>2. FP!IInv'
  BY <1>1 DEF FrontierInv, FP!IInv, FP!TypeOK, FP!OrdersAreFresh, FP!TableMatchesEntries,
              FP!FullWhenDropping, FP!RetainsTheBest
<1> QED
  BY <1>1, <1>2 DEF FrontierInv, Top

\* An episode that is dropped leaves nothing that could be out of order.
LEMMA ForgetIsInOrder ==
  ASSUME Forget
  PROVE  FrontierInv' /\ BranchInv' /\ BestInv' /\ BudgetInv'
<1>1. FP!IInv'
  <2>1. FP!Init'
    BY DEF Forget, Nothing, FP!Init
  <2> QED
    BY <2>1, FrontierAssumptions, FP!InitEstablishesIInv, PTL
<1>2. FrontierInv'
  BY <1>1 DEF Forget, Nothing, FrontierInv
<1>3. BranchInv'
  <2>1. BranchesPerRoot \in Nat
    BY EpisodeAssumption DEF EpisodeAssumption
  <2>2. /\ phase' = "idle" /\ branches' = << >> /\ batch' = << >> /\ inserted' = 0
    BY DEF Forget
  <2>3. << >> \in Seq(Seq(StepRecords)) /\ << >> \in Seq(Trajectories) /\ Len(<< >>) = 0
    OBVIOUS
  <2> QED
    BY <2>1, <2>2, <2>3 DEF BranchInv, BranchesTyped, Batches
<1>4. BestInv'
  BY DEF Forget, BestInv
<1>5. BudgetInv'
  <2>1. MaxSteps \in Nat /\ MaxReplayAttempts \in Nat
    BY EpisodeAssumption DEF EpisodeAssumption
  <2> QED
    BY <2>1 DEF Forget, BudgetInv
<1> QED
  BY <1>2, <1>3, <1>4, <1>5

\* The wrapper and the node before an episode.
LEMMA NoBaseTyped ==
  EnvReset(SeededStart) \in Wrappers(GameTexts) /\ NoBase \in Nodes(GameTexts)
<1>1. EnvReset(SeededStart) \in Wrappers(GameTexts)
  BY GameTextsAreTexts, GameAssumption, ResetIsSound DEF GameAssumption, Sound
<1> DEFINE e == EnvReset(SeededStart)
           native == NoNative
           index == -1
<1>2. e \in Wrappers(GameTexts) /\ native \in Worlds \cup {NoNative} /\ index \in Nat \cup {-1}
  BY <1>1
<1> HIDE DEF e, native, index
<1>3. NodeAt(e, native, index) \in Nodes(GameTexts)
  BY <1>2, NodeAtTyped
<1> QED
  BY <1>1, <1>3 DEF NoBase, e, native, index

\* Dropping an episode leaves control in the state before an episode.
LEMMA ForgetControl ==
  ASSUME ControlInv, Forget, run' = run
  PROVE  ControlInv'
<1>1. EnvReset(SeededStart) \in Wrappers(GameTexts) /\ NoBase \in Nodes(GameTexts)
  BY NoBaseTyped
<1>2. 0 \in 0..MaxCycles
  BY EpisodeAssumption DEF EpisodeAssumption
<1> QED
  BY <1>1, <1>2 DEF ControlInv, Forget

\* The empty archive.
LEMMA NothingIsAnArchive ==
  Nothing \in Archives /\ DOMAIN Nothing = {} /\ \A P : Holds(Nothing, P)
<1> DEFINE D == {}
           a == Nothing
<1>1. D \in SUBSET StateIds /\ IsFiniteSet(D) /\ a = [s \in D |-> a[s]]
      /\ \A s \in D : a[s] \in ArchivedStates
  BY FS_EmptySet DEF Nothing
<1>2. a \in Archives /\ DOMAIN a = D
  <2> HIDE DEF a, D
  <2> QED
    BY <1>1, IsAnArchive
<1> QED
  BY <1>2 DEF Holds

\* No insight is an insight.
LEMMA NoInsightTyped == InsightTyped(NoInsight)
BY FS_EmptySet DEF InsightTyped, NoInsight

\* When the process has dropped its episode, the archive is what is on disk.
LEMMA ForgetArchive ==
  ASSUME Forget, disk'.states \in Archives, Holds(disk'.states, Bounded),
         ~torn' => written' \subseteq DOMAIN disk'.states
  PROVE  ArchiveInv'
BY NothingIsAnArchive, NoInsightTyped DEF Forget, ArchiveInv

\* An archive whose entries keep their values keeps their bounds.
LEMMA AlteredKeepsBounds ==
  ASSUME NEW a \in Archives, NEW b, Alters(a, b), Holds(a, Bounded), SameValues(a, b)
  PROVE  Holds(b, Bounded)
<1>1. ASSUME NEW s \in DOMAIN b PROVE <<s, b[s]>> \in Bounded
  <2>1. s \in DOMAIN a /\ s \in StateIds /\ b[s] \in ArchivedStates
    BY ArchiveFacts DEF Alters
  <2>2. <<s, a[s]>> \in Bounded
    BY <2>1 DEF Holds
  <2>3. IsBounded(a[s])
    BY <2>2 DEF Bounded
  <2>4. IsBounded(b[s])
    BY <2>1, <2>3 DEF IsBounded, SameValues
  <2> QED
    BY <2>1, <2>4 DEF Bounded
<1> QED
  BY <1>1 DEF Holds

\* An episode's alterations of the archive are remembered.
LEMMA AlteredArchive ==
  ASSUME ArchiveInv, Alters(archive, archive'), Holds(archive', Bounded),
         phase # "idle", UNCHANGED diskVars, InsightTyped(insight')
  PROVE  ArchiveInv'
<1>1. /\ archive \in Archives /\ disk.states \in Archives /\ archive' \in Archives
      /\ Later(disk.states, archive)
      /\ disk' = disk /\ torn' = torn /\ written' = written
  BY DEF ArchiveInv, Alters, diskVars
<1>2. Later(archive, archive')
  BY AlteredIsLater
<1>3. Later(disk.states, archive')
  BY <1>1, <1>2, LaterIsAnOrder
<1> QED
  BY <1>1, <1>3 DEF ArchiveInv

\* Nothing that happens to other parts disturbs the archive.
LEMMA ArchiveUnchanged ==
  ASSUME ArchiveInv, UNCHANGED <<archive, insight, diskVars>>, phase # "idle"
  PROVE  ArchiveInv'
BY DEF ArchiveInv, diskVars

\* Merging keeps the bounds: the values are those of the old entry.
LEMMA BoundsKeptByMerges == KeptByMerges(Bounded)
<1> SUFFICES ASSUME NEW s \in StateIds, NEW old \in ArchivedStates, NEW new \in ArchivedStates,
                    <<s, old>> \in Bounded, <<s, new>> \in Bounded
             PROVE  <<s, MergeState(old, new)>> \in Bounded
  BY DEF KeptByMerges
<1> DEFINE merged == MergeState(old, new)
<1>1. merged \in ArchivedStates /\ merged.achieved = old.achieved /\ merged.projected = old.projected
  BY MergeTyped
<1>2. IsBounded(old)
  BY DEF Bounded
<1> HIDE DEF merged
<1>3. IsBounded(merged)
  BY <1>1, <1>2 DEF IsBounded
<1> QED
  BY <1>1, <1>3 DEF Bounded, merged

\* What was just archived was promised nothing.
LEMMA JustArchivedIsBounded ==
  ASSUME NEW s \in StateIds, NEW new, NEW replay, NEW native, JustArchived(new, replay, native)
  PROVE  <<s, new>> \in Bounded
BY DEF JustArchived, Bounded, IsBounded

\* The root of an episode.
LEMMA RootTyped ==
  ASSUME NEW e \in Wrappers(GameTexts), NEW r \in 1..MaxRuns
  PROVE  JustArchived(RootState(e, RootId(r)), e.history,
                      IF NativeSnapshots THEN e.world ELSE NoNative)
<1> DEFINE id == RootId(r)
           native == IF NativeSnapshots THEN e.world ELSE NoNative
           w == e.world
           replay == e.history
           zero == 0
           referenced == NativeSnapshots
<1>1. w \in Worlds /\ replay \in Seq(Actions) /\ native \in Worlds \cup {NoNative}
      /\ zero \in Nat
  BY DEF Wrappers
<1>2. id \in Provenances
  BY EpisodeAssumption DEF EpisodeAssumption, RootId, Provenances
<1>3. referenced \in BOOLEAN
  BY GameAssumption DEF GameAssumption
<1>4. RootState(e, id) = Archived(w, id, zero, replay, native, referenced)
  BY DEF RootState
<1> HIDE DEF id, native, w, replay, zero, referenced
<1>5. JustArchived(Archived(w, id, zero, replay, native, referenced), replay, native)
  BY <1>1, <1>2, <1>3, ArchivedTyped
<1>6. JustArchived(RootState(e, id), replay, native)
  BY <1>4, <1>5
<1> QED
  BY <1>6 DEF id, replay, native

-----------------------------------------------------------------------------
(* The invariant holds at first, and every action keeps it. *)

\* Before the first episode.
LEMMA InitIInv == Init => IInv
<1> SUFFICES ASSUME Init PROVE IInv
  OBVIOUS
<1> USE DEF Init
<1>1. EnvReset(SeededStart) \in Wrappers(GameTexts) /\ NoBase \in Nodes(GameTexts)
  BY NoBaseTyped
<1>2. ControlInv
  BY <1>1, EpisodeAssumption DEF ControlInv, EpisodeAssumption
<1>3. ArchiveInv
  BY NothingIsAnArchive, NoInsightTyped DEF ArchiveInv
<1>4. BranchInv
  <2>1. BranchesPerRoot \in Nat
    BY EpisodeAssumption DEF EpisodeAssumption
  <2>2. << >> \in Seq(Seq(StepRecords)) /\ << >> \in Seq(Trajectories) /\ Len(<< >>) = 0
    OBVIOUS
  <2> QED
    BY <2>1, <2>2 DEF BranchInv, BranchesTyped, Batches
<1>5. BestInv
  BY DEF BestInv
<1>6. BudgetInv
  BY EpisodeAssumption DEF BudgetInv, EpisodeAssumption
<1>7. FrontierInv
  <2>1. FP!Init
    BY DEF Nothing, FP!Init
  <2>2. FP!IInv
    BY <2>1, FrontierAssumptions, FP!InitEstablishesIInv
  <2> QED
    BY <2>2 DEF FrontierInv, Nothing
<1> QED
  BY <1>2, <1>3, <1>4, <1>5, <1>6, <1>7 DEF IInv

\* A snapshot that cannot be read ends an episode before it starts.
LEMMA LoadFailsIInv ==
  ASSUME IInv, LoadFails
  PROVE  IInv'
<1>1. FrontierInv'
  BY FrontierUnchanged DEF IInv, LoadFails, episodeVars
<1>2. ControlInv' /\ ArchiveInv' /\ BranchInv' /\ BestInv' /\ BudgetInv'
  <2>1. MaxRuns \in Nat
    BY EpisodeAssumption DEF EpisodeAssumption
  <2> USE DEF IInv, LoadFails, episodeVars, frontierVars, diskVars
  <2>2. ControlInv'
    BY <2>1 DEF ControlInv
  <2>3. ArchiveInv'
    BY DEF ArchiveInv
  <2>4. BranchInv'
    BY DEF BranchInv, BranchesTyped
  <2>5. BestInv'
    BY DEF BestInv
  <2>6. BudgetInv'
    BY DEF BudgetInv
  <2> QED
    BY <2>2, <2>3, <2>4, <2>5, <2>6
<1> QED
  BY <1>1, <1>2 DEF IInv

\* An episode starts with the archive on disk and its root.
LEMMA StartIInv ==
  ASSUME IInv, StartEpisode
  PROVE  IInv' /\ Later(disk.states, archive')
<1>1. FrontierInv'
  BY FrontierUnchanged DEF IInv, StartEpisode
<1>2. run' \in 1..MaxRuns /\ run' \in 0..MaxRuns
  <2>1. MaxRuns \in Nat
    BY EpisodeAssumption DEF EpisodeAssumption
  <2> QED
    BY <2>1 DEF IInv, ControlInv, StartEpisode
<1>3. env' \in Wrappers(GameTexts)
  BY GameTextsAreTexts, GameAssumption, ResetIsSound DEF GameAssumption, Sound, StartEpisode
<1>4. ControlInv'
  BY <1>2, <1>3 DEF IInv, ControlInv, StartEpisode
<1>5. /\ archive' \in Archives /\ Later(disk.states, archive') /\ Holds(archive', Bounded)
  <2> DEFINE e == env'
             r == run'
             s == StateId[SeededStart]
             root == RootState(e, RootId(r))
             a == disk.states
  <2>1. JustArchived(root, e.history, IF NativeSnapshots THEN e.world ELSE NoNative)
    <3> HIDE DEF e, r
    <3>1. e \in Wrappers(GameTexts) /\ r \in 1..MaxRuns
      BY <1>2, <1>3 DEF e, r
    <3> QED
      BY <3>1, RootTyped
  <2>2. s \in StateIds
    BY GameAssumption DEF GameAssumption, StateIds
  <2>3. a \in Archives /\ Holds(a, Bounded)
    BY DEF IInv, ArchiveInv
  <2>4. archive' = Upsert(a, s, root)
    BY DEF StartEpisode
  <2> HIDE DEF root, s, a
  <2>5. root \in ArchivedStates /\ <<s, root>> \in Bounded
    BY <2>1, <2>2, JustArchivedIsBounded DEF JustArchived
  <2>6. /\ Upsert(a, s, root) \in Archives /\ Later(a, Upsert(a, s, root))
        /\ Holds(Upsert(a, s, root), Bounded)
    BY <2>2, <2>3, <2>5, BoundsKeptByMerges, UpsertFacts
  <2> QED
    BY <2>4, <2>6 DEF a
<1>6. ArchiveInv'
  BY <1>5 DEF IInv, ArchiveInv, StartEpisode, diskVars
<1>7. BranchInv'
  BY DEF IInv, BranchInv, BranchesTyped, StartEpisode
<1>8. BestInv'
  BY DEF IInv, BestInv, StartEpisode, frontierVars
<1>9. BudgetInv'
  BY DEF IInv, BudgetInv, StartEpisode
<1> QED
  BY <1>1, <1>4, <1>5, <1>6, <1>7, <1>8, <1>9 DEF IInv

\* A restore fails.
LEMMA RestoreFailsIInv ==
  ASSUME IInv, NEW s \in DOMAIN archive, RestoreFails(s)
  PROVE  IInv'
<1>1. FrontierInv'
  BY FrontierUnchanged DEF IInv, RestoreFails
<1>2. archive \in Archives /\ archive[s] \in ArchivedStates
  BY ArchiveFacts DEF IInv, ArchiveInv
<1>3. env' \in Wrappers(GameTexts)
  <2>1. PICK outcome \in RestoreArchived(env, archive[s]) : env' = outcome.env
    BY DEF RestoreFails
  <2>2. env \in Wrappers(GameTexts)
    BY DEF IInv, ControlInv
  <2> QED
    BY <1>2, <2>1, <2>2, ArchivedRestore
<1>4. ControlInv'
  <2>1. cycle' \in 0..MaxCycles
    BY EpisodeAssumption DEF EpisodeAssumption, IInv, ControlInv, RestoreFails, Loop
  <2> QED
    BY <1>3, <2>1 DEF IInv, ControlInv, RestoreFails, Loop
<1>5. ArchiveInv'
  <2>1. archive' = NoteRestore(archive, s, FALSE)
    BY DEF RestoreFails
  <2> DEFINE success == FALSE
             b == NoteRestore(archive, s, success)
  <2>2. success \in BOOLEAN
    OBVIOUS
  <2> HIDE DEF success
  <2>3. Alters(archive, b) /\ SameValues(archive, b)
    BY <1>2, <2>2, NoteRestoreAlters
  <2> HIDE DEF b
  <2>4. Holds(b, Bounded)
    BY <1>2, <2>3, AlteredKeepsBounds DEF IInv, ArchiveInv
  <2>5. Alters(archive, archive') /\ Holds(archive', Bounded)
    BY <2>1, <2>3, <2>4 DEF b, success
  <2> QED
    BY <2>5, AlteredArchive DEF IInv, ArchiveInv, RestoreFails, Loop
<1>6. BranchInv'
  BY DEF IInv, BranchInv, BranchesTyped, RestoreFails, Loop
<1>7. BestInv'
  BY DEF IInv, BestInv, RestoreFails, frontierVars
<1>8. BudgetInv'
  <2>1. MaxReplayAttempts \in Nat /\ MaxSteps \in Nat
    BY EpisodeAssumption DEF EpisodeAssumption
  <2>2. /\ cycle \in Nat /\ total \in 0..MaxSteps /\ cycle =< MaxReplayAttempts + total
        /\ cycle' = cycle + 1 /\ total' = total
        /\ phase' = IF cycle' >= MaxReplayAttempts + 1 THEN "close" ELSE "select"
    BY DEF IInv, ControlInv, BudgetInv, RestoreFails, Loop, AttemptsExhausted
  <2> QED
    BY <2>1, <2>2 DEF BudgetInv
<1> QED
  BY <1>1, <1>4, <1>5, <1>6, <1>7, <1>8 DEF IInv

\* A restore succeeds, and the exploration begins.
LEMMA RestoreSucceedsIInv ==
  ASSUME IInv, NEW s \in DOMAIN archive, RestoreSucceeds(s)
  PROVE  IInv'
<1>1. FrontierInv'
  BY FrontierUnchanged DEF IInv, RestoreSucceeds
<1>2. archive \in Archives /\ archive[s] \in ArchivedStates
  BY ArchiveFacts DEF IInv, ArchiveInv
<1>3. env' \in Wrappers(GameTexts) /\ base' \in Nodes(GameTexts)
  <2>1. PICK outcome \in RestoreArchived(env, archive[s]) :
               /\ env' = outcome.env
               /\ base' = NodeAt(outcome.env, IF NativeSnapshots THEN outcome.env.world ELSE NoNative,
                                 Len(outcome.env.history) - 1)
    BY DEF RestoreSucceeds
  <2>2. env \in Wrappers(GameTexts)
    BY DEF IInv, ControlInv
  <2>3. outcome.env \in Wrappers(GameTexts)
    BY <1>2, <2>1, <2>2, ArchivedRestore
  <2> DEFINE e == outcome.env
             native == IF NativeSnapshots THEN e.world ELSE NoNative
             index == Len(e.history) - 1
  <2>4. native \in Worlds \cup {NoNative} /\ index \in Nat \cup {-1}
    BY <2>3 DEF Wrappers
  <2>5. e \in Wrappers(GameTexts)
    BY <2>3
  <2> HIDE DEF e, native, index
  <2>6. NodeAt(e, native, index) \in Nodes(GameTexts)
    BY <2>4, <2>5, NodeAtTyped
  <2> QED
    BY <2>1, <2>3, <2>6 DEF e, native, index
<1>4. Alters(archive, archive') /\ SameValues(archive, archive')
  <2>1. archive' = NoteRestore(archive, s, TRUE)
    BY DEF RestoreSucceeds
  <2> DEFINE success == TRUE
             b == NoteRestore(archive, s, success)
  <2>2. success \in BOOLEAN
    OBVIOUS
  <2> HIDE DEF success
  <2>3. Alters(archive, b) /\ SameValues(archive, b)
    BY <1>2, <2>2, NoteRestoreAlters
  <2> HIDE DEF b
  <2>4. b = archive'
    BY <2>1 DEF b, success
  <2> QED
    BY <2>3, <2>4
<1>5. ControlInv'
  <2>1. cycle' \in 0..MaxCycles /\ cycle' # 0
    BY EpisodeAssumption DEF EpisodeAssumption, IInv, ControlInv, RestoreSucceeds, Loop
  <2>2. selected' \in DOMAIN archive'
    BY <1>4 DEF Alters, RestoreSucceeds
  <2> QED
    BY <1>3, <2>1, <2>2 DEF IInv, ControlInv, RestoreSucceeds, Loop
<1>6. ArchiveInv'
  <2>1. Holds(archive', Bounded)
    BY <1>2, <1>4, AlteredKeepsBounds DEF IInv, ArchiveInv
  <2> QED
    BY <1>4, <2>1, AlteredArchive DEF IInv, ArchiveInv, RestoreSucceeds, Loop
<1>7. BranchInv'
  BY DEF IInv, BranchInv, BranchesTyped, RestoreSucceeds, Loop
<1>8. BestInv'
  BY DEF IInv, BestInv, RestoreSucceeds, frontierVars
<1>9. BudgetInv'
  <2>1. MaxReplayAttempts \in Nat /\ MaxSteps \in Nat
    BY EpisodeAssumption DEF EpisodeAssumption
  <2>2. /\ cycle \in Nat /\ total \in 0..MaxSteps /\ cycle =< MaxReplayAttempts + total
        /\ cycle' = cycle + 1 /\ total' = total /\ total < MaxSteps
        /\ phase' = "explore" /\ branches' = << >>
    BY DEF IInv, ControlInv, BudgetInv, BranchInv, RestoreSucceeds, Loop
  <2>3. Len(branches') =< BranchCount'
    <3>1. BranchCount \in 1..BranchesPerRoot /\ BranchCount' = BranchCount
      BY <2>2, BudgetOfACycle DEF BranchCount, Remaining
    <3>2. Len(branches') = 0
      BY <2>2
    <3> QED
      BY <3>1, <3>2
  <2>4. DOMAIN branches' = {}
    BY <2>2
  <2> QED
    BY <2>1, <2>2, <2>3, <2>4 DEF BudgetInv
<1> QED
  BY <1>1, <1>5, <1>6, <1>7, <1>8, <1>9 DEF IInv

\* A branch is explored, or could not be restored.
LEMMA ExploreIInv ==
  ASSUME IInv, ExploreBranch
  PROVE  IInv'
<1>1. FrontierInv'
  BY FrontierUnchanged DEF IInv, ExploreBranch
<1>2. /\ env \in Wrappers(GameTexts) /\ base \in Nodes(GameTexts) /\ phase = "explore"
      /\ BranchesTyped /\ total \in Nat
      /\ Len(branches) < BranchCount /\ phase' = phase /\ total' = total /\ cycle' = cycle
  BY EpisodeAssumption DEF EpisodeAssumption, IInv, ControlInv, BranchInv, BudgetInv, ExploreBranch
<1>3. BranchCount \in 1..BranchesPerRoot /\ BranchHorizon \in Nat
      /\ BranchCount' = BranchCount /\ BranchHorizon' = BranchHorizon
  BY <1>2, BudgetOfACycle DEF BranchCount, BranchHorizon, Remaining
<1>4. /\ env' \in Wrappers(GameTexts)
      /\ \E branch \in Seq(StepRecords) : /\ branches' = Append(branches, branch)
                                          /\ Len(branch) =< BranchHorizon
  <2>1. PICK outcome \in BranchStart :
          IF outcome.result.success
          THEN \E actions \in Rollouts(outcome.env) :
                 /\ env' = RolledOut(outcome.env, actions)
                 /\ branches' = Append(branches, StepsOf(outcome.env, actions))
          ELSE env' = outcome.env /\ branches' = Append(branches, << >>)
    BY DEF ExploreBranch
  <2>2. outcome.env \in Wrappers(GameTexts)
    BY <1>2, <2>1, BranchRestore
  <2>3. CASE outcome.result.success
    <3>1. PICK actions \in Rollouts(outcome.env) :
                 /\ env' = RolledOut(outcome.env, actions)
                 /\ branches' = Append(branches, StepsOf(outcome.env, actions))
      BY <2>1, <2>3
    <3>2. actions \in Seq(Actions) /\ Len(actions) =< BranchHorizon
      BY <1>3, <3>1, RolloutsAreActions
    <3>3. RolledOut(outcome.env, actions) \in Wrappers(GameTexts)
      BY <2>2, <3>2, RolledOutTyped
    <3>4. /\ StepsOf(outcome.env, actions) \in Seq(StepRecords)
          /\ Len(StepsOf(outcome.env, actions)) = Len(actions)
      BY <2>2, <3>2, StepsOfTyped
    <3> QED
      BY <3>1, <3>2, <3>3, <3>4
  <2>4. CASE ~outcome.result.success
    <3>1. env' = outcome.env /\ branches' = Append(branches, << >>)
      BY <2>1, <2>4
    <3> DEFINE empty == << >>
    <3>2. empty \in Seq(StepRecords) /\ Len(empty) = 0
      OBVIOUS
    <3>3. env' = outcome.env /\ branches' = Append(branches, empty)
      BY <3>1
    <3> HIDE DEF empty
    <3>4. Len(empty) =< BranchHorizon
      BY <1>3, <3>2
    <3>5. \E branch \in Seq(StepRecords) : /\ branches' = Append(branches, branch)
                                          /\ Len(branch) =< BranchHorizon
      BY <3>2, <3>3, <3>4
    <3> QED
      BY <2>2, <3>3, <3>5
  <2> QED
    BY <2>3, <2>4
<1>5. PICK branch \in Seq(StepRecords) : /\ branches' = Append(branches, branch)
                                         /\ Len(branch) =< BranchHorizon
  BY <1>4
<1>6. /\ branches' \in Seq(Seq(StepRecords)) /\ Len(branches') = Len(branches) + 1
      /\ Len(branches) \in Nat
      /\ \A b \in DOMAIN branches' :
           branches'[b] = IF b = Len(branches) + 1 THEN branch ELSE branches[b]
      /\ DOMAIN branches' = 1..(Len(branches) + 1) /\ DOMAIN branches = 1..Len(branches)
  BY <1>2, <1>5 DEF BranchesTyped
<1>7. ControlInv'
  BY <1>4 DEF IInv, ControlInv, ExploreBranch
<1>8. ArchiveInv'
  BY <1>2, ArchiveUnchanged DEF IInv, ExploreBranch
<1>9. BranchInv'
  <2>1. Len(branches') =< BranchesPerRoot
    BY <1>2, <1>3, <1>6, EpisodeAssumption DEF EpisodeAssumption
  <2>2. BranchesTyped'
    BY <1>6 DEF BranchesTyped
  <2>3. /\ batch = << >> /\ batch' = batch /\ inserted' = inserted /\ inserted \in 0..Len(batch)
        /\ batch \in Batches
    BY <1>2 DEF IInv, BranchInv, ExploreBranch
  <2> QED
    BY <1>2, <1>6, <2>1, <2>2, <2>3 DEF BranchInv
<1>10. BestInv'
  BY DEF IInv, BestInv, ExploreBranch, frontierVars
<1>11. BudgetInv'
  <2>1. Len(branches') =< BranchCount'
    BY <1>2, <1>3, <1>6
  <2>2. \A b \in DOMAIN branches' : Len(branches'[b]) =< BranchHorizon'
    BY <1>2, <1>3, <1>5, <1>6 DEF IInv, BudgetInv
  <2> QED
    BY <1>2, <2>1, <2>2 DEF IInv, BudgetInv, ExploreBranch
<1> QED
  BY <1>1, <1>7, <1>8, <1>9, <1>10, <1>11 DEF IInv

\* The prefix of a trajectory is the beginning of the one that the root comes from, up
\* to the root if it is that long.
LEMMA PrefixIsAPart ==
  ASSUME FrontierInv, NEW a \in ArchivedStates, a.prov \in DOMAIN paths
  PROVE  /\ paths[a.prov] \in Seq(StepRecords) /\ Len(paths[a.prov]) \in Nat
         /\ \E k \in 0..Len(paths[a.prov]) :
              /\ PrefixSteps(a) = SubSeq(paths[a.prov], 1, k)
              /\ a.timestep + 1 =< Len(paths[a.prov]) => k = a.timestep + 1
<1> DEFINE p == paths[a.prov]
           k == Min({a.timestep + 1, Len(p)})
<1>1. p \in Seq(StepRecords) /\ Len(p) \in Nat
  BY TopBoundsTheRetained DEF Paths
<1>2. a.timestep \in Nat
  BY DEF ArchivedStates
<1>3. PrefixSteps(a) = SubSeq(p, 1, k)
  BY DEF PrefixSteps
<1> HIDE DEF p
<1>4. k = (IF a.timestep + 1 =< Len(p) THEN a.timestep + 1 ELSE Len(p))
  BY <1>1, <1>2 DEF Min
<1> HIDE DEF k
<1>5. k \in 0..Len(p) /\ (a.timestep + 1 =< Len(p) => k = a.timestep + 1)
  BY <1>1, <1>2, <1>4
<1> QED
  BY <1>1, <1>3, <1>5 DEF p

\* The prefix of a trajectory is a sequence of steps.
LEMMA PrefixTyped ==
  ASSUME FrontierInv, NEW a \in ArchivedStates
  PROVE  PrefixSteps(a) \in Seq(StepRecords)
<1>1. CASE a.prov \in DOMAIN paths
  <2> DEFINE p == paths[a.prov]
  <2>1. p \in Seq(StepRecords) /\ Len(p) \in Nat
        /\ \E k \in 0..Len(p) : PrefixSteps(a) = SubSeq(p, 1, k)
    BY <1>1, PrefixIsAPart
  <2> HIDE DEF p
  <2> QED
    BY <2>1
<1>2. CASE a.prov \notin DOMAIN paths
  BY <1>2 DEF PrefixSteps
<1> QED
  BY <1>1, <1>2

\* The trajectories of a cycle: at most one for each branch, and none only when no
\* branch took a step.
LEMMA BranchTrajectoriesFacts ==
  ASSUME BranchesTyped, PrefixSteps(archive[selected]) \in Seq(StepRecords),
         run \in 1..MaxRuns, cycle \in 1..MaxCycles, Len(branches) =< BranchesPerRoot
  PROVE  /\ BranchTrajectories \in Batches
         /\ Len(BranchTrajectories) =< Len(branches)
         /\ BranchTrajectories # << >> => BranchesThatMoved # {}
         /\ \A k \in 1..Len(BranchTrajectories) : \E b \in BranchesThatMoved :
              BranchTrajectories[k] = BranchTrajectory(PrefixSteps(archive[selected]), b)
<1> DEFINE prefix == PrefixSteps(archive[selected])
           n == Len(branches)
           Built == {v \in Batches : \A k \in 1..Len(v) : \E b \in BranchesThatMoved :
                                       v[k] = BranchTrajectory(prefix, b)}
<1>1. n \in Nat /\ DOMAIN branches = 1..n
  BY DEF BranchesTyped
<1>2. prefix \in Seq(StepRecords)
  OBVIOUS
<1>3. PICK f : /\ f \in [0..n -> Batches]
               /\ f[0] = << >> /\ f[n] = BranchTrajectories
               /\ \A i \in 1..n : f[i] = WithTrajectory(f[i - 1], prefix, i)
  BY BranchTrajectoriesTrace
<1> HIDE DEF n, prefix
<1>4. n \in 0..n /\ \A i \in 1..n : i - 1 \in 0..n /\ i \in 0..n
  BY <1>1
<1>5. \A i \in 0..n : Len(f[i]) =< i /\ f[i] \in Built
  <2> DEFINE S == {i \in 0..n : Len(f[i]) =< i /\ f[i] \in Built}
  <2>1. 0 \in S
    <3>1. << >> \in Batches /\ Len(<< >>) = 0
      BY DEF Batches
    <3>2. << >> \in Built
      BY <3>1
    <3> QED
      BY <1>1, <1>3, <3>1, <3>2
  <2>2. ASSUME NEW i \in 1..n, i - 1 \in S PROVE i \in S
    <3> DEFINE v == f[i - 1]
               t == BranchTrajectory(prefix, i)
    <3>1. f[i] = WithTrajectory(v, prefix, i)
      BY <1>3
    <3>2. v \in Batches /\ v \in Built /\ Len(v) =< i - 1
      BY <2>2
    <3> HIDE DEF v
    <3>3. CASE branches[i] = << >>
      <4>1. f[i] = v
        BY <3>1, <3>3 DEF WithTrajectory
      <4>2. Len(v) \in Nat
        BY <3>2 DEF Batches
      <4>3. Len(f[i]) =< i
        BY <3>2, <4>1, <4>2
      <4> HIDE DEF Built
      <4> QED
        BY <1>4, <3>2, <4>1, <4>3
    <3>4. CASE branches[i] # << >>
      <4>1. f[i] = Append(v, t)
        BY <3>1, <3>4 DEF WithTrajectory
      <4>2. t \in Trajectories
        BY <1>1, <1>2, <3>4, BranchTrajectoryTyped
      <4>3. i \in BranchesThatMoved
        BY <1>1, <3>4 DEF BranchesThatMoved
      <4>4. \E b \in BranchesThatMoved : t = BranchTrajectory(prefix, b)
        BY <4>3
      <4> HIDE DEF t
      <4>5. /\ v \in Seq(Trajectories) /\ Len(v) \in Nat
            /\ Append(v, t) \in Seq(Trajectories) /\ Len(Append(v, t)) = Len(v) + 1
            /\ \A k \in 1..Len(v) : Append(v, t)[k] = v[k]
            /\ Append(v, t)[Len(v) + 1] = t
        BY <3>2, <4>2 DEF Batches
      <4>6. \A k \in 1..Len(Append(v, t)) : \E b \in BranchesThatMoved :
              Append(v, t)[k] = BranchTrajectory(prefix, b)
        <5> SUFFICES ASSUME NEW k \in 1..Len(Append(v, t))
                     PROVE  \E b \in BranchesThatMoved : Append(v, t)[k] = BranchTrajectory(prefix, b)
          OBVIOUS
        <5>1. CASE k = Len(v) + 1
          BY <4>4, <4>5, <5>1
        <5>2. CASE k # Len(v) + 1
          <6>1. k \in 1..Len(v)
            BY <4>5, <5>2
          <6> QED
            BY <3>2, <4>5, <6>1
        <5> QED
          BY <5>1, <5>2
      <4>7. Append(v, t) \in Built
        BY <4>5, <4>6 DEF Batches
      <4>8. Len(Append(v, t)) =< i
        BY <3>2, <4>5
      <4> HIDE DEF Built
      <4> QED
        BY <1>4, <4>1, <4>7, <4>8
    <3> QED
      BY <3>3, <3>4
  <2> HIDE DEF S
  <2>3. 0..n \subseteq S
    BY <1>1, <2>1, <2>2, IntervalInduct
  <2> QED
    BY <2>3 DEF S
<1>6. BranchTrajectories \in Built /\ Len(BranchTrajectories) =< n
  BY <1>3, <1>4, <1>5
<1>7. ASSUME BranchTrajectories # << >> PROVE BranchesThatMoved # {}
  <2> DEFINE v == BranchTrajectories
  <2>1. v \in Seq(Trajectories) /\ v # << >> /\ v \in Built
    BY <1>6, <1>7 DEF Batches
  <2> HIDE DEF v
  <2>2. Len(v) \in Nat /\ Len(v) # 0
    BY <2>1
  <2>3. 1 \in 1..Len(v)
    BY <2>2
  <2> QED
    BY <2>1, <2>3
<1> QED
  BY <1>6, <1>7 DEF n, prefix

\* The exploration of a cycle is over.
LEMMA FinishIInv ==
  ASSUME IInv, FinishExploration
  PROVE  IInv'
<1>1. FrontierInv'
  BY FrontierUnchanged DEF IInv, FinishExploration
<1>2. /\ phase = "explore" /\ selected \in DOMAIN archive /\ archive \in Archives
      /\ BranchesTyped /\ total \in Nat /\ total < MaxSteps /\ cycle \in 1..MaxCycles
      /\ run \in 1..MaxRuns /\ Len(branches) =< BranchesPerRoot /\ FrontierInv
      /\ Len(branches) =< BranchCount
      /\ \A b \in DOMAIN branches : Len(branches[b]) =< BranchHorizon
      /\ cycle =< MaxReplayAttempts + total + 1
      /\ batch' = BranchTrajectories /\ total' = total + StepsTaken /\ branches' = branches
      /\ phase' = IF batch' = << >> THEN "close" ELSE "insert"
      /\ cycle' = cycle /\ inserted' = inserted
  BY EpisodeAssumption DEF EpisodeAssumption, IInv, ControlInv, ArchiveInv, BranchInv, BudgetInv,
                           FinishExploration
<1>3. /\ BranchTrajectories \in Batches /\ Len(BranchTrajectories) =< Len(branches)
      /\ BranchTrajectories # << >> => BranchesThatMoved # {}
  <2>1. archive[selected] \in ArchivedStates
    BY <1>2, ArchiveFacts
  <2>2. PrefixSteps(archive[selected]) \in Seq(StepRecords)
    BY <1>2, <2>1, PrefixTyped
  <2> QED
    BY <1>2, <2>2, BranchTrajectoriesFacts
<1>4. /\ StepsTaken \in Nat /\ total + StepsTaken =< MaxSteps
      /\ BranchesThatMoved # {} => StepsTaken >= 1
  <2>1. /\ BranchCount \in Nat /\ BranchHorizon \in Nat
        /\ BranchCount * BranchHorizon =< MaxSteps - total
    BY <1>2, BudgetOfACycle, EpisodeAssumption DEF EpisodeAssumption
  <2>2. /\ StepsTaken \in Nat /\ StepsTaken =< Len(branches) * BranchHorizon
        /\ \A b \in DOMAIN branches : Len(branches[b]) =< StepsTaken
    BY <1>2, <2>1, StepsTakenBounds
  <2>3. Len(branches) \in Nat /\ MaxSteps \in Nat
    BY <1>2, EpisodeAssumption DEF EpisodeAssumption, BranchesTyped
  <2>4. Len(branches) * BranchHorizon =< BranchCount * BranchHorizon
    BY <1>2, <2>1, <2>3
  <2>5. Len(branches) * BranchHorizon \in Int /\ BranchCount * BranchHorizon \in Int
    BY <2>1, <2>3
  <2>6. total + StepsTaken =< MaxSteps
    BY <1>2, <2>1, <2>2, <2>3, <2>4, <2>5
  <2>7. ASSUME BranchesThatMoved # {} PROVE StepsTaken >= 1
    <3>1. PICK b \in DOMAIN branches : branches[b] # << >>
      BY <2>7 DEF BranchesThatMoved
    <3>2. branches[b] \in Seq(StepRecords)
      BY <1>2, <3>1 DEF BranchesTyped
    <3>3. Len(branches[b]) \in Nat /\ Len(branches[b]) # 0
      BY <3>1, <3>2
    <3> QED
      BY <2>2, <3>1, <3>3
  <2> QED
    BY <2>2, <2>6, <2>7
<1>5. Alters(archive, archive') /\ SameValues(archive, archive')
  <2>1. PICK j \in Judgements, level \in SaturationLevels :
          archive' = NoteRevisit(archive, selected, j.achieved, j.exploratory, level)
    BY DEF FinishExploration
  <2> DEFINE achieved == j.achieved
             exploratory == j.exploratory
             b == NoteRevisit(archive, selected, achieved, exploratory, level)
  <2>2. achieved \in BOOLEAN /\ exploratory \in BOOLEAN
    BY <2>1 DEF Judgements
  <2>3. level \in Nat
    BY <2>1, EpisodeAssumption DEF EpisodeAssumption
  <2> HIDE DEF achieved, exploratory
  <2>4. Alters(archive, b) /\ SameValues(archive, b)
    BY <1>2, <2>2, <2>3, NoteRevisitAlters
  <2> HIDE DEF b
  <2>5. archive' = b
    BY <2>1 DEF b, achieved, exploratory
  <2> QED
    BY <2>4, <2>5
<1>6. ControlInv'
  BY <1>2 DEF IInv, ControlInv, FinishExploration
<1>7. ArchiveInv'
  <2>1. Holds(archive', Bounded)
    BY <1>2, <1>5, AlteredKeepsBounds DEF IInv, ArchiveInv
  <2> QED
    BY <1>2, <1>5, <2>1, AlteredArchive DEF IInv, ArchiveInv, FinishExploration
<1>8. BranchInv'
  <2>1. inserted = 0 /\ batch = << >>
    BY <1>2 DEF IInv, BranchInv
  <2>2. Len(batch') \in Nat /\ (batch' # << >> => Len(batch') # 0)
    BY <1>2, <1>3 DEF Batches
  <2>3. inserted' \in 0..Len(batch') /\ (phase' = "insert" => inserted' < Len(batch'))
    BY <1>2, <2>1, <2>2
  <2> QED
    BY <1>2, <1>3, <2>3 DEF BranchInv, BranchesTyped
<1>9. BestInv'
  BY DEF IInv, BestInv, FinishExploration, frontierVars
<1>10. BudgetInv'
  <2>1. MaxReplayAttempts \in Nat /\ MaxSteps \in Nat
    BY EpisodeAssumption DEF EpisodeAssumption
  <2> QED
    BY <1>2, <1>3, <1>4, <2>1 DEF BudgetInv
<1> QED
  BY <1>1, <1>6, <1>7, <1>8, <1>9, <1>10 DEF IInv

\* What the insertion of a trajectory does to the frontier and the kept steps.
LEMMA InsertionFacts ==
  ASSUME IInv, InsertTrajectory,
         NEW t, t = batch[inserted + 1], NEW value, value = TrajectoryValue(t.steps)
  PROVE  /\ inserted + 1 \in 1..Len(batch) /\ inserted \in 0..Len(batch)
         /\ t \in Trajectories /\ value \in Int /\ Score[Last(t.steps).world] \in Int
         /\ FP!IInv'
         /\ DOMAIN trajectories' \subseteq DOMAIN trajectories \cup {t.id}
         /\ \A other \in DOMAIN trajectories' :
              trajectories'[other] = IF other = t.id THEN value ELSE trajectories[other]
         /\ \A x \in entries' : x \in entries \/ (x.id = t.id /\ x.value = value)
         /\ \E x \in entries' : x.value >= value
         /\ \A y \in entries : \E x \in entries' : x.value >= y.value
         /\ paths' = [id \in DOMAIN trajectories' |-> paths'[id]]
         /\ \A id \in DOMAIN trajectories' : paths'[id] = IF id = t.id THEN t.steps ELSE paths[id]
<1> DEFINE score == Score[Last(t.steps).world]
<1>1. /\ phase = "insert" /\ batch \in Batches /\ inserted \in 0..Len(batch)
      /\ inserted < Len(batch) /\ FP!IInv /\ FrontierInv /\ inserted' = inserted + 1
      /\ phase' = (IF inserted' = Len(batch) THEN "update" ELSE "insert") /\ batch' = batch
  BY DEF IInv, BranchInv, FrontierInv, InsertTrajectory
<1>2. inserted + 1 \in 1..Len(batch) /\ inserted' \in 0..Len(batch)
  BY <1>1 DEF Batches
<1>3. t \in Trajectories
  BY <1>1, <1>2 DEF Batches
<1>4. t.id \in TrajectoryIds /\ t.steps \in Paths
  BY <1>3 DEF Trajectories
<1>5. value \in Int /\ score \in Int
  <2>1. value \in Int
    BY <1>4, ValueIsInt
  <2> DEFINE steps == t.steps
  <2>2. steps \in Seq(StepRecords) /\ steps # << >>
    BY <1>4 DEF Paths
  <2> HIDE DEF steps
  <2>3. Len(steps) \in Nat /\ Len(steps) # 0
    BY <2>2
  <2>4. steps[Len(steps)] \in StepRecords
    BY <2>2, <2>3
  <2>5. Last(steps).world \in Worlds
    BY <2>4 DEF StepRecords, Last
  <2>6. Score[Last(steps).world] \in Int
    BY <2>5, GameAssumption DEF GameAssumption
  <2> QED
    BY <2>1, <2>6 DEF steps
<1> DEFINE stored == [id \in DOMAIN paths \cup {t.id} |-> IF id = t.id THEN t.steps ELSE paths[id]]
<1>6. /\ Frontier!InsertNew(t.id, value, 0)
      /\ paths' = Restrict(stored, DOMAIN trajectories')
      /\ best' = PreferHigherValue(best, t)
  BY DEF InsertTrajectory
<1>7. /\ FP!IInv'
      /\ t.id \notin DOMAIN trajectories
      /\ DOMAIN trajectories' \subseteq DOMAIN trajectories \cup {t.id}
      /\ \A other \in DOMAIN trajectories' :
           trajectories'[other] = IF other = t.id THEN value ELSE trajectories[other]
      /\ \A x \in entries' : x \in entries \/ (x.id = t.id /\ x.value = value)
      /\ \E x \in entries' : x.value >= value
      /\ \A y \in entries : \E x \in entries' : x.value >= y.value
  <2> DEFINE id == t.id
  <2>1. id \in TrajectoryIds /\ Frontier!InsertNew(id, value, 0)
    BY <1>4, <1>6
  <2> HIDE DEF id
  <2>2. /\ FP!IInv'
        /\ id \notin DOMAIN trajectories
        /\ DOMAIN trajectories' \subseteq DOMAIN trajectories \cup {id}
        /\ \A other \in DOMAIN trajectories' :
             trajectories'[other] = IF other = id THEN value ELSE trajectories[other]
        /\ \A x \in entries' : x \in entries \/ (x.id = id /\ x.value = value)
        /\ \E x \in entries' : x.value >= value
        /\ \A y \in entries : \E x \in entries' : x.value >= y.value
    BY <1>1, <1>5, <2>1, InsertIntoTheFrontier
  <2> QED
    BY <2>2 DEF id
<1>8. /\ paths = [id \in DOMAIN trajectories |-> paths[id]]
      /\ \A id \in DOMAIN trajectories :
           paths[id] \in Paths /\ trajectories[id] = TrajectoryValue(paths[id])
  BY <1>1 DEF FrontierInv
<1>9. /\ paths' = [id \in DOMAIN trajectories' |-> paths'[id]]
      /\ \A id \in DOMAIN trajectories' : paths'[id] = IF id = t.id THEN t.steps ELSE paths[id]
  <2> DEFINE D == DOMAIN trajectories'
  <2>1. DOMAIN stored = DOMAIN trajectories \cup {t.id}
    BY <1>8
  <2>2. D \subseteq DOMAIN stored
    BY <1>7, <2>1
  <2>3. paths' = [id \in D |-> stored[id]]
    BY <1>6, <2>2 DEF Restrict
  <2>4. \A id \in D : stored[id] = IF id = t.id THEN t.steps ELSE paths[id]
    BY <2>2
  <2> HIDE DEF stored, D
  <2>5. paths' = [id \in D |-> paths'[id]] /\ \A id \in D : paths'[id] = stored[id]
    BY <2>3
  <2> QED
    BY <2>4, <2>5 DEF D
<1> HIDE DEF stored
<1> QED
  BY <1>1, <1>2, <1>3, <1>5, <1>7, <1>9

\* A trajectory of the cycle is put into the frontier.
LEMMA InsertIInv ==
  ASSUME IInv, InsertTrajectory
  PROVE  IInv'
<1> DEFINE t == batch[inserted + 1]
           value == TrajectoryValue(t.steps)
           score == Score[Last(t.steps).world]
<1>1. /\ phase = "insert" /\ batch \in Batches /\ inserted \in 0..Len(batch)
      /\ inserted < Len(batch) /\ FP!IInv /\ FrontierInv /\ inserted' = inserted + 1
      /\ phase' = (IF inserted' = Len(batch) THEN "update" ELSE "insert") /\ batch' = batch
      /\ best' = PreferHigherValue(best, t)
  BY DEF IInv, BranchInv, FrontierInv, InsertTrajectory
<1>2. inserted + 1 \in 1..Len(batch) /\ inserted' \in 0..Len(batch)
  BY <1>1 DEF Batches
<1>3. /\ t \in Trajectories /\ value \in Int /\ score \in Int
      /\ FP!IInv'
      /\ DOMAIN trajectories' \subseteq DOMAIN trajectories \cup {t.id}
      /\ \A other \in DOMAIN trajectories' :
           trajectories'[other] = IF other = t.id THEN value ELSE trajectories[other]
      /\ \A x \in entries' : x \in entries \/ (x.id = t.id /\ x.value = value)
      /\ \E x \in entries' : x.value >= value
      /\ \A y \in entries : \E x \in entries' : x.value >= y.value
      /\ paths' = [id \in DOMAIN trajectories' |-> paths'[id]]
      /\ \A id \in DOMAIN trajectories' : paths'[id] = IF id = t.id THEN t.steps ELSE paths[id]
  BY InsertionFacts
<1>4. t.id \in TrajectoryIds /\ t.steps \in Paths
  BY <1>3 DEF Trajectories
<1>5. value \in Int /\ score \in Int
  BY <1>3
<1>7. /\ FP!IInv'
      /\ DOMAIN trajectories' \subseteq DOMAIN trajectories \cup {t.id}
      /\ \A other \in DOMAIN trajectories' :
           trajectories'[other] = IF other = t.id THEN value ELSE trajectories[other]
      /\ \A x \in entries' : x \in entries \/ (x.id = t.id /\ x.value = value)
      /\ \E x \in entries' : x.value >= value
      /\ \A y \in entries : \E x \in entries' : x.value >= y.value
  BY <1>3
<1>8. /\ paths = [id \in DOMAIN trajectories |-> paths[id]]
      /\ \A id \in DOMAIN trajectories :
           paths[id] \in Paths /\ trajectories[id] = TrajectoryValue(paths[id])
  BY <1>1 DEF FrontierInv
<1>9. /\ paths' = [id \in DOMAIN trajectories' |-> paths'[id]]
      /\ \A id \in DOMAIN trajectories' : paths'[id] = IF id = t.id THEN t.steps ELSE paths[id]
  BY <1>3
<1>10. FrontierInv'
  <2>1. ASSUME NEW id \in DOMAIN trajectories'
        PROVE  paths'[id] \in Paths /\ trajectories'[id] = TrajectoryValue(paths'[id])
    <3>1. CASE id = t.id
      BY <1>4, <1>7, <1>9, <3>1
    <3>2. CASE id # t.id
      <4>1. id \in DOMAIN trajectories
        BY <1>7, <3>2
      <4>2. paths'[id] = paths[id] /\ trajectories'[id] = trajectories[id]
        BY <1>7, <1>9, <3>2
      <4> QED
        BY <1>8, <4>1, <4>2
    <3> QED
      BY <3>1, <3>2
  <2> QED
    BY <1>7, <1>9, <2>1 DEF FrontierInv
<1>11. ControlInv'
  BY <1>1 DEF IInv, ControlInv, InsertTrajectory
<1>12. ArchiveInv'
  BY <1>1, ArchiveUnchanged DEF IInv, InsertTrajectory
<1>13. BranchInv'
  BY <1>1, <1>2 DEF IInv, BranchInv, BranchesTyped, InsertTrajectory
<1>14. BestInv'
  <2>1. /\ best = NoBest => entries = {}
        /\ best # NoBest => /\ best.value \in Int /\ best.score \in Int
                            /\ \A e \in entries : e.value =< best.value
                            /\ \E e \in entries : e.value = best.value
    BY DEF IInv, BestInv
  <2>2. \A e \in entries : e.value \in Int
    BY <1>1, FrontierFacts
  <2>3. \A e \in entries' : e.value \in Int
    <3> HIDE DEF t, value
    <3> QED
      BY <1>5, <1>7, <2>2
  <2> DEFINE better == \/ best = NoBest \/ value > best.value
                       \/ (value = best.value /\ score > best.score)
             new == [value |-> value, score |-> score]
  <2>4. best' = IF better THEN new ELSE best
    BY <1>1 DEF PreferHigherValue
  <2>5. new # NoBest /\ new.value = value /\ new.score = score
    BY <1>5, NoneIsNotAValue DEF NoBest
  <2>6. CASE best = NoBest
    <3>1. entries = {}
      BY <2>1, <2>6
    <3>2. best' = new
      BY <2>4, <2>6
    <3>3. \A e \in entries' : e.value = value
      BY <1>7, <3>1
    <3>4. \E e \in entries' : e.value = value
      BY <1>7, <3>3
    <3> HIDE DEF new, value, score, t
    <3>5. \A e \in entries' : e.value =< best'.value
      BY <1>5, <2>5, <3>2, <3>3
    <3> QED
      BY <1>5, <2>5, <3>2, <3>4, <3>5 DEF BestInv
  <2>7. CASE best # NoBest
    <3> DEFINE v == best.value
    <3>1. v \in Int /\ best.score \in Int /\ \A e \in entries : e.value =< v
      BY <2>1, <2>7
    <3>2. PICK e \in entries : e.value = v
      BY <2>1, <2>7
    <3> HIDE DEF new, t, value, score
    <3>3. better \/ value =< v
      BY <1>5, <3>1
    <3>4. ~better \/ value >= v
      BY <1>5, <2>7, <3>1
    <3>5. \A x \in entries' : x.value =< v \/ x.value = value
      BY <1>7, <3>1
    <3>6. (\E x \in entries' : x.value >= v) /\ (\E x \in entries' : x.value >= value)
      BY <1>7, <3>2
    <3> HIDE DEF v, better
    <3>7. CASE better
      <4>1. best' = new /\ value >= v
        BY <2>4, <3>4, <3>7
      <4>2. \A x \in entries' : x.value =< value
        BY <1>5, <2>3, <3>1, <3>5, <4>1
      <4>3. \E x \in entries' : x.value = value
        BY <1>5, <2>3, <3>6, <4>2
      <4>4. /\ best'.value \in Int /\ best'.score \in Int
            /\ \A x \in entries' : x.value =< best'.value
            /\ \E x \in entries' : x.value = best'.value
        BY <1>5, <2>5, <4>1, <4>2, <4>3
      <4> QED
        BY <2>5, <4>1, <4>4 DEF BestInv
    <3>8. CASE ~better
      <4>1. best' = best /\ value =< v
        BY <2>4, <3>3, <3>8
      <4>2. \A x \in entries' : x.value =< v
        BY <1>5, <2>3, <3>1, <3>5, <4>1
      <4>3. \E x \in entries' : x.value = v
        BY <2>3, <3>1, <3>6, <4>2
      <4>4. /\ best'.value \in Int /\ best'.score \in Int
            /\ \A x \in entries' : x.value =< best'.value
            /\ \E x \in entries' : x.value = best'.value
        BY <3>1, <4>1, <4>2, <4>3 DEF v
      <4> QED
        BY <2>7, <4>1, <4>4 DEF BestInv
    <3> QED
      BY <3>7, <3>8
  <2> QED
    BY <2>6, <2>7
<1>15. BudgetInv'
  BY <1>1 DEF IInv, BudgetInv, InsertTrajectory
<1> QED
  BY <1>10, <1>11, <1>12, <1>13, <1>14, <1>15 DEF IInv

\* The states that a path visits.
VisitedBy(steps) == {StateId[steps[i].world] : i \in 1..Len(steps)}

\* The ingestion of a trajectory archives every state it visits.
LEMMA IngestCovers ==
  ASSUME NEW a \in Archives, NEW P, KeptByMerges(P), Holds(a, P),
         NEW t \in Trajectories, StepsHold(t, P)
  PROVE  DOMAIN a \cup VisitedBy(t.steps) \subseteq DOMAIN Ingest(a, t)
<1> DEFINE n == Len(t.steps)
           id(i) == StateId[t.steps[i].world]
<1>1. n \in Nat
  BY DEF Trajectories, Paths
<1>2. PICK f : /\ f \in [0..n -> Outgrowths(a, P)]
               /\ f[0] = a /\ f[n] = Ingest(a, t)
               /\ \A i \in 1..n : f[i] = Upsert(f[i - 1], id(i), StateForStep(t, i))
  BY IngestTrace
<1> DEFINE S == {i \in 0..n : DOMAIN a \cup {id(j) : j \in 1..i} \subseteq DOMAIN f[i]}
<1> HIDE DEF n, id
<1>3. \A i \in 1..n : DOMAIN f[i] = DOMAIN f[i - 1] \cup {id(i)}
  <2> SUFFICES ASSUME NEW i \in 1..n PROVE DOMAIN f[i] = DOMAIN f[i - 1] \cup {id(i)}
    OBVIOUS
  <2>1. f[i] = Upsert(f[i - 1], id(i), StateForStep(t, i))
    BY <1>2
  <2> QED
    BY <2>1 DEF Upsert
<1>4. 0 \in S
  BY <1>1, <1>2
<1>5. ASSUME NEW i \in 1..n, i - 1 \in S PROVE i \in S
  <2>1. DOMAIN a \cup {id(j) : j \in 1..(i - 1)} \subseteq DOMAIN f[i - 1]
    BY <1>5
  <2>2. \A j \in 1..i : j \in 1..(i - 1) \/ j = i
    BY <1>1
  <2>3. i \in 0..n
    BY <1>1
  <2> QED
    BY <1>3, <2>1, <2>2, <2>3
<1> HIDE DEF S
<1>6. 0..n \subseteq S
  BY <1>1, <1>4, <1>5, IntervalInduct
<1>7. n \in S
  BY <1>1, <1>6
<1>8. DOMAIN a \cup {id(j) : j \in 1..n} \subseteq DOMAIN Ingest(a, t)
  BY <1>2, <1>7 DEF S
<1> QED
  BY <1>8 DEF VisitedBy, n, id

\* The ingestion of a batch archives every state that its trajectories visit.
LEMMA BatchCovers ==
  ASSUME NEW a \in Archives, NEW P, KeptByMerges(P), Holds(a, P), NEW s \in Batches,
         \A i \in 1..Len(s) : StepsHold(s[i], P)
  PROVE  \A k \in 1..Len(s) : VisitedBy(s[k].steps) \subseteq DOMAIN IngestAll(a, s)
<1> DEFINE n == Len(s)
<1>1. n \in Nat /\ \A i \in 1..n : s[i] \in Trajectories
  BY DEF Batches
<1>2. PICK f : /\ f \in [0..n -> Outgrowths(a, P)]
               /\ f[0] = a /\ f[n] = IngestAll(a, s)
               /\ \A i \in 1..n : f[i] = Ingest(f[i - 1], s[i])
  BY BatchTrace
<1> DEFINE S == {i \in 0..n : \A k \in 1..i : VisitedBy(s[k].steps) \subseteq DOMAIN f[i]}
<1>3. ASSUME NEW i \in 1..n
      PROVE  DOMAIN f[i - 1] \cup VisitedBy(s[i].steps) \subseteq DOMAIN f[i]
  <2> DEFINE b == f[i - 1]
             t == s[i]
  <2>1. b \in Outgrowths(a, P)
    BY <1>1, <1>2
  <2>2. b \in Archives /\ Holds(b, P)
    BY <2>1 DEF Outgrowths
  <2>3. t \in Trajectories /\ StepsHold(t, P)
    BY <1>1
  <2>4. f[i] = Ingest(b, t)
    BY <1>2
  <2> HIDE DEF b, t
  <2>5. DOMAIN b \cup VisitedBy(t.steps) \subseteq DOMAIN f[i]
    BY <2>2, <2>3, <2>4, IngestCovers
  <2> QED
    BY <2>5 DEF b, t
<1> HIDE DEF n
<1>4. 0 \in S
  BY <1>1
<1>5. ASSUME NEW i \in 1..n, i - 1 \in S PROVE i \in S
  <2>1. \A k \in 1..(i - 1) : VisitedBy(s[k].steps) \subseteq DOMAIN f[i - 1]
    BY <1>5
  <2>2. \A k \in 1..i : k \in 1..(i - 1) \/ k = i
    BY <1>1
  <2>3. i \in 0..n
    BY <1>1
  <2> QED
    BY <1>3, <2>1, <2>2, <2>3
<1> HIDE DEF S
<1>6. 0..n \subseteq S
  BY <1>1, <1>4, <1>5, IntervalInduct
<1>7. n \in S
  BY <1>1, <1>6
<1> QED
  BY <1>2, <1>7 DEF S, n

\* What the ingestion of the batch makes of the archive.
LEMMA IngestionFacts ==
  ASSUME ArchiveInv, batch \in Batches
  PROVE  LET b == IngestAll(archive, batch)
         IN  /\ b \in Archives /\ Later(archive, b)
             /\ \A k \in 1..Len(batch) : VisitedBy(batch[k].steps) \subseteq DOMAIN b
<1>1. archive \in Archives /\ Holds(archive, Bounded)
  BY DEF ArchiveInv
<1>2. \A i \in 1..Len(batch) : StepsHold(batch[i], Bounded)
  <2> SUFFICES ASSUME NEW i \in 1..Len(batch), NEW k \in 1..Len(batch[i].steps)
               PROVE  <<StateId[batch[i].steps[k].world], StateForStep(batch[i], k)>> \in Bounded
    BY DEF StepsHold
  <2> DEFINE t == batch[i]
  <2>1. t \in Trajectories
    BY DEF Batches
  <2> HIDE DEF t
  <2>2. k \in 1..Len(t.steps)
    BY DEF t
  <2>3. /\ StateId[t.steps[k].world] \in StateIds
        /\ JustArchived(StateForStep(t, k), t.steps[k].replay, NoNative)
    BY <2>1, <2>2, StateForStepTyped
  <2>4. <<StateId[t.steps[k].world], StateForStep(t, k)>> \in Bounded
    BY <2>3, JustArchivedIsBounded
  <2> QED
    BY <2>4 DEF t
<1>3. KeptByMerges(Bounded)
  BY BoundsKeptByMerges
<1> DEFINE P == Bounded
<1>4. KeptByMerges(P) /\ Holds(archive, P) /\ \A i \in 1..Len(batch) : StepsHold(batch[i], P)
  BY <1>1, <1>2, <1>3
<1> HIDE DEF P
<1>5. IngestAll(archive, batch) \in Outgrowths(archive, P)
  BY <1>1, <1>4, BatchOutgrows
<1>6. \A k \in 1..Len(batch) : VisitedBy(batch[k].steps) \subseteq DOMAIN IngestAll(archive, batch)
  BY <1>1, <1>4, BatchCovers
<1> QED
  BY <1>5, <1>6 DEF Outgrowths

\* The archive is brought up to date.
LEMMA UpdateIInv ==
  ASSUME IInv, UpdateArchive
  PROVE  IInv'
<1>1. FrontierInv'
  BY FrontierUnchanged DEF IInv, UpdateArchive
<1>2. /\ phase = "update" /\ ArchiveInv /\ FrontierInv /\ batch \in Batches /\ phase' = "write"
      /\ archive \in Archives /\ InsightTyped(insight) /\ cycle # 0
  BY DEF IInv, ArchiveInv, ControlInv, BranchInv, UpdateArchive
<1> DEFINE ingested == IngestAll(archive, batch)
           refreshed == Refresh(ingested, RetainedTrajectories)
<1>3. ingested \in Archives /\ Later(archive, ingested)
  BY <1>2, IngestionFacts
<1>4. /\ insight' \in (IF AnalysisIsDue THEN Insights(refreshed, RetainedTrajectories, Rank) ELSE {insight})
      /\ archive' = Project(refreshed, insight')
  BY DEF UpdateArchive
<1> HIDE DEF ingested
<1>5. Alters(ingested, refreshed)
  BY <1>2, <1>3, RefreshFacts DEF Supported
<1> HIDE DEF refreshed
<1>6. refreshed \in Archives /\ Later(ingested, refreshed)
  BY <1>5, AlteredIsLater DEF Alters
<1>7. InsightTyped(insight')
  BY <1>2, <1>4, <1>6, InsightsTyped
<1> DEFINE named == insight'
<1>8. InsightTyped(named) /\ archive' = Project(refreshed, named)
  BY <1>4, <1>7
<1> HIDE DEF named
<1>9. /\ Alters(refreshed, archive')
      /\ \A s \in DOMAIN refreshed : IsBounded(archive'[s])
  BY <1>6, <1>8, ProjectFacts
<1>10. archive' \in Archives /\ Later(refreshed, archive')
  BY <1>9, AlteredIsLater DEF Alters
<1>11. Holds(archive', Bounded)
  <2>1. DOMAIN archive' = DOMAIN refreshed
    BY <1>9 DEF Alters
  <2>2. \A s \in DOMAIN archive' : s \in StateIds /\ archive'[s] \in ArchivedStates
    BY <1>10, ArchiveFacts
  <2> QED
    BY <1>9, <2>1, <2>2 DEF Holds, Bounded
<1>12. Later(disk.states, archive')
  <2>1. disk.states \in Archives /\ Later(disk.states, archive)
    BY <1>2 DEF ArchiveInv
  <2>2. Later(disk.states, ingested)
    BY <1>2, <1>3, <2>1, LaterIsAnOrder
  <2>3. Later(disk.states, refreshed)
    BY <1>3, <1>6, <2>1, <2>2, LaterIsAnOrder
  <2> QED
    BY <1>6, <1>10, <2>1, <2>3, LaterIsAnOrder
<1>13. ControlInv'
  BY <1>2 DEF IInv, ControlInv, UpdateArchive
<1>14. ArchiveInv'
  BY <1>2, <1>7, <1>10, <1>11, <1>12 DEF ArchiveInv, UpdateArchive, diskVars
<1>15. BranchInv'
  BY <1>2 DEF IInv, BranchInv, BranchesTyped, UpdateArchive
<1>16. BestInv'
  BY DEF IInv, BestInv, UpdateArchive, frontierVars
<1>17. BudgetInv'
  BY <1>2 DEF IInv, BudgetInv, UpdateArchive
<1> QED
  BY <1>1, <1>13, <1>14, <1>15, <1>16, <1>17 DEF IInv

\* What a write puts on disk is an archive that keeps the bounds and the counters.
LEMMA OnDiskKeeps ==
  ASSUME NEW a \in Archives, Holds(a, Bounded)
  PROVE  /\ OnDisk(a) \in Archives /\ DOMAIN OnDisk(a) = DOMAIN a
         /\ Holds(OnDisk(a), Bounded) /\ Later(a, OnDisk(a)) /\ Later(OnDisk(a), a)
<1> DEFINE b == OnDisk(a)
<1>1. /\ b \in Archives /\ DOMAIN b = DOMAIN a
      /\ \A s \in DOMAIN a : Written(a[s], b[s])
  BY OnDiskFacts
<1> HIDE DEF b
<1>2. \A s \in DOMAIN a : /\ s \in StateIds /\ a[s] \in ArchivedStates /\ b[s] \in ArchivedStates
                          /\ a[s].selections \in Nat /\ a[s].visits \in Nat
  BY <1>1, ArchiveFacts DEF ArchivedStates
<1>3. Later(a, b) /\ Later(b, a)
  BY <1>1, <1>2 DEF Later, Written
<1>4. Holds(b, Bounded)
  <2> SUFFICES ASSUME NEW s \in DOMAIN b PROVE <<s, b[s]>> \in Bounded
    BY DEF Holds
  <2>1. <<s, a[s]>> \in Bounded /\ s \in DOMAIN a
    BY <1>1 DEF Holds
  <2>2. IsBounded(a[s])
    BY <2>1 DEF Bounded
  <2>3. IsBounded(b[s])
    BY <1>1, <2>1, <2>2 DEF IsBounded, Written
  <2> QED
    BY <1>2, <2>1, <2>3 DEF Bounded
<1> QED
  BY <1>1, <1>3, <1>4 DEF b

\* The snapshot is written.
LEMMA WriteIInv ==
  ASSUME IInv, WriteSnapshot
  PROVE  IInv' /\ Later(disk.states, disk'.states)
<1>1. FrontierInv'
  BY FrontierUnchanged DEF IInv, WriteSnapshot
<1>2. /\ phase = "write" /\ archive \in Archives /\ Holds(archive, Bounded)
      /\ disk.states \in Archives /\ Later(disk.states, archive)
      /\ disk'.states = OnDisk(archive) /\ archive' = archive /\ insight' = insight
      /\ written' = written \cup DOMAIN archive /\ torn' = torn
      /\ InsightTyped(insight)
      /\ ~torn => written \subseteq DOMAIN disk.states
  BY DEF IInv, ArchiveInv, WriteSnapshot
<1> DEFINE b == OnDisk(archive)
<1>3. /\ b \in Archives /\ DOMAIN b = DOMAIN archive
      /\ Holds(b, Bounded) /\ Later(archive, b) /\ Later(b, archive)
  BY <1>2, OnDiskKeeps
<1>4. disk'.states = b
  BY <1>2
<1> HIDE DEF b
<1>5. Later(disk.states, disk'.states)
  BY <1>2, <1>3, <1>4, LaterIsAnOrder
<1>6. ArchiveInv'
  <2>1. DOMAIN disk.states \subseteq DOMAIN archive
    BY <1>2 DEF Later
  <2> QED
    BY <1>2, <1>3, <1>4, <2>1 DEF ArchiveInv
<1>7. NoBase \in Nodes(GameTexts)
  BY NoBaseTyped
<1>8. ControlInv'
  BY <1>2, <1>7 DEF IInv, ControlInv, WriteSnapshot
<1>9. BranchInv'
  <2>1. BranchesPerRoot \in Nat
    BY EpisodeAssumption DEF EpisodeAssumption
  <2>2. /\ phase' # "insert" /\ branches' = << >> /\ batch' = << >> /\ inserted' = 0
    BY DEF WriteSnapshot
  <2>3. << >> \in Seq(Seq(StepRecords)) /\ << >> \in Seq(Trajectories) /\ Len(<< >>) = 0
    OBVIOUS
  <2> QED
    BY <2>1, <2>2, <2>3 DEF BranchInv, BranchesTyped, Batches
<1>10. BestInv'
  BY DEF IInv, BestInv, WriteSnapshot, frontierVars
<1>11. BudgetInv'
  BY <1>2 DEF IInv, BudgetInv, WriteSnapshot
<1> QED
  BY <1>1, <1>5, <1>6, <1>8, <1>9, <1>10, <1>11 DEF IInv

\* The process dies while it writes.
LEMMA CrashWhileWritingIInv ==
  ASSUME IInv, CrashWhileWriting
  PROVE  IInv' /\ \A s \in DOMAIN disk.states \cap DOMAIN disk'.states :
                    /\ disk'.states[s].selections >= disk.states[s].selections
                    /\ disk'.states[s].visits >= disk.states[s].visits
<1>1. PICK kept \in SUBSET DOMAIN archive : disk'.states = OnDisk(Restrict(archive, kept))
  BY DEF CrashWhileWriting
<1>2. Forget /\ torn' = TRUE /\ run' = run
  BY DEF CrashWhileWriting
<1>3. /\ archive \in Archives /\ Holds(archive, Bounded)
      /\ disk.states \in Archives /\ Later(disk.states, archive) /\ ControlInv
  BY DEF IInv, ArchiveInv, CrashWhileWriting
<1> DEFINE part == Restrict(archive, kept)
           b == OnDisk(part)
<1>4. /\ part \in Archives /\ DOMAIN part = kept /\ \A s \in kept : part[s] = archive[s]
  BY <1>3, PartOfAnArchive
<1>5. disk'.states = b
  BY <1>1
<1> HIDE DEF part
<1>6. Holds(part, Bounded)
  BY <1>3, <1>4 DEF Holds
<1>7. b \in Archives /\ DOMAIN b = kept /\ Holds(b, Bounded) /\ Later(part, b)
  BY <1>4, <1>6, OnDiskKeeps
<1> HIDE DEF b
<1>8. ArchiveInv'
  BY <1>2, <1>5, <1>7, ForgetArchive
<1>9. ControlInv'
  BY <1>2, <1>3, ForgetControl
<1>10. FrontierInv' /\ BranchInv' /\ BestInv' /\ BudgetInv'
  BY <1>2, ForgetIsInOrder
<1>11. ASSUME NEW s \in DOMAIN disk.states \cap DOMAIN disk'.states
       PROVE  /\ disk'.states[s].selections >= disk.states[s].selections
              /\ disk'.states[s].visits >= disk.states[s].visits
  <2> DEFINE old == disk.states
  <2>1. s \in DOMAIN old /\ s \in kept /\ old \in Archives /\ s \in DOMAIN archive
    BY <1>3, <1>5, <1>7
  <2>2. Later(old, archive)
    BY <1>3
  <2> HIDE DEF old
  <2>3. /\ old[s] \in ArchivedStates /\ archive[s] \in ArchivedStates /\ b[s] \in ArchivedStates
    BY <1>3, <1>7, <2>1, ArchiveFacts
  <2>4. /\ old[s].selections \in Nat /\ archive[s].selections \in Nat /\ b[s].selections \in Nat
        /\ old[s].visits \in Nat /\ archive[s].visits \in Nat /\ b[s].visits \in Nat
    BY <2>3 DEF ArchivedStates
  <2>5. archive[s].selections >= old[s].selections /\ archive[s].visits >= old[s].visits
    BY <2>1, <2>2 DEF Later
  <2>6. b[s].selections >= archive[s].selections /\ b[s].visits >= archive[s].visits
    BY <1>4, <1>7, <2>1 DEF Later
  <2>7. b[s].selections >= old[s].selections /\ b[s].visits >= old[s].visits
    BY <2>4, <2>5, <2>6
  <2> QED
    BY <1>5, <2>7 DEF old
<1> QED
  BY <1>8, <1>9, <1>10, <1>11 DEF IInv

\* The episode is dropped and the disk is left alone.
LEMMA DropIInv ==
  ASSUME IInv, Forget, UNCHANGED <<run, diskVars>>
  PROVE  IInv'
<1>1. ArchiveInv'
  BY ForgetArchive DEF IInv, ArchiveInv, diskVars
<1>2. ControlInv'
  BY ForgetControl DEF IInv
<1>3. FrontierInv' /\ BranchInv' /\ BestInv' /\ BudgetInv'
  BY ForgetIsInOrder
<1> QED
  BY <1>1, <1>2, <1>3 DEF IInv

\* The budget is spent.
LEMMA BudgetSpentIInv ==
  ASSUME IInv, BudgetSpent
  PROVE  IInv'
<1>1. FrontierInv'
  BY FrontierUnchanged DEF IInv, BudgetSpent, episodeVars
<1> USE DEF IInv, BudgetSpent, episodeVars, frontierVars, diskVars
<1>2. ControlInv'
  BY DEF ControlInv
<1>3. ArchiveInv'
  BY DEF ArchiveInv
<1>4. BranchInv'
  BY DEF BranchInv, BranchesTyped
<1>5. BestInv'
  BY DEF BestInv
<1>6. BudgetInv'
  <2>1. MaxSteps \in Nat /\ MaxReplayAttempts \in Nat
    BY EpisodeAssumption DEF EpisodeAssumption
  <2> QED
    BY <2>1 DEF BudgetInv
<1> QED
  BY <1>1, <1>2, <1>3, <1>4, <1>5, <1>6

\* Nothing happens.
LEMMA StutterIInv ==
  ASSUME IInv, UNCHANGED vars
  PROVE  IInv'
<1>1. FrontierInv'
  BY FrontierUnchanged DEF IInv, vars, episodeVars
<1> USE DEF IInv, vars, episodeVars, frontierVars, diskVars
<1>2. ControlInv'
  BY DEF ControlInv
<1>3. ArchiveInv'
  BY DEF ArchiveInv
<1>4. BranchInv'
  BY DEF BranchInv, BranchesTyped
<1>5. BestInv'
  BY DEF BestInv
<1>6. BudgetInv'
  BY DEF BudgetInv, BranchCount, BranchHorizon, Remaining
<1> QED
  BY <1>1, <1>2, <1>3, <1>4, <1>5, <1>6

\* Every step keeps the invariant.
LEMMA NextIInv ==
  ASSUME IInv, [Next]_vars
  PROVE  IInv'
<1>1. CASE LoadFails
  BY <1>1, LoadFailsIInv
<1>2. CASE StartEpisode
  BY <1>2, StartIInv
<1>3. CASE Proceed
  <2>1. CASE \E s \in Selectable(archive, insight) : RestoreFails(s) \/ RestoreSucceeds(s)
    <3>1. PICK s \in Selectable(archive, insight) : RestoreFails(s) \/ RestoreSucceeds(s)
      BY <2>1
    <3>2. s \in DOMAIN archive
      BY <3>1 DEF Selectable
    <3> QED
      BY <3>1, <3>2, RestoreFailsIInv, RestoreSucceedsIInv
  <2>2. CASE ExploreBranch
    BY <2>2, ExploreIInv
  <2>3. CASE FinishExploration
    BY <2>3, FinishIInv
  <2>4. CASE InsertTrajectory
    BY <2>4, InsertIInv
  <2>5. CASE UpdateArchive
    BY <2>5, UpdateIInv
  <2>6. CASE WriteSnapshot
    BY <2>6, WriteIInv
  <2>7. CASE BudgetSpent
    BY <2>7, BudgetSpentIInv
  <2>8. CASE Close
    BY <2>8, DropIInv DEF Close
  <2> QED
    BY <1>3, <2>1, <2>2, <2>3, <2>4, <2>5, <2>6, <2>7, <2>8 DEF Proceed
<1>4. CASE Crash
  BY <1>4, DropIInv DEF Crash
<1>5. CASE CrashWhileWriting
  BY <1>5, CrashWhileWritingIInv
<1>6. CASE UNCHANGED vars
  BY <1>6, StutterIInv
<1> QED
  BY <1>1, <1>2, <1>3, <1>4, <1>5, <1>6 DEF Next

\* The invariant of the loop always holds.
LEMMA LoopInvariant == Spec => []IInv
<1>1. IInv /\ [Next]_vars => IInv'
  BY NextIInv
<1> QED
  BY <1>1, InitIInv, PTL DEF Spec

-----------------------------------------------------------------------------
(* What the archive says of the frontier. *)

\* Every state of a retained trajectory is archived, supported by it and worth what it
\* reached; no other trajectory supports a state, and nothing is worth more than the
\* best of them.
Agrees(a) ==
  /\ \A s \in DOMAIN a : a[s].support \subseteq DOMAIN paths /\ a[s].achieved \in 0..Top
  /\ \A id \in DOMAIN paths : \A i \in 1..Len(paths[id]) :
       LET s == StateId[paths[id][i].world]
       IN  s \in DOMAIN a /\ id \in a[s].support /\ a[s].achieved >= Cumulative(paths[id], i)

\* Nothing is promised that no retained trajectory reached.
Modest(a) == \A s \in DOMAIN a : a[s].projected = NoValue \/ a[s].projected =< Top

\* A path is known when the archive has its states, or when the trajectory is one of
\* the batch that will be ingested.
Known(steps) ==
  \/ VisitedBy(steps) \subseteq DOMAIN archive
  \/ \E k \in 1..inserted : steps = batch[k].steps

AgreeInv ==
  /\ phase = "idle" => entries = {}
  /\ AnalysisAnswers = {} => Within(insight, Top)
  /\ Refreshed => Agrees(archive)
  /\ Refreshed /\ AnalysisAnswers = {} => Modest(archive)
  /\ phase \in {"insert", "update"} => \A id \in DOMAIN paths : Known(paths[id])

\* What agrees with the frontier is known.
LEMMA AgreementIsKnowledge ==
  ASSUME FrontierInv, entries # {} => Agrees(archive), NEW id \in DOMAIN paths
  PROVE  VisitedBy(paths[id]) \subseteq DOMAIN archive
<1>1. entries # {}
  BY FrontierFacts DEF FrontierInv
<1> QED
  BY <1>1 DEF Agrees, VisitedBy

\* A step that leaves the frontier, the insight and the values alone keeps the agreement.
LEMMA AgreementIsKept ==
  ASSUME IInv, AgreeInv, SameValues(archive, archive'), UNCHANGED <<frontierVars, paths, insight>>,
         phase \in {"write", "select", "explore"},
         phase' \in {"write", "select", "explore", "insert", "close"}
  PROVE  AgreeInv'
<1>1. /\ entries' = entries /\ paths' = paths /\ insight' = insight /\ Top' = Top
      /\ FrontierInv
  BY FrontierUnchanged DEF IInv, frontierVars
<1>2. ASSUME entries # {} PROVE Agrees(archive)' /\ (AnalysisAnswers = {} => Modest(archive)')
  <2>1. Agrees(archive) /\ (AnalysisAnswers = {} => Modest(archive))
    BY <1>2 DEF AgreeInv, Refreshed
  <2>2. Agrees(archive)'
    BY <1>1, <2>1 DEF Agrees, SameValues
  <2>3. Modest(archive) => Modest(archive)'
    BY <1>1 DEF Modest, SameValues
  <2> QED
    BY <2>1, <2>2, <2>3
<1>3. ASSUME NEW id \in DOMAIN paths' PROVE Known(paths[id])'
  <2>1. id \in DOMAIN paths /\ (entries # {} => Agrees(archive))
    BY <1>1 DEF AgreeInv, Refreshed
  <2>2. VisitedBy(paths[id]) \subseteq DOMAIN archive
    BY <1>1, <2>1, AgreementIsKnowledge
  <2> QED
    BY <1>1, <2>2 DEF Known, VisitedBy, SameValues
<1>4. Within(insight, Top) => Within(insight', Top')
  BY <1>1
<1> QED
  BY <1>1, <1>2, <1>3, <1>4 DEF AgreeInv, Refreshed

\* A dropped episode leaves nothing to agree on.
LEMMA ForgetAgrees ==
  ASSUME Forget
  PROVE  AgreeInv'
BY DEF Forget, AgreeInv, Refreshed, Within, NoInsight

\* The best value of a frontier in order, in one formula.
TopIsBest ==
  /\ Top \in Nat /\ \A e \in entries : e.value \in Int /\ e.value =< Top
  /\ Top = 0 \/ \E e \in entries : e.value = Top

\* It holds of the next frontier too.
LEMMA FrontierHasATop == FP!IInv => TopIsBest
BY TopFacts, FrontierFacts DEF TopIsBest

\* A trajectory is put into the frontier.
LEMMA InsertAgrees ==
  ASSUME IInv, AgreeInv, InsertTrajectory
  PROVE  AgreeInv'
<1> DEFINE t == batch[inserted + 1]
           value == TrajectoryValue(t.steps)
<1>1. /\ inserted + 1 \in 1..Len(batch) /\ inserted \in 0..Len(batch)
      /\ value \in Int /\ FP!IInv'
      /\ DOMAIN trajectories' \subseteq DOMAIN trajectories \cup {t.id}
      /\ \A y \in entries : \E x \in entries' : x.value >= y.value
      /\ paths' = [id \in DOMAIN trajectories' |-> paths'[id]]
      /\ \A id \in DOMAIN trajectories' : paths'[id] = IF id = t.id THEN t.steps ELSE paths[id]
  BY InsertionFacts
<1>2. /\ phase = "insert" /\ phase' \in {"insert", "update"} /\ batch' = batch
      /\ inserted' = inserted + 1 /\ archive' = archive /\ insight' = insight
  BY DEF InsertTrajectory
<1>3. FrontierInv /\ FP!IInv /\ DOMAIN paths = DOMAIN trajectories
  BY DEF IInv, FrontierInv
<1>4. Top \in Nat /\ Top' \in Nat /\ Top' >= Top
  <2>1. TopIsBest
    BY <1>3, FrontierHasATop
  <2>2. FP!IInv' => TopIsBest'
    BY FrontierHasATop, PTL
  <2>3. TopIsBest'
    BY <1>1, <2>2
  <2>4. /\ Top \in Nat /\ (Top = 0 \/ \E e \in entries : e.value = Top)
        /\ Top' \in Nat /\ \A e \in entries' : e.value \in Int /\ e.value =< Top'
    BY <2>1, <2>3 DEF TopIsBest
  <2>5. CASE Top = 0
    BY <2>4, <2>5
  <2>6. CASE Top # 0
    <3>1. PICK y \in entries : y.value = Top
      BY <2>4, <2>6
    <3>2. PICK x \in entries' : x.value >= y.value
      BY <1>1, <3>1
    <3>3. x.value \in Int /\ x.value =< Top' /\ Top \in Nat /\ Top' \in Nat
      BY <2>4, <3>2
    <3> QED
      BY <3>1, <3>2, <3>3
  <2> QED
    BY <2>5, <2>6
<1>5. AnalysisAnswers = {} => Within(insight', Top')
  <2> SUFFICES ASSUME AnalysisAnswers = {}, NEW note \in insight PROVE note.potential =< Top'
    BY <1>2 DEF Within
  <2>1. note.potential =< Top
    BY DEF AgreeInv, Within
  <2>2. note.potential \in Int
    BY DEF IInv, ArchiveInv, InsightTyped
  <2> QED
    BY <1>4, <2>1, <2>2
<1>6. ASSUME NEW id \in DOMAIN paths' PROVE Known(paths[id])'
  <2>1. id \in DOMAIN trajectories'
    BY <1>1
  <2>2. CASE id = t.id
    <3>1. paths'[id] = t.steps
      BY <1>1, <2>1, <2>2
    <3>2. inserted + 1 \in 1..inserted'
      BY <1>1, <1>2
    <3>3. \E k \in 1..inserted' : paths'[id] = batch'[k].steps
      BY <1>2, <3>1, <3>2
    <3> QED
      BY <3>3 DEF Known
  <2>3. CASE id # t.id
    <3> HIDE DEF t
    <3>1. paths'[id] = paths[id] /\ id \in DOMAIN paths
      BY <1>1, <1>3, <2>1, <2>3
    <3>2. Known(paths[id])
      BY <1>2, <3>1 DEF AgreeInv
    <3>3. \A k \in 1..inserted : k \in 1..inserted'
      BY <1>1, <1>2
    <3> QED
      BY <1>2, <3>1, <3>2, <3>3 DEF Known, VisitedBy
  <2> QED
    BY <2>2, <2>3
<1> QED
  BY <1>2, <1>5, <1>6 DEF AgreeInv, Refreshed

\* The archive is brought up to date.
LEMMA UpdateAgrees ==
  ASSUME IInv, AgreeInv, UpdateArchive
  PROVE  AgreeInv'
<1>1. /\ phase = "update" /\ ArchiveInv /\ FrontierInv /\ batch \in Batches /\ phase' = "write"
      /\ archive \in Archives /\ InsightTyped(insight)
      /\ inserted \in 0..Len(batch) /\ FP!IInv
  BY DEF IInv, ArchiveInv, BranchInv, FrontierInv, UpdateArchive
<1>2. /\ entries' = entries /\ paths' = paths /\ Top' = Top
  BY FrontierUnchanged DEF IInv, UpdateArchive, frontierVars
<1> DEFINE ingested == IngestAll(archive, batch)
           refreshed == Refresh(ingested, RetainedTrajectories)
           named == insight'
<1>3. /\ ingested \in Archives /\ Later(archive, ingested)
      /\ \A k \in 1..Len(batch) : VisitedBy(batch[k].steps) \subseteq DOMAIN ingested
  BY <1>1, IngestionFacts
<1>4. /\ named \in (IF AnalysisIsDue THEN Insights(refreshed, RetainedTrajectories, Rank) ELSE {insight})
      /\ archive' = Project(refreshed, named)
  BY DEF UpdateArchive
<1> HIDE DEF ingested
<1>5. Supported(ingested, refreshed)
  BY <1>1, <1>3, RefreshFacts
<1> HIDE DEF refreshed
<1>6. refreshed \in Archives /\ DOMAIN refreshed = DOMAIN ingested
      /\ \A s \in DOMAIN refreshed : refreshed[s].achieved \in 0..Top
  BY <1>5 DEF Supported, Alters
<1>7. Top \in Nat
  BY <1>1, TopFacts
<1>8. /\ InsightTyped(named)
      /\ AnalysisAnswers = {} => Within(named, Top)
  <2>1. CASE AnalysisIsDue
    <3>1. named \in Insights(refreshed, RetainedTrajectories, Rank)
      BY <1>4, <2>1
    <3>2. \A s \in DOMAIN refreshed : refreshed[s].achieved =< Top
      BY <1>6, <1>7
    <3> HIDE DEF named
    <3> QED
      BY <1>1, <1>6, <3>1, <3>2, InsightsTyped
  <2>2. CASE ~AnalysisIsDue
    <3>1. named = insight
      BY <1>4, <2>2
    <3> HIDE DEF named
    <3> QED
      BY <1>1, <3>1 DEF AgreeInv
  <2> QED
    BY <2>1, <2>2
<1>9. ASSUME NEW id \in DOMAIN paths PROVE VisitedBy(paths[id]) \subseteq DOMAIN ingested
  <2>1. Known(paths[id])
    BY <1>1 DEF AgreeInv
  <2>2. \A k \in 1..inserted : k \in 1..Len(batch)
    BY <1>1 DEF Batches
  <2> QED
    BY <1>3, <2>1, <2>2 DEF Known, Later
<1> DEFINE b == Project(refreshed, named)
<1> HIDE DEF named
<1>10. /\ DOMAIN b = DOMAIN refreshed
       /\ \A s \in DOMAIN refreshed :
            /\ b[s].achieved = refreshed[s].achieved /\ b[s].support = refreshed[s].support
            /\ \A bound \in Int : Within(named, bound) /\ refreshed[s].achieved =< bound
                                    => b[s].projected = NoValue \/ b[s].projected =< bound
  BY <1>6, <1>8, ProjectFacts DEF Alters
<1> HIDE DEF b
<1>11. archive' = b
  BY <1>4 DEF b
<1>12. Agrees(b)
  <2>1. ASSUME NEW s \in DOMAIN b
        PROVE  b[s].support \subseteq DOMAIN paths /\ b[s].achieved \in 0..Top
    BY <1>5, <1>6, <1>10 DEF Supported, Alters
  <2>2. ASSUME NEW id \in DOMAIN paths, NEW i \in 1..Len(paths[id])
        PROVE  LET s == StateId[paths[id][i].world]
               IN  s \in DOMAIN b /\ id \in b[s].support /\ b[s].achieved >= Cumulative(paths[id], i)
    <3> DEFINE s == StateId[paths[id][i].world]
               p == paths[id]
    <3>1. p \in Paths
      BY <1>1, TopBoundsTheRetained
    <3>2. i \in Nat \ {0} /\ i =< Len(p)
      BY <3>1 DEF Paths
    <3>3. s \in DOMAIN ingested
      BY <1>9 DEF VisitedBy
    <3>4. id \in refreshed[s].support /\ refreshed[s].achieved >= Cumulative(paths[id], i)
      BY <1>5, <3>2, <3>3 DEF Supported
    <3> QED
      BY <1>6, <1>10, <3>3, <3>4
  <2> QED
    BY <2>1, <2>2 DEF Agrees
<1>13. AnalysisAnswers = {} => Modest(b)
  <2> SUFFICES ASSUME AnalysisAnswers = {}, NEW s \in DOMAIN b
               PROVE  b[s].projected = NoValue \/ b[s].projected =< Top
    BY DEF Modest
  <2>1. Within(named, Top)
    BY <1>8
  <2>2. s \in DOMAIN refreshed /\ refreshed[s].achieved =< Top /\ Top \in Int
    BY <1>6, <1>7, <1>10
  <2> QED
    BY <1>10, <2>1, <2>2
<1>14. Agrees(archive)' /\ (AnalysisAnswers = {} => Modest(archive)')
  <2>1. Agrees(archive)'
    BY <1>2, <1>11, <1>12 DEF Agrees
  <2>2. Modest(b) => Modest(archive)'
    BY <1>2, <1>11 DEF Modest
  <2> QED
    BY <1>13, <2>1, <2>2
<1>15. AnalysisAnswers = {} => Within(insight', Top')
  BY <1>2, <1>8 DEF named
<1> QED
  BY <1>1, <1>14, <1>15 DEF AgreeInv

\* Every step keeps the agreement.
LEMMA NextAgrees ==
  ASSUME IInv, AgreeInv, [Next]_vars
  PROVE  AgreeInv'
<1>1. CASE LoadFails \/ UNCHANGED vars
  <2>1. /\ phase' = phase /\ inserted' = inserted /\ batch' = batch /\ archive' = archive
        /\ insight' = insight /\ entries' = entries /\ paths' = paths
    BY <1>1 DEF LoadFails, vars, episodeVars, frontierVars
  <2> QED
    BY <2>1 DEF AgreeInv, Refreshed, Agrees, Modest, Known, Top
<1>2. CASE StartEpisode
  <2>1. /\ phase' = "write" /\ entries' = {} /\ insight' = insight /\ Top' = Top
    BY <1>2 DEF StartEpisode, AgreeInv, frontierVars, Top
  <2> QED
    BY <2>1 DEF AgreeInv, Refreshed
<1>3. ASSUME NEW s \in Selectable(archive, insight), RestoreFails(s) \/ RestoreSucceeds(s)
      PROVE  AgreeInv'
  <2>1. s \in DOMAIN archive
    BY DEF Selectable
  <2>2. PICK success \in BOOLEAN : archive' = NoteRestore(archive, s, success)
    BY <1>3 DEF RestoreFails, RestoreSucceeds
  <2>3. archive \in Archives
    BY DEF IInv, ArchiveInv
  <2>4. SameValues(archive, archive')
    BY <2>1, <2>2, <2>3, NoteRestoreAlters
  <2>5. /\ phase = "select" /\ phase' \in {"select", "explore", "close"}
        /\ UNCHANGED <<frontierVars, paths, insight>>
    BY <1>3 DEF RestoreFails, RestoreSucceeds, Loop
  <2> QED
    BY <2>4, <2>5, AgreementIsKept
<1>4. CASE ExploreBranch \/ WriteSnapshot \/ BudgetSpent
  <2>1. /\ SameValues(archive, archive') /\ UNCHANGED <<frontierVars, paths, insight>>
        /\ phase \in {"write", "select", "explore"}
        /\ phase' \in {"write", "select", "explore", "insert", "close"}
    BY <1>4 DEF ExploreBranch, WriteSnapshot, BudgetSpent, SameValues, episodeVars
  <2> QED
    BY <2>1, AgreementIsKept
<1>5. CASE FinishExploration
  <2>1. archive \in Archives /\ selected \in DOMAIN archive
    BY <1>5 DEF IInv, ArchiveInv, ControlInv, FinishExploration
  <2>2. PICK j \in Judgements, level \in SaturationLevels :
          archive' = NoteRevisit(archive, selected, j.achieved, j.exploratory, level)
    BY <1>5 DEF FinishExploration
  <2> DEFINE achieved == j.achieved
             exploratory == j.exploratory
  <2>3. achieved \in BOOLEAN /\ exploratory \in BOOLEAN /\ level \in Nat
    BY <2>2, EpisodeAssumption DEF Judgements, EpisodeAssumption
  <2>4. archive' = NoteRevisit(archive, selected, achieved, exploratory, level)
    BY <2>2
  <2> HIDE DEF achieved, exploratory
  <2>5. SameValues(archive, archive')
    BY <2>1, <2>3, <2>4, NoteRevisitAlters
  <2>6. /\ phase = "explore" /\ phase' \in {"close", "insert"}
        /\ UNCHANGED <<frontierVars, paths, insight>>
    BY <1>5 DEF FinishExploration
  <2> QED
    BY <2>5, <2>6, AgreementIsKept
<1>6. CASE InsertTrajectory
  BY <1>6, InsertAgrees
<1>7. CASE UpdateArchive
  BY <1>7, UpdateAgrees
<1>8. CASE Close \/ Crash \/ CrashWhileWriting
  BY <1>8, ForgetAgrees DEF Close, Crash, CrashWhileWriting
<1> QED
  BY <1>1, <1>2, <1>3, <1>4, <1>5, <1>6, <1>7, <1>8 DEF Next, Proceed

\* Archive and frontier always agree.
LEMMA AgreementInvariant == Spec => []AgreeInv
<1>1. Init => AgreeInv
  BY DEF Init, AgreeInv, Refreshed, Within, NoInsight
<1>2. IInv /\ AgreeInv /\ [Next]_vars => AgreeInv'
  BY NextAgrees
<1> QED
  BY <1>1, <1>2, LoopInvariant, PTL DEF Spec

-----------------------------------------------------------------------------
(* Where the replays lead. *)

\* Where machine states are put back as they were saved, those of one state id stay
\* alike: the actions of an entry and its snapshot may be of two of them.
IdsFollowMoves ==
  NativeSnapshots =>
    \A v \in Worlds, w \in Worlds, a \in Actions :
      StateId[v] = StateId[w] => StateId[Move[<<v, a>>]] = StateId[Move[<<w, a>>]]

\* Alike: one state id where native snapshots are used, one machine state elsewhere.
Like(v, w) == IF NativeSnapshots THEN StateId[v] = StateId[w] ELSE v = w

\* The actions lead from a state that a reset can produce to one that is like w.
CanReach(actions, w) == \E start \in Starts : Like(Play(start, actions), w)

\* The actions of an archived state lead to the state, and its native snapshot is one
\* of it.
Reaching ==
  {x \in StateIds \X ArchivedStates :
     /\ CanLeadTo(x[2].replay, x[1])
     /\ x[2].native # NoNative => NativeSnapshots /\ StateId[x[2].native] = x[1]}

\* What a step recorded leads to what it recorded.
Leads(steps) ==
  \A i \in 1..Len(steps) : CanReach(steps[i].replay, steps[i].world)

\* The node of the root: its actions and its snapshot are alike.
SoundBase ==
  base.native # NoNative => NativeSnapshots /\ CanReach(base.prefix, base.native)

RunInv ==
  /\ Holds(archive, Reaching) /\ Holds(disk.states, Reaching)
  /\ SoundBase
  /\ \A b \in DOMAIN branches : Leads(branches[b])
  /\ \A k \in 1..Len(batch) : Leads(batch[k].steps)
  /\ \A id \in DOMAIN paths : Leads(paths[id])

\* Machine states that are alike stay alike.
LEMMA LikePlays ==
  ASSUME IdsFollowMoves, NEW v \in Worlds, NEW w \in Worlds, Like(v, w), NEW s \in Seq(Actions)
  PROVE  Like(Play(v, s), Play(w, s))
<1> DEFINE Q == {u \in Seq(Actions) : Like(Play(v, u), Play(w, u))}
<1>1. << >> \in Q
  <2>1. Play(v, << >>) = v /\ Play(w, << >>) = w
    BY PlayNothing
  <2> QED
    BY <2>1
<1>2. ASSUME NEW u \in Seq(Actions), u \in Q, NEW a \in Actions PROVE Append(u, a) \in Q
  <2> DEFINE x == Play(v, u)
             y == Play(w, u)
  <2>1. x \in Worlds /\ y \in Worlds /\ Like(x, y)
    BY <1>2, PlayTyped
  <2>2. Play(v, Append(u, a)) = Move[<<x, a>>] /\ Play(w, Append(u, a)) = Move[<<y, a>>]
    BY PlayAppend
  <2> HIDE DEF x, y
  <2>3. Like(Move[<<x, a>>], Move[<<y, a>>])
    BY <2>1 DEF Like, IdsFollowMoves
  <2> QED
    BY <2>2, <2>3
<1> HIDE DEF Q
<1>3. Seq(Actions) \subseteq Q
  BY <1>1, <1>2, SeqInduct
<1> QED
  BY <1>3 DEF Q

\* A wrapper whose history leads to a machine state like its own.
OnTheRun(e) == CanReach(e.history, e.world)

\* The steps recorded of a rollout from such a wrapper.
LEMMA RolloutLeads ==
  ASSUME IdsFollowMoves, NEW e \in Wrappers(GameTexts), OnTheRun(e), NEW actions \in Seq(Actions)
  PROVE  Leads(StepsOf(e, actions))
<1>0. PICK start \in Starts : Like(Play(start, e.history), e.world)
  BY DEF OnTheRun, CanReach
<1>1. /\ start \in Worlds /\ e.world \in Worlds /\ e.history \in Seq(Actions)
      /\ Len(actions) \in Nat
  BY GameAssumption DEF GameAssumption, Wrappers
<1> DEFINE steps == StepsOf(e, actions)
<1> SUFFICES ASSUME NEW i \in 1..Len(steps)
             PROVE  Like(Play(start, steps[i].replay), steps[i].world)
  BY DEF Leads, CanReach
<1> DEFINE before == SubSeq(actions, 1, i - 1)
           sub == SubSeq(actions, 1, i)
           x == Play(e.world, before)
<1>2. i \in 1..Len(actions)
  BY StepsOfTyped
<1>3. /\ steps[i].world = Move[<<x, actions[i]>>]
      /\ steps[i].replay = e.history \o sub
  BY <1>2, StepsOfTyped
<1> HIDE DEF steps
<1>4. /\ before \in Seq(Actions) /\ sub \in Seq(Actions) /\ actions[i] \in Actions
      /\ sub = Append(before, actions[i])
  <2>1. before \in Seq(Actions) /\ sub \in Seq(Actions) /\ actions[i] \in Actions
    BY <1>1, <1>2
  <2>2. sub = Append(before, actions[i])
    BY <1>1, <1>2
  <2> QED
    BY <2>1, <2>2
<1> HIDE DEF before, sub
<1>5. Play(e.world, sub) = Move[<<x, actions[i]>>]
  BY <1>1, <1>4, PlayAppend
<1>6. Play(start, e.history \o sub) = Play(Play(start, e.history), sub)
  BY <1>1, <1>4, PlayConcat
<1>7. Play(start, e.history) \in Worlds
  BY <1>1, PlayTyped
<1>8. Like(Play(Play(start, e.history), sub), Play(e.world, sub))
  BY <1>0, <1>1, <1>4, <1>7, LikePlays
<1> QED
  BY <1>3, <1>5, <1>6, <1>8

\* Merging two entries that reach the state.
LEMMA ReachingKeptByMerges == KeptByMerges(Reaching)
<1> SUFFICES ASSUME NEW s \in StateIds, NEW old \in ArchivedStates, NEW new \in ArchivedStates,
                    <<s, old>> \in Reaching, <<s, new>> \in Reaching
             PROVE  <<s, MergeState(old, new)>> \in Reaching
  BY DEF KeptByMerges
<1> DEFINE merged == MergeState(old, new)
<1>1. merged \in ArchivedStates
  BY MergeTyped
<1>2. /\ merged.replay \in {old.replay, new.replay}
      /\ merged.native \in {old.native, new.native}
  BY DEF MergeState, ArchivedStates
<1> HIDE DEF merged
<1>3. /\ CanLeadTo(old.replay, s) /\ CanLeadTo(new.replay, s)
      /\ old.native # NoNative => NativeSnapshots /\ StateId[old.native] = s
      /\ new.native # NoNative => NativeSnapshots /\ StateId[new.native] = s
  BY DEF Reaching
<1>4. /\ CanLeadTo(merged.replay, s)
      /\ merged.native # NoNative => NativeSnapshots /\ StateId[merged.native] = s
  BY <1>2, <1>3
<1>5. <<s, merged>> \in Reaching
  BY <1>1, <1>4 DEF Reaching
<1> QED
  BY <1>5 DEF merged

\* An archive with the same entries, or with some of them, whose replays are the same
\* and whose snapshots are the same or dropped.
LEMMA ReachingIsKept ==
  ASSUME NEW a \in Archives, NEW b \in Archives, Holds(a, Reaching), DOMAIN b \subseteq DOMAIN a,
         \A s \in DOMAIN b : b[s].replay = a[s].replay /\ b[s].native \in {a[s].native, NoNative}
  PROVE  Holds(b, Reaching)
<1> SUFFICES ASSUME NEW s \in DOMAIN b PROVE <<s, b[s]>> \in Reaching
  BY DEF Holds
<1>1. s \in StateIds /\ b[s] \in ArchivedStates
  BY ArchiveFacts
<1>2. <<s, a[s]>> \in Reaching
  BY DEF Holds
<1>3. /\ CanLeadTo(b[s].replay, s)
      /\ b[s].native # NoNative => NativeSnapshots /\ StateId[b[s].native] = s
  BY <1>2 DEF Reaching
<1> QED
  BY <1>1, <1>3 DEF Reaching

\* A trajectory whose steps lead to what they recorded archives states that they reach.
LEMMA LeadingStepsReach ==
  ASSUME NEW t \in Trajectories, Leads(t.steps)
  PROVE  StepsHold(t, Reaching)
<1> SUFFICES ASSUME NEW i \in 1..Len(t.steps)
             PROVE  <<StateId[t.steps[i].world], StateForStep(t, i)>> \in Reaching
  BY DEF StepsHold
<1> DEFINE s == StateId[t.steps[i].world]
           new == StateForStep(t, i)
           replay == t.steps[i].replay
<1>1. s \in StateIds /\ JustArchived(new, replay, NoNative)
  BY StateForStepTyped
<1>2. CanReach(replay, t.steps[i].world)
  BY DEF Leads
<1>3. CanLeadTo(replay, s)
  BY <1>2 DEF Like, CanReach, CanLeadTo
<1> HIDE DEF s, new, replay
<1>4. <<s, new>> \in Reaching
  BY <1>1, <1>3 DEF JustArchived, Reaching
<1> QED
  BY <1>4 DEF s, new

\* Steps that lead to what they recorded still do when more of them follow.
LEMMA LeadsOn ==
  ASSUME NEW s \in Seq(StepRecords), NEW t \in Seq(StepRecords), Leads(s), Leads(t)
  PROVE  Leads(s \o t)
<1>1. /\ Len(s) \in Nat /\ Len(t) \in Nat /\ Len(s \o t) = Len(s) + Len(t)
      /\ \A i \in 1..Len(s) : (s \o t)[i] = s[i]
      /\ \A i \in 1..Len(t) : (s \o t)[Len(s) + i] = t[i]
  OBVIOUS
<1> SUFFICES ASSUME NEW i \in 1..Len(s \o t)
             PROVE  CanReach((s \o t)[i].replay, (s \o t)[i].world)
  BY DEF Leads
<1>2. CASE i =< Len(s)
  <2>1. i \in 1..Len(s) /\ (s \o t)[i] = s[i]
    BY <1>1, <1>2
  <2> QED
    BY <2>1 DEF Leads
<1>3. CASE ~(i =< Len(s))
  <2> DEFINE k == i - Len(s)
  <2>1. k \in 1..Len(t) /\ i = Len(s) + k
    BY <1>1, <1>3
  <2> HIDE DEF k
  <2>2. (s \o t)[i] = t[k]
    BY <1>1, <2>1
  <2> QED
    BY <2>1, <2>2 DEF Leads
<1> QED
  BY <1>2, <1>3

\* So do the first of them.
LEMMA LeadsUpTo ==
  ASSUME NEW s \in Seq(StepRecords), Leads(s), NEW k \in 0..Len(s)
  PROVE  Leads(SubSeq(s, 1, k))
<1>1. Len(SubSeq(s, 1, k)) = k /\ \A i \in 1..k : SubSeq(s, 1, k)[i] = s[i] /\ i \in 1..Len(s)
  OBVIOUS
<1> QED
  BY <1>1 DEF Leads

\* Altering an archive leaves its replays and snapshots alone.
LEMMA AlteredReaches ==
  ASSUME NEW a \in Archives, NEW b, Alters(a, b), Holds(a, Reaching)
  PROVE  Holds(b, Reaching)
<1>1. /\ b \in Archives /\ DOMAIN b = DOMAIN a
      /\ \A s \in DOMAIN b : b[s].replay = a[s].replay /\ b[s].native = a[s].native
  BY DEF Alters, SameEntry
<1> QED
  BY <1>1, ReachingIsKept

\* So does writing it, or a part of it.
LEMMA OnDiskReaches ==
  ASSUME NEW a \in Archives, Holds(a, Reaching), NEW kept \in SUBSET DOMAIN a
  PROVE  Holds(OnDisk(a), Reaching) /\ Holds(OnDisk(Restrict(a, kept)), Reaching)
<1>1. \A c \in Archives : Holds(c, Reaching) => Holds(OnDisk(c), Reaching)
  <2> SUFFICES ASSUME NEW c \in Archives, Holds(c, Reaching) PROVE Holds(OnDisk(c), Reaching)
    OBVIOUS
  <2> DEFINE b == OnDisk(c)
  <2>1. /\ b \in Archives /\ DOMAIN b = DOMAIN c
        /\ \A s \in DOMAIN c : Written(c[s], b[s])
    BY OnDiskFacts
  <2> HIDE DEF b
  <2>2. \A s \in DOMAIN b : b[s].replay = c[s].replay /\ b[s].native \in {c[s].native, NoNative}
    BY <2>1 DEF Written
  <2>3. Holds(b, Reaching)
    BY <2>1, <2>2, ReachingIsKept
  <2> QED
    BY <2>3 DEF b
<1> DEFINE part == Restrict(a, kept)
<1>2. part \in Archives /\ DOMAIN part = kept /\ \A s \in kept : part[s] = a[s]
  BY PartOfAnArchive
<1> HIDE DEF part
<1>3. Holds(part, Reaching)
  BY <1>2 DEF Holds
<1> QED
  BY <1>1, <1>2, <1>3 DEF part

\* A wrapper whose history explains its machine state is on a run from a start.
LEMMA ExplainedIsOnTheRun ==
  ASSUME NEW e \in Wrappers(GameTexts), Explained(e)
  PROVE  OnTheRun(e)
<1>1. e.start \in Starts /\ Like(Play(e.start, e.history), e.world)
  BY DEF Wrappers, Explained, Like
<1> QED
  BY <1>1 DEF OnTheRun, CanReach

\* So is one that was restored from the archive.
LEMMA RestoredIsOnTheRun ==
  ASSUME NEW e \in Wrappers(GameTexts), NEW s \in DOMAIN archive,
         archive \in Archives, Holds(archive, Reaching), Reached(e, ArchivedNode(archive[s]))
  PROVE  OnTheRun(e)
<1> DEFINE a == archive[s]
           node == ArchivedNode(a)
<1>1. a \in ArchivedStates /\ <<s, a>> \in Reaching
  BY ArchiveFacts DEF Holds
<1>2. node.native = a.native /\ node.prefix = a.replay
  BY <1>1, ArchivedNodeTyped
<1>3. /\ CanLeadTo(a.replay, s)
      /\ a.native # NoNative => NativeSnapshots /\ StateId[a.native] = s
  BY <1>1 DEF Reaching
<1>4. Explained(e) \/ PutBack(e, node)
  BY DEF Reached
<1> HIDE DEF a, node
<1>5. CASE Explained(e)
  BY <1>5, ExplainedIsOnTheRun
<1>6. CASE PutBack(e, node)
  <2>1. /\ NativeSnapshots /\ a.native # NoNative /\ e.world = a.native /\ e.history = a.replay
    BY <1>2, <1>6 DEF PutBack
  <2>2. PICK start \in Starts : StateId[Play(start, a.replay)] = s
    BY <1>3 DEF CanLeadTo
  <2>3. Like(Play(start, e.history), e.world)
    BY <1>3, <2>1, <2>2 DEF Like
  <2> QED
    BY <2>3 DEF OnTheRun, CanReach
<1> QED
  BY <1>4, <1>5, <1>6

\* The root of an episode.
LEMMA StartRuns ==
  ASSUME IdsFollowMoves, IInv, RunInv, StartEpisode
  PROVE  RunInv'
<1>1. /\ disk.states \in Archives /\ Holds(disk.states, Reaching)
      /\ run' = run + 1 /\ env' = EnvReset(SeededStart)
      /\ archive' = Upsert(disk.states, StateId[SeededStart], RootState(env', RootId(run')))
      /\ UNCHANGED <<base, branches, batch, paths, disk>>
  BY DEF IInv, ArchiveInv, RunInv, StartEpisode, diskVars
<1> DEFINE e == env'
           r == run'
           id == StateId[SeededStart]
           root == RootState(e, RootId(r))
           native == IF NativeSnapshots THEN e.world ELSE NoNative
           P == Reaching
           old == disk.states
<1>2. e \in Wrappers(GameTexts) /\ e.history = << >> /\ e.world = SeededStart
      /\ SeededStart \in Worlds
  BY <1>1, GameTextsAreTexts, GameAssumption, ResetIsSound
     DEF GameAssumption, Sound, EnvReset
<1>3. r \in 1..MaxRuns
  BY EpisodeAssumption DEF EpisodeAssumption, IInv, ControlInv, StartEpisode
<1> HIDE DEF e, r
<1>4. JustArchived(root, e.history, native)
  BY <1>2, <1>3, RootTyped
<1> HIDE DEF root
<1>5. id \in StateIds
  BY <1>2 DEF StateIds
<1>6. <<id, root>> \in P
  <2>1. root \in ArchivedStates /\ root.replay = << >> /\ root.native = native
    BY <1>2, <1>4 DEF JustArchived
  <2>2. Play(SeededStart, << >>) = SeededStart
    BY <1>2, PlayNothing
  <2>3. CanLeadTo(root.replay, id)
    BY <1>2, <2>1, <2>2, GameAssumption DEF GameAssumption, CanLeadTo
  <2>4. root.native # NoNative => NativeSnapshots /\ StateId[root.native] = id
    BY <1>2, <2>1
  <2> QED
    BY <1>5, <2>1, <2>3, <2>4 DEF Reaching
<1>7. KeptByMerges(P)
  BY ReachingKeptByMerges
<1>8. old \in Archives /\ Holds(old, P) /\ root \in ArchivedStates
  BY <1>1, <1>4 DEF JustArchived
<1> HIDE DEF P, old, id
<1>9. Holds(Upsert(old, id, root), P)
  BY <1>5, <1>6, <1>7, <1>8, UpsertFacts
<1>10. Holds(archive', Reaching)
  BY <1>1, <1>9 DEF P, old, id, root, e, r
<1> QED
  BY <1>1, <1>10 DEF RunInv, SoundBase, Leads

\* A restored root.
LEMMA RestoreRuns ==
  ASSUME IdsFollowMoves, IInv, RunInv, NEW s \in DOMAIN archive,
         RestoreFails(s) \/ RestoreSucceeds(s)
  PROVE  RunInv'
<1>1. archive \in Archives /\ Holds(archive, Reaching) /\ archive[s] \in ArchivedStates
      /\ env \in Wrappers(GameTexts)
  BY ArchiveFacts DEF IInv, ArchiveInv, ControlInv, RunInv
<1>2. PICK success \in BOOLEAN : archive' = NoteRestore(archive, s, success)
  BY DEF RestoreFails, RestoreSucceeds
<1>3. Holds(archive', Reaching)
  BY <1>1, <1>2, NoteRestoreAlters, AlteredReaches
<1>4. SoundBase'
  <2>1. CASE RestoreFails(s)
    BY <2>1 DEF RestoreFails, RunInv, SoundBase
  <2>2. CASE RestoreSucceeds(s)
    <3>1. PICK outcome \in RestoreArchived(env, archive[s]) :
               base' = NodeAt(outcome.env, IF NativeSnapshots THEN outcome.env.world ELSE NoNative,
                              Len(outcome.env.history) - 1)
      BY <2>2 DEF RestoreSucceeds
    <3> DEFINE e == outcome.env
               a == archive[s]
    <3>2. e \in Wrappers(GameTexts) /\ Reached(e, ArchivedNode(a))
      BY <1>1, ArchivedRestore
    <3>3. OnTheRun(e)
      BY <1>1, <3>2, RestoredIsOnTheRun
    <3>4. base'.prefix = e.history
          /\ base'.native = (IF NativeSnapshots THEN e.world ELSE NoNative)
      BY <3>1 DEF NodeAt
    <3> QED
      BY <3>3, <3>4 DEF SoundBase, OnTheRun
  <2> QED
    BY <2>1, <2>2
<1>5. UNCHANGED <<branches, batch, paths, disk>>
  BY DEF RestoreFails, RestoreSucceeds, diskVars
<1> QED
  BY <1>3, <1>4, <1>5 DEF RunInv, Leads

\* A branch.
LEMMA ExploreRuns ==
  ASSUME IdsFollowMoves, IInv, RunInv, ExploreBranch
  PROVE  RunInv'
<1>1. /\ env \in Wrappers(GameTexts) /\ base \in Nodes(GameTexts) /\ BranchesTyped
      /\ BranchHorizon \in Nat /\ SoundBase
      /\ UNCHANGED <<archive, disk, base, batch, paths>>
  <2>1. /\ env \in Wrappers(GameTexts) /\ base \in Nodes(GameTexts) /\ BranchesTyped
        /\ SoundBase /\ UNCHANGED <<archive, disk, base, batch, paths>>
        /\ total \in Nat
    BY EpisodeAssumption DEF EpisodeAssumption, IInv, ControlInv, BranchInv, BudgetInv, RunInv,
                             ExploreBranch, diskVars
  <2> QED
    BY <2>1, BudgetOfACycle
<1>2. PICK outcome \in BranchStart :
          IF outcome.result.success
          THEN \E actions \in Rollouts(outcome.env) :
                 /\ env' = RolledOut(outcome.env, actions)
                 /\ branches' = Append(branches, StepsOf(outcome.env, actions))
          ELSE env' = outcome.env /\ branches' = Append(branches, << >>)
  BY DEF ExploreBranch
<1>3. \E branch \in Seq(StepRecords) : Leads(branch) /\ branches' = Append(branches, branch)
  <2>1. CASE outcome.result.success
    <3>1. PICK actions \in Rollouts(outcome.env) :
            branches' = Append(branches, StepsOf(outcome.env, actions))
      BY <1>2, <2>1
    <3>2. actions \in Seq(Actions)
      BY <1>1, <3>1, RolloutsAreActions
    <3> DEFINE e == outcome.env
    <3>3. e \in Wrappers(GameTexts) /\ Reached(e, base)
      BY <1>1, BranchRestore
    <3> HIDE DEF e
    <3>4. OnTheRun(e)
      <4>1. CASE Explained(e)
        BY <3>3, <4>1, ExplainedIsOnTheRun
      <4>2. CASE PutBack(e, base)
        BY <1>1, <4>2 DEF PutBack, SoundBase, OnTheRun
      <4> QED
        BY <3>3, <4>1, <4>2 DEF Reached
    <3>5. Leads(StepsOf(e, actions)) /\ StepsOf(e, actions) \in Seq(StepRecords)
      BY <3>2, <3>3, <3>4, RolloutLeads, StepsOfTyped
    <3> QED
      BY <3>1, <3>5 DEF e
  <2>2. CASE ~outcome.result.success
    <3> DEFINE empty == << >>
    <3>1. branches' = Append(branches, empty) /\ empty \in Seq(StepRecords) /\ Len(empty) = 0
      BY <1>2, <2>2
    <3> HIDE DEF empty
    <3>2. Leads(empty)
      BY <3>1 DEF Leads
    <3> QED
      BY <3>1, <3>2
  <2> QED
    BY <2>1, <2>2
<1>4. PICK branch \in Seq(StepRecords) : Leads(branch) /\ branches' = Append(branches, branch)
  BY <1>3
<1>5. \A b \in DOMAIN branches' : Leads(branches'[b])
  <2>1. \A b \in DOMAIN branches' :
          branches'[b] = branch \/ (b \in DOMAIN branches /\ branches'[b] = branches[b])
    BY <1>1, <1>4 DEF BranchesTyped
  <2> QED
    BY <1>4, <2>1 DEF RunInv
<1>6. /\ Holds(archive', Reaching) /\ Holds(disk'.states, Reaching) /\ SoundBase'
      /\ \A k \in 1..Len(batch') : Leads(batch'[k].steps)
      /\ \A id \in DOMAIN paths' : Leads(paths'[id])
  BY <1>1 DEF RunInv, SoundBase
<1> QED
  BY <1>5, <1>6 DEF RunInv, Leads

\* The trajectories of a cycle.
LEMMA FinishRuns ==
  ASSUME IdsFollowMoves, IInv, RunInv, FinishExploration
  PROVE  RunInv'
<1>1. /\ FrontierInv /\ archive \in Archives /\ selected \in DOMAIN archive /\ BranchesTyped
      /\ run \in 1..MaxRuns /\ cycle \in 1..MaxCycles /\ Len(branches) =< BranchesPerRoot
      /\ Holds(archive, Reaching) /\ batch' = BranchTrajectories
      /\ UNCHANGED <<disk, base, branches, paths>>
  BY DEF IInv, ControlInv, ArchiveInv, BranchInv, RunInv, FinishExploration, diskVars
<1> DEFINE prefix == PrefixSteps(archive[selected])
<1>2. prefix \in Seq(StepRecords) /\ Leads(prefix)
  <2> DEFINE a == archive[selected]
  <2>1. a \in ArchivedStates
    BY <1>1, ArchiveFacts
  <2> HIDE DEF a
  <2>2. PrefixSteps(a) \in Seq(StepRecords)
    BY <1>1, <2>1, PrefixTyped
  <2>3. CASE a.prov \in DOMAIN paths
    <3> DEFINE p == paths[a.prov]
    <3>1. p \in Seq(StepRecords) /\ \E k \in 0..Len(p) : PrefixSteps(a) = SubSeq(p, 1, k)
      BY <1>1, <2>1, <2>3, PrefixIsAPart
    <3>2. Leads(p)
      BY <2>3 DEF RunInv
    <3> HIDE DEF p
    <3>3. Leads(PrefixSteps(a))
      BY <3>1, <3>2, LeadsUpTo
    <3> QED
      BY <2>2, <3>3 DEF a
  <2>4. CASE a.prov \notin DOMAIN paths
    <3>1. PrefixSteps(a) = << >> /\ Len(<< >>) = 0
      BY <2>4 DEF PrefixSteps
    <3>2. Leads(PrefixSteps(a))
      BY <3>1 DEF Leads
    <3> QED
      BY <2>2, <3>2 DEF a
  <2> QED
    BY <2>3, <2>4
<1>3. \A k \in 1..Len(BranchTrajectories) : \E b \in BranchesThatMoved :
        BranchTrajectories[k] = BranchTrajectory(prefix, b)
  BY <1>1, <1>2, BranchTrajectoriesFacts
<1> HIDE DEF prefix
<1>4. ASSUME NEW b \in BranchesThatMoved PROVE Leads(BranchTrajectory(prefix, b).steps)
  <2>1. branches[b] \in Seq(StepRecords) /\ Leads(branches[b])
    BY <1>1 DEF BranchesThatMoved, BranchesTyped, RunInv
  <2>2. BranchTrajectory(prefix, b).steps = prefix \o branches[b]
    BY DEF BranchTrajectory
  <2> QED
    BY <1>2, <2>1, <2>2, LeadsOn
<1>5. \A k \in 1..Len(batch') : Leads(batch'[k].steps)
  <2> SUFFICES ASSUME NEW k \in 1..Len(BranchTrajectories) PROVE Leads(BranchTrajectories[k].steps)
    BY <1>1
  <2>1. PICK b \in BranchesThatMoved : BranchTrajectories[k] = BranchTrajectory(prefix, b)
    BY <1>3
  <2> QED
    BY <1>4, <2>1
<1>6. Holds(archive', Reaching)
  <2>1. PICK j \in Judgements, level \in SaturationLevels :
          archive' = NoteRevisit(archive, selected, j.achieved, j.exploratory, level)
    BY DEF FinishExploration
  <2> DEFINE achieved == j.achieved
             exploratory == j.exploratory
             c == NoteRevisit(archive, selected, achieved, exploratory, level)
  <2>2. achieved \in BOOLEAN /\ exploratory \in BOOLEAN /\ level \in Nat
    BY <2>1, EpisodeAssumption DEF Judgements, EpisodeAssumption
  <2> HIDE DEF achieved, exploratory
  <2>3. Alters(archive, c)
    BY <1>1, <2>2, NoteRevisitAlters
  <2> HIDE DEF c
  <2>4. Holds(c, Reaching)
    BY <1>1, <2>3, AlteredReaches
  <2> QED
    BY <2>1, <2>4 DEF c, achieved, exploratory
<1> QED
  BY <1>1, <1>5, <1>6 DEF RunInv, SoundBase, Leads

\* A trajectory is retained.
LEMMA InsertRuns ==
  ASSUME IInv, RunInv, InsertTrajectory
  PROVE  RunInv'
<1> DEFINE t == batch[inserted + 1]
           value == TrajectoryValue(t.steps)
<1>1. /\ inserted + 1 \in 1..Len(batch)
      /\ DOMAIN trajectories' \subseteq DOMAIN trajectories \cup {t.id}
      /\ paths' = [id \in DOMAIN trajectories' |-> paths'[id]]
      /\ \A id \in DOMAIN trajectories' : paths'[id] = IF id = t.id THEN t.steps ELSE paths[id]
  BY InsertionFacts
<1>2. DOMAIN paths = DOMAIN trajectories
  BY DEF IInv, FrontierInv
<1>3. Leads(t.steps)
  BY <1>1 DEF RunInv
<1> HIDE DEF t
<1>4. ASSUME NEW id \in DOMAIN paths' PROVE Leads(paths'[id])
  <2>1. id \in DOMAIN trajectories'
    BY <1>1
  <2>2. paths'[id] = t.steps \/ (id \in DOMAIN paths /\ paths'[id] = paths[id])
    BY <1>1, <1>2, <2>1
  <2> QED
    BY <1>3, <2>2 DEF RunInv
<1>5. UNCHANGED <<archive, disk, base, branches, batch>>
  BY DEF InsertTrajectory, diskVars
<1> QED
  BY <1>4, <1>5 DEF RunInv, SoundBase, Leads

\* The batch is archived.
LEMMA UpdateRuns ==
  ASSUME IInv, RunInv, UpdateArchive
  PROVE  RunInv'
<1>1. /\ FrontierInv /\ batch \in Batches /\ archive \in Archives /\ InsightTyped(insight)
      /\ Holds(archive, Reaching)
      /\ UNCHANGED <<disk, base, branches, batch, paths>>
  BY DEF IInv, ArchiveInv, BranchInv, RunInv, UpdateArchive, diskVars
<1> DEFINE ingested == IngestAll(archive, batch)
           refreshed == Refresh(ingested, RetainedTrajectories)
           named == insight'
<1>2. /\ named \in (IF AnalysisIsDue THEN Insights(refreshed, RetainedTrajectories, Rank) ELSE {insight})
      /\ archive' = Project(refreshed, named)
  BY DEF UpdateArchive
<1>3. ingested \in Archives /\ Holds(ingested, Reaching)
  <2> DEFINE P == Reaching
  <2>1. \A i \in 1..Len(batch) : StepsHold(batch[i], P)
    <3>1. \A i \in 1..Len(batch) : batch[i] \in Trajectories
      BY <1>1 DEF Batches
    <3> QED
      BY <3>1, LeadingStepsReach DEF RunInv
  <2>2. KeptByMerges(P) /\ Holds(archive, P)
    BY <1>1, ReachingKeptByMerges
  <2> HIDE DEF P
  <2>3. ingested \in Outgrowths(archive, P)
    BY <1>1, <2>1, <2>2, BatchOutgrows
  <2> QED
    BY <2>3 DEF Outgrowths, P
<1> HIDE DEF ingested
<1>4. Alters(ingested, refreshed)
  BY <1>1, <1>3, RefreshFacts DEF Supported
<1> HIDE DEF refreshed
<1>5. refreshed \in Archives /\ Holds(refreshed, Reaching)
  BY <1>3, <1>4, AlteredReaches DEF Alters
<1>6. InsightTyped(named)
  BY <1>1, <1>2, <1>5, InsightsTyped
<1> HIDE DEF named
<1> DEFINE b == Project(refreshed, named)
<1>7. Alters(refreshed, b)
  BY <1>5, <1>6, ProjectFacts
<1> HIDE DEF b
<1>8. Holds(b, Reaching)
  BY <1>5, <1>7, AlteredReaches
<1>9. archive' = b
  BY <1>2 DEF b
<1> QED
  BY <1>1, <1>8, <1>9 DEF RunInv, SoundBase, Leads

\* A snapshot is written, whole or in part, and the root of the cycle is left.
LEMMA WriteRuns ==
  ASSUME IInv, RunInv, WriteSnapshot
  PROVE  RunInv'
<1>1. /\ archive \in Archives /\ Holds(archive, Reaching) /\ archive' = archive
      /\ disk'.states = OnDisk(archive) /\ paths' = paths
      /\ branches' = << >> /\ batch' = << >> /\ base' = NoBase
  BY DEF IInv, ArchiveInv, RunInv, WriteSnapshot
<1>2. Holds(disk'.states, Reaching)
  BY <1>1, OnDiskReaches
<1>3. SoundBase'
  BY <1>1 DEF SoundBase, NoBase, NodeAt
<1>4. DOMAIN branches' = {} /\ Len(batch') = 0
  BY <1>1
<1> QED
  BY <1>1, <1>2, <1>3, <1>4 DEF RunInv, Leads

\* The episode is dropped.
LEMMA ForgetRuns ==
  ASSUME Forget, Holds(disk'.states, Reaching)
  PROVE  RunInv'
<1>1. /\ archive' = Nothing /\ paths' = Nothing /\ base' = NoBase
      /\ branches' = << >> /\ batch' = << >>
  BY DEF Forget
<1>2. SoundBase'
  BY <1>1 DEF SoundBase, NoBase, NodeAt
<1>3. DOMAIN branches' = {} /\ Len(batch') = 0 /\ DOMAIN paths' = {}
  BY <1>1, NothingIsAnArchive
<1>4. Holds(archive', Reaching)
  BY <1>1, NothingIsAnArchive
<1> QED
  BY <1>2, <1>3, <1>4 DEF RunInv

\* Every step of the loop.
LEMMA NextRuns ==
  ASSUME IdsFollowMoves, IInv, RunInv, [Next]_vars
  PROVE  RunInv'
<1>1. CASE LoadFails \/ BudgetSpent \/ UNCHANGED vars
  <2>1. UNCHANGED <<archive, disk, base, branches, batch, paths>>
    BY <1>1 DEF LoadFails, BudgetSpent, vars, episodeVars, diskVars
  <2> QED
    BY <2>1 DEF RunInv, SoundBase, Leads
<1>2. CASE StartEpisode
  BY <1>2, StartRuns
<1>3. ASSUME NEW s \in Selectable(archive, insight), RestoreFails(s) \/ RestoreSucceeds(s)
      PROVE  RunInv'
  <2>1. s \in DOMAIN archive
    BY DEF Selectable
  <2> QED
    BY <1>3, <2>1, RestoreRuns
<1>4. CASE ExploreBranch
  BY <1>4, ExploreRuns
<1>5. CASE FinishExploration
  BY <1>5, FinishRuns
<1>6. CASE InsertTrajectory
  BY <1>6, InsertRuns
<1>7. CASE UpdateArchive
  BY <1>7, UpdateRuns
<1>8. CASE WriteSnapshot
  BY <1>8, WriteRuns
<1>9. CASE Close \/ Crash
  <2>1. Forget /\ disk' = disk
    BY <1>9 DEF Close, Crash, diskVars
  <2> QED
    BY <2>1, ForgetRuns DEF RunInv
<1>10. CASE CrashWhileWriting
  <2>1. PICK kept \in SUBSET DOMAIN archive : disk'.states = OnDisk(Restrict(archive, kept))
    BY <1>10 DEF CrashWhileWriting
  <2>2. archive \in Archives /\ Holds(archive, Reaching)
    BY DEF IInv, ArchiveInv, RunInv
  <2>3. Holds(disk'.states, Reaching)
    BY <2>1, <2>2, OnDiskReaches
  <2> QED
    BY <1>10, <2>3, ForgetRuns DEF CrashWhileWriting
<1> QED
  BY <1>1, <1>2, <1>3, <1>4, <1>5, <1>6, <1>7, <1>8, <1>9, <1>10 DEF Next, Proceed

\* In a deterministic game every replay leads where it should.
LEMMA RunInvariant == Spec => [](IdsFollowMoves => RunInv)
<1>1. Init => (IdsFollowMoves => RunInv)
  <2> SUFFICES ASSUME Init PROVE RunInv
    OBVIOUS
  <2>1. /\ archive = Nothing /\ paths = Nothing /\ base = NoBase /\ disk.states = Nothing
        /\ branches = << >> /\ batch = << >>
    BY DEF Init
  <2>2. SoundBase
    BY <2>1 DEF SoundBase, NoBase, NodeAt
  <2>3. DOMAIN branches = {} /\ Len(batch) = 0 /\ DOMAIN paths = {}
    BY <2>1, NothingIsAnArchive
  <2>4. Holds(archive, Reaching) /\ Holds(disk.states, Reaching)
    BY <2>1, NothingIsAnArchive
  <2> QED
    BY <2>2, <2>3, <2>4 DEF RunInv
<1>2. IInv /\ (IdsFollowMoves => RunInv) /\ [Next]_vars => (IdsFollowMoves => RunInv)'
  <2>1. ASSUME IdsFollowMoves' PROVE IdsFollowMoves
    BY <2>1 DEF IdsFollowMoves
  <2> QED
    BY <2>1, NextRuns
<1> QED
  BY <1>1, <1>2, LoopInvariant, PTL DEF Spec

-----------------------------------------------------------------------------
(* Whole trajectories. *)

\* Every reset produces the state of the seed; where machine states are put back as
\* they were saved, a state id tells them apart; no two episodes over a directory share
\* an id; and the game always says something.  Each is needed: after another reset a
\* replay may end beside the archived state (_restore_by_action_replay gives no seed)
\* unless what it compares tells the two apart; a snapshot may be of another machine
\* state with the id of the root; an id used twice names the trajectory of another
\* episode (MCGlowReusedId); and a state without a text is restored by a bare reset.
WholeGame ==
  /\ Starts = {SeededStart}
  /\ NativeSnapshots => \A v \in Worlds, w \in Worlds : StateId[v] = StateId[w] => v = w
  /\ \A q \in 1..MaxRuns, r \in 1..MaxRuns : EpisodeOf[q] = EpisodeOf[r] => q = r
  /\ \A w \in Worlds : Summary[Observation[w]] # EmptyText

\* Steps that are one play of the game, none of them taken by doing nothing.
Whole(steps) ==
  /\ \A i \in 2..Len(steps) : Follows(steps[i], steps[i - 1])
  /\ \A i \in 1..Len(steps) : steps[i].replay # << >>

\* They begin where the machine is in state w.
BeginsAt(steps, w) ==
  1 \in 1..Len(steps) => /\ \E a \in Actions : Move[<<w, a>>] = steps[1].world
                         /\ steps[1].reward = Score[steps[1].world] - Score[w]

\* The archived state a, with id s, comes from a step of a trajectory: where native
\* snapshots are not used, it is restored by what that step recorded.
IsAStepOf(s, a, steps) ==
  /\ a.timestep + 1 \in 1..Len(steps)
  /\ StateId[steps[a.timestep + 1].world] = s
  /\ NativeSnapshots \/ (a.replay = steps[a.timestep + 1].replay /\ a.replay # << >>)

\* Archived states with a text, of one of the first r episodes.
Ours(r) ==
  {x \in StateIds \X ArchivedStates :
     /\ x[2].observation # EmptyText
     /\ NativeSnapshots \/ x[2].native = NoNative
     /\ \E q \in 1..r : x[2].prov[1] = EpisodeOf[q]}

\* Of those, the ones that come from no later cycle than c of the last episode, and
\* from the step that they name where the trajectory is retained.
Traced(kept, r, c) ==
  {x \in Ours(r) : /\ x[2].prov[1] = EpisodeOf[r] => x[2].prov[2] =< c
                   /\ x[2].prov \in DOMAIN kept => IsAStepOf(x[1], x[2], kept[x[2].prov])}

\* The last cycle whose trajectories are in the archive.
CyclesArchived == IF phase \in {"explore", "insert", "update"} THEN cycle - 1 ELSE cycle

\* The machine state of the root.
RootWorld == Play(SeededStart, archive[selected].replay)

PathsInv ==
  /\ phase = "idle" => DOMAIN paths = {} /\ DOMAIN archive = {}
  /\ \A id \in DOMAIN paths :
       /\ Whole(paths[id])
       /\ id[1] = EpisodeOf[run] /\ id[2] =< (IF phase = "explore" THEN cycle - 1 ELSE cycle)

RootInv ==
  /\ \A b \in DOMAIN branches : Whole(branches[b])
  /\ phase = "explore" =>
       /\ base.prefix = archive[selected].replay
       /\ \A b \in DOMAIN branches : BeginsAt(branches[b], RootWorld)

\* The ids of a batch are those of this cycle, and its trajectories are kept under them.
BatchesInv ==
  /\ \A k \in 1..Len(batch) :
       /\ Whole(batch[k].steps)
       /\ batch[k].id[1] = EpisodeOf[run] /\ batch[k].id[2] = cycle
       /\ batch[k].id \in DOMAIN paths => paths[batch[k].id] = batch[k].steps
  /\ \A k \in 1..Len(batch), l \in 1..Len(batch) : batch[k].id = batch[l].id => k = l

WholeInv ==
  /\ PathsInv /\ RootInv /\ BatchesInv
  /\ Holds(archive, Traced(paths, run, CyclesArchived))
  /\ Holds(disk.states, Ours(run))

\* In such a game, machine states that are alike are the same.
LEMMA WholeGamesAreIdsFollowMoves ==
  WholeGame => /\ IdsFollowMoves
               /\ \A v \in Worlds, w \in Worlds : Like(v, w) => v = w
BY DEF WholeGame, IdsFollowMoves, Like

\* The steps recorded of a rollout.
LEMMA RolloutIsWhole ==
  ASSUME NEW e \in Wrappers(GameTexts), NEW actions \in Seq(Actions)
  PROVE  Whole(StepsOf(e, actions)) /\ BeginsAt(StepsOf(e, actions), e.world)
<1> DEFINE steps == StepsOf(e, actions)
           before(i) == Play(e.world, SubSeq(actions, 1, i - 1))
<1>1. /\ Len(steps) = Len(actions) /\ Len(actions) \in Nat
      /\ e.world \in Worlds /\ e.history \in Seq(Actions)
  BY StepsOfTyped DEF Wrappers
<1>2. ASSUME NEW i \in 1..Len(actions)
      PROVE  /\ actions[i] \in Actions
             /\ steps[i].world = Move[<<before(i), actions[i]>>]
             /\ steps[i].reward = Score[steps[i].world] - Score[before(i)]
             /\ steps[i].replay = e.history \o SubSeq(actions, 1, i)
             /\ SubSeq(actions, 1, i) \in Seq(Actions) /\ Len(SubSeq(actions, 1, i)) = i
  <2>1. /\ steps[i].world = Move[<<before(i), actions[i]>>]
        /\ steps[i].reward = Score[Move[<<before(i), actions[i]>>]] - Score[before(i)]
        /\ steps[i].replay = e.history \o SubSeq(actions, 1, i)
    BY StepsOfTyped
  <2>2. /\ actions[i] \in Actions
        /\ SubSeq(actions, 1, i) \in Seq(Actions) /\ Len(SubSeq(actions, 1, i)) = i
    BY <1>1
  <2> QED
    BY <2>1, <2>2
<1>3. before(1) = e.world
  <2>1. SubSeq(actions, 1, 1 - 1) = << >>
    BY <1>1
  <2> QED
    BY <1>1, <2>1, PlayNothing
<1>4. ASSUME NEW i \in 2..Len(actions) PROVE before(i) = steps[i - 1].world
  <2> DEFINE k == i - 1
  <2>1. k \in 1..Len(actions) /\ k = i - 1
    BY <1>1
  <2>2. before(i) = Play(e.world, SubSeq(actions, 1, k))
    OBVIOUS
  <2> HIDE DEF k
  <2>3. SubSeq(actions, 1, k) = Append(SubSeq(actions, 1, k - 1), actions[k])
        /\ SubSeq(actions, 1, k - 1) \in Seq(Actions) /\ actions[k] \in Actions
    BY <1>1, <2>1
  <2>4. Play(e.world, SubSeq(actions, 1, k)) = Move[<<before(k), actions[k]>>]
    BY <1>1, <2>3, PlayAppend
  <2>5. steps[k].world = Move[<<before(k), actions[k]>>]
    BY <1>2, <2>1
  <2> HIDE DEF steps, before
  <2> QED
    BY <2>1, <2>2, <2>4, <2>5
<1> HIDE DEF steps, before
<1>5. ASSUME NEW i \in 2..Len(steps) PROVE Follows(steps[i], steps[i - 1])
  <2>1. i \in 1..Len(actions) /\ i \in 2..Len(actions)
    BY <1>1
  <2> QED
    BY <1>2, <1>4, <2>1 DEF Follows
<1>6. ASSUME NEW i \in 1..Len(steps) PROVE steps[i].replay # << >>
  <2> DEFINE s == SubSeq(actions, 1, i)
  <2>0. i \in 1..Len(actions) /\ i \in Nat /\ i > 0
    BY <1>1
  <2>1. steps[i].replay = e.history \o s /\ s \in Seq(Actions) /\ Len(s) = i
    BY <1>2, <2>0
  <2> HIDE DEF s
  <2>2. e.history \in Seq(Actions) /\ Len(e.history) \in Nat
    BY <1>1
  <2>4. Len(e.history \o s) = Len(e.history) + i
    <3> DEFINE h == e.history
    <3>1. h \in Seq(Actions) /\ s \in Seq(Actions)
      BY <2>1, <2>2
    <3> HIDE DEF h
    <3>2. Len(h \o s) = Len(h) + Len(s)
      BY <3>1
    <3> QED
      BY <2>1, <3>2 DEF h
  <2>3. Len(<< >>) = 0
    OBVIOUS
  <2> QED
    BY <2>0, <2>1, <2>2, <2>3, <2>4
<1>7. BeginsAt(steps, e.world)
  <2> SUFFICES ASSUME 1 \in 1..Len(steps)
               PROVE  /\ \E a \in Actions : Move[<<e.world, a>>] = steps[1].world
                      /\ steps[1].reward = Score[steps[1].world] - Score[e.world]
    BY DEF BeginsAt
  <2>1. 1 \in 1..Len(actions)
    BY <1>1
  <2> QED
    BY <1>2, <1>3, <2>1
<1> QED
  BY <1>5, <1>6, <1>7 DEF Whole, steps

\* The first steps of a whole trajectory.
LEMMA WholeUpTo ==
  ASSUME NEW s \in Seq(StepRecords), Whole(s), NEW k \in 0..Len(s)
  PROVE  Whole(SubSeq(s, 1, k))
<1>1. Len(SubSeq(s, 1, k)) = k /\ \A i \in 1..k : SubSeq(s, 1, k)[i] = s[i] /\ i \in 1..Len(s)
  OBVIOUS
<1>2. \A i \in 2..k : i \in 1..k /\ i - 1 \in 1..k /\ i \in 2..Len(s)
  OBVIOUS
<1> QED
  BY <1>1, <1>2 DEF Whole

\* Steps that begin where others ended.
LEMMA WholeOn ==
  ASSUME NEW s \in Seq(StepRecords), NEW t \in Seq(StepRecords), Whole(s), Whole(t),
         Len(s) \in 1..Len(s) => BeginsAt(t, s[Len(s)].world)
  PROVE  Whole(s \o t)
<1> DEFINE n == Len(s)
           m == Len(t)
           u == s \o t
<1>1. /\ n \in Nat /\ m \in Nat /\ Len(u) = n + m
      /\ \A i \in 1..n : u[i] = s[i]
      /\ \A i \in 1..m : u[n + i] = t[i]
  OBVIOUS
<1>2. /\ \A i \in 2..n : Follows(s[i], s[i - 1])
      /\ \A i \in 1..n : s[i].replay # << >>
      /\ \A i \in 2..m : Follows(t[i], t[i - 1])
      /\ \A i \in 1..m : t[i].replay # << >>
  BY DEF Whole
<1>3. n \in 1..n => BeginsAt(t, s[n].world)
  OBVIOUS
<1> HIDE DEF n, m, u
<1>4. ASSUME NEW i \in 2..(n + m) PROVE Follows(u[i], u[i - 1])
  <2>1. CASE i =< n
    <3>1. i \in 1..n /\ i - 1 \in 1..n /\ i \in 2..n
      BY <1>1, <2>1
    <3> QED
      BY <1>1, <1>2, <3>1
  <2>2. CASE i > n + 1
    <3> DEFINE k == i - n
    <3>1. k \in 1..m /\ k - 1 \in 1..m /\ k \in 2..m /\ i = n + k /\ i - 1 = n + (k - 1)
      BY <1>1, <2>2
    <3> HIDE DEF k
    <3>2. u[i] = t[k] /\ u[i - 1] = t[k - 1]
      BY <1>1, <3>1
    <3> QED
      BY <1>2, <3>1, <3>2
  <2>3. CASE i = n + 1
    <3>1. 1 \in 1..m /\ n \in 1..n /\ i - 1 = n
      BY <1>1, <2>3
    <3>2. u[i] = t[1] /\ u[i - 1] = s[n]
      BY <1>1, <2>3, <3>1
    <3>3. /\ \E a \in Actions : Move[<<s[n].world, a>>] = t[1].world
          /\ t[1].reward = Score[t[1].world] - Score[s[n].world]
      BY <1>3, <3>1 DEF BeginsAt, m
    <3> QED
      BY <3>2, <3>3 DEF Follows
  <2> QED
    BY <1>1, <2>1, <2>2, <2>3
<1>5. ASSUME NEW i \in 1..(n + m) PROVE u[i].replay # << >>
  <2>1. CASE i =< n
    <3>1. i \in 1..n
      BY <1>1, <2>1
    <3> QED
      BY <1>1, <1>2, <3>1
  <2>2. CASE ~(i =< n)
    <3> DEFINE k == i - n
    <3>1. k \in 1..m /\ i = n + k
      BY <1>1, <2>2
    <3> HIDE DEF k
    <3>2. u[i] = t[k]
      BY <1>1, <3>1
    <3> QED
      BY <1>2, <3>1, <3>2
  <2> QED
    BY <2>1, <2>2
<1> QED
  BY <1>1, <1>4, <1>5 DEF Whole, u

\* The trajectories of a cycle have different ids.
LEMMA IdsOfABatch ==
  ASSUME BranchesTyped, PrefixSteps(archive[selected]) \in Seq(StepRecords),
         run \in 1..MaxRuns, cycle \in 1..MaxCycles, Len(branches) =< BranchesPerRoot
  PROVE  \A k \in 1..Len(BranchTrajectories), l \in 1..Len(BranchTrajectories) :
           BranchTrajectories[k].id = BranchTrajectories[l].id => k = l
<1> DEFINE prefix == PrefixSteps(archive[selected])
           n == Len(branches)
           Apart(v) == \A k \in 1..Len(v), l \in 1..Len(v) : v[k].id = v[l].id => k = l
           Up(v, i) == \A k \in 1..Len(v) : v[k].id[3] \in 1..i
<1>1. n \in Nat /\ DOMAIN branches = 1..n
  BY DEF BranchesTyped
<1>2. prefix \in Seq(StepRecords)
  OBVIOUS
<1>3. PICK f : /\ f \in [0..n -> Batches]
               /\ f[0] = << >> /\ f[n] = BranchTrajectories
               /\ \A i \in 1..n : f[i] = WithTrajectory(f[i - 1], prefix, i)
  BY BranchTrajectoriesTrace
<1> HIDE DEF n, prefix
<1>4. n \in 0..n /\ \A i \in 1..n : i - 1 \in 0..n /\ i \in 0..n /\ i \in Nat /\ i \in 1..i
  BY <1>1
<1> DEFINE S == {i \in 0..n : Apart(f[i]) /\ Up(f[i], i)}
<1>5. 0 \in S
  <2>1. Len(f[0]) = 0
    BY <1>3
  <2> HIDE DEF n
  <2> QED
    BY <1>1, <2>1
<1>6. ASSUME NEW i \in 1..n, i - 1 \in S PROVE i \in S
  <2> DEFINE v == f[i - 1]
             t == BranchTrajectory(prefix, i)
  <2>1. f[i] = WithTrajectory(v, prefix, i)
    BY <1>3
  <2>2. v \in Seq(Trajectories) /\ Apart(v) /\ Up(v, i - 1)
    BY <1>3, <1>4, <1>6 DEF Batches
  <2> HIDE DEF v
  <2>3. Up(v, i)
    BY <1>4, <2>2
  <2>4. CASE branches[i] = << >>
    <3>1. f[i] = v
      BY <2>1, <2>4 DEF WithTrajectory
    <3> HIDE DEF Apart, Up
    <3> QED
      BY <1>4, <2>2, <2>3, <3>1
  <2>5. CASE branches[i] # << >>
    <3>1. f[i] = Append(v, t)
      BY <2>1, <2>5 DEF WithTrajectory
    <3>2. t \in Trajectories
      BY <1>1, <1>2, <2>5, BranchTrajectoryTyped DEF n
    <3>3. t.id[3] = i
      BY DEF BranchTrajectory
    <3> HIDE DEF t
    <3> DEFINE w == Append(v, t)
    <3>4. /\ Len(v) \in Nat /\ Len(w) = Len(v) + 1
          /\ \A k \in 1..Len(v) : w[k] = v[k]
          /\ w[Len(v) + 1] = t
      BY <2>2, <3>2
    <3> HIDE DEF w
    <3>5. \A k \in 1..Len(w) : k = Len(v) + 1 \/ k \in 1..Len(v)
      BY <3>4
    <3>6. Up(w, i)
      BY <1>4, <2>3, <3>3, <3>4, <3>5
    <3>7. \A k \in 1..Len(v) : w[k].id # t.id
      <4> SUFFICES ASSUME NEW k \in 1..Len(v), w[k].id = t.id PROVE FALSE
        OBVIOUS
      <4>1. v[k].id[3] = i /\ v[k].id[3] \in 1..(i - 1)
        BY <2>2, <3>3, <3>4
      <4> QED
        BY <1>4, <4>1
    <3>8. Apart(w)
      BY <2>2, <3>4, <3>5, <3>7
    <3> HIDE DEF Apart, Up
    <3> QED
      BY <1>4, <3>1, <3>6, <3>8 DEF w
  <2> QED
    BY <2>4, <2>5
<1> HIDE DEF S
<1>7. 0..n \subseteq S
  BY <1>1, <1>5, <1>6, IntervalInduct
<1> QED
  BY <1>3, <1>4, <1>7 DEF S

\* Merges keep the provenance of the old entry.
LEMMA TracedKeptByMerges ==
  ASSUME NEW kept, NEW r, NEW c
  PROVE  KeptByMerges(Traced(kept, r, c))
<1> DEFINE P == Traced(kept, r, c)
<1> SUFFICES ASSUME NEW s \in StateIds, NEW old \in ArchivedStates, NEW new \in ArchivedStates,
                    <<s, old>> \in P, <<s, new>> \in P
             PROVE  <<s, MergeState(old, new)>> \in P
  BY DEF KeptByMerges
<1> DEFINE merged == MergeState(old, new)
<1>1. merged \in ArchivedStates
  BY MergeTyped
<1>2. /\ merged.prov = old.prov /\ merged.timestep = old.timestep
      /\ merged.observation \in {old.observation, new.observation}
      /\ merged.native \in {old.native, new.native}
      /\ new.native = NoNative /\ old.replay # << >> => merged.replay = old.replay
  BY DEF MergeState, ArchivedStates
<1> HIDE DEF merged
<1>3. /\ old.observation # EmptyText /\ new.observation # EmptyText
      /\ NativeSnapshots \/ (old.native = NoNative /\ new.native = NoNative)
      /\ \E q \in 1..r : old.prov[1] = EpisodeOf[q]
      /\ old.prov[1] = EpisodeOf[r] => old.prov[2] =< c
      /\ old.prov \in DOMAIN kept => IsAStepOf(s, old, kept[old.prov])
  BY DEF Traced, Ours
<1>4. merged.observation # EmptyText /\ (NativeSnapshots \/ merged.native = NoNative)
  BY <1>2, <1>3
<1>5. merged.prov \in DOMAIN kept => IsAStepOf(s, merged, kept[merged.prov])
  BY <1>2, <1>3 DEF IsAStepOf
<1>6. <<s, merged>> \in Ours(r)
  BY <1>1, <1>2, <1>3, <1>4 DEF Ours
<1>7. <<s, merged>> \in P
  BY <1>2, <1>3, <1>5, <1>6 DEF Traced
<1> QED
  BY <1>7 DEF merged

\* Altered entries come from where they came from.
LEMMA AlteredIsTraced ==
  ASSUME NEW a \in Archives, NEW b, Alters(a, b), NEW kept, NEW r, NEW c,
         Holds(a, Traced(kept, r, c))
  PROVE  Holds(b, Traced(kept, r, c))
<1> SUFFICES ASSUME NEW s \in DOMAIN b PROVE <<s, b[s]>> \in Traced(kept, r, c)
  BY DEF Holds
<1>1. s \in DOMAIN a /\ s \in StateIds /\ b[s] \in ArchivedStates /\ SameEntry(a[s], b[s])
  BY ArchiveFacts DEF Alters
<1>2. <<s, a[s]>> \in Traced(kept, r, c)
  BY <1>1 DEF Holds
<1> DEFINE old == a[s]
           new == b[s]
<1>3. /\ new.prov = old.prov /\ new.timestep = old.timestep /\ new.replay = old.replay
      /\ new.native = old.native /\ new.observation = old.observation
  BY <1>1 DEF SameEntry
<1>4. new \in ArchivedStates /\ <<s, old>> \in Traced(kept, r, c)
  BY <1>1, <1>2
<1> HIDE DEF old, new
<1>5. <<s, new>> \in Traced(kept, r, c)
  BY <1>1, <1>3, <1>4 DEF Traced, Ours, IsAStepOf
<1> QED
  BY <1>5 DEF new

\* So do those that reach the disk.
LEMMA OnDiskIsOurs ==
  ASSUME NEW a \in Archives, NEW r, Holds(a, Ours(r)), NEW kept \in SUBSET DOMAIN a
  PROVE  Holds(OnDisk(a), Ours(r)) /\ Holds(OnDisk(Restrict(a, kept)), Ours(r))
<1>1. \A c \in Archives : Holds(c, Ours(r)) => Holds(OnDisk(c), Ours(r))
  <2> SUFFICES ASSUME NEW c \in Archives, Holds(c, Ours(r)), NEW s \in DOMAIN OnDisk(c)
               PROVE  <<s, OnDisk(c)[s]>> \in Ours(r)
    BY DEF Holds
  <2> DEFINE b == OnDisk(c)
  <2>1. /\ b \in Archives /\ DOMAIN b = DOMAIN c
        /\ \A t \in DOMAIN c : Written(c[t], b[t])
    BY OnDiskFacts
  <2>2. s \in DOMAIN b
    OBVIOUS
  <2> HIDE DEF b
  <2> DEFINE old == c[s]
             new == b[s]
  <2>3. new \in ArchivedStates /\ s \in StateIds /\ <<s, old>> \in Ours(r) /\ Written(old, new)
    BY <2>1, <2>2, ArchiveFacts DEF Holds
  <2> HIDE DEF old, new
  <2>4. <<s, new>> \in Ours(r)
    BY <2>3 DEF Ours, Written
  <2> QED
    BY <2>4 DEF new, b
<1> DEFINE part == Restrict(a, kept)
<1>2. part \in Archives /\ DOMAIN part = kept /\ \A s \in kept : part[s] = a[s]
  BY PartOfAnArchive
<1> HIDE DEF part
<1>3. Holds(part, Ours(r))
  BY <1>2 DEF Holds
<1> QED
  BY <1>1, <1>2, <1>3 DEF part

\* What holds of the earlier of two moments holds of the later one.
LEMMA TracedLater ==
  ASSUME NEW a, NEW kept, NEW r \in Nat, NEW c \in Int, NEW d \in Int, c =< d,
         a \in Archives, Holds(a, Traced(kept, r, c))
  PROVE  Holds(a, Traced(kept, r, d)) /\ Holds(a, Ours(r)) /\ Holds(a, Ours(r + 1))
<1> SUFFICES ASSUME NEW s \in DOMAIN a
             PROVE  /\ <<s, a[s]>> \in Traced(kept, r, d)
                    /\ <<s, a[s]>> \in Ours(r) /\ <<s, a[s]>> \in Ours(r + 1)
  BY DEF Holds
<1> DEFINE st == a[s]
<1>1. <<s, st>> \in Traced(kept, r, c) /\ st \in ArchivedStates
  BY ArchiveFacts DEF Holds
<1> HIDE DEF st
<1>2. <<s, st>> \in Ours(r)
  BY <1>1 DEF Traced
<1>3. st.prov[2] \in Nat
  BY <1>1 DEF ArchivedStates, Provenances
<1>4. st.prov[1] = EpisodeOf[r] => st.prov[2] =< d
  <2>1. st.prov[1] = EpisodeOf[r] => st.prov[2] =< c
    BY <1>1 DEF Traced
  <2> QED
    BY <1>3, <2>1
<1>5. <<s, st>> \in Traced(kept, r, d)
  BY <1>1, <1>2, <1>4 DEF Traced
<1>6. 1..r \subseteq 1..(r + 1)
  OBVIOUS
<1>7. <<s, st>> \in Ours(r + 1)
  BY <1>2, <1>6 DEF Ours
<1> QED
  BY <1>2, <1>5, <1>7 DEF st

\* What is on disk is still of one of the episodes when another one starts.
LEMMA OursLater ==
  ASSUME NEW a, NEW r \in Nat, Holds(a, Ours(r))
  PROVE  Holds(a, Ours(r + 1))
<1>1. 1..r \subseteq 1..(r + 1)
  OBVIOUS
<1>2. Ours(r) \subseteq Ours(r + 1)
  BY <1>1 DEF Ours
<1> QED
  BY <1>2 DEF Holds

\* The root of an episode.
LEMMA StartIsWhole ==
  ASSUME WholeGame, IInv, WholeInv, StartEpisode
  PROVE  WholeInv'
<1>1. /\ disk.states \in Archives /\ Holds(disk.states, Ours(run))
      /\ run' = run + 1 /\ run \in Nat /\ run' \in 1..MaxRuns /\ cycle \in Nat
      /\ env' = EnvReset(SeededStart)
      /\ archive' = Upsert(disk.states, StateId[SeededStart], RootState(env', RootId(run')))
      /\ phase = "idle" /\ phase' = "write"
      /\ UNCHANGED <<cycle, base, selected, branches, batch, paths, disk>>
      /\ DOMAIN paths = {} /\ batch = << >> /\ branches = << >>
  BY EpisodeAssumption DEF EpisodeAssumption, IInv, ControlInv, ArchiveInv, BranchInv, WholeInv,
                           PathsInv, StartEpisode, diskVars
<1> DEFINE e == env'
           r == run'
           id == StateId[SeededStart]
           root == RootState(e, RootId(r))
           native == IF NativeSnapshots THEN e.world ELSE NoNative
           P == Traced(paths, r, cycle)
           old == disk.states
<1>2. e \in Wrappers(GameTexts) /\ e.world = SeededStart /\ SeededStart \in Worlds
  BY <1>1, GameTextsAreTexts, GameAssumption, ResetIsSound
     DEF GameAssumption, Sound, EnvReset
<1>3. r \in 1..MaxRuns /\ r = run + 1 /\ r \in Nat
  BY <1>1, EpisodeAssumption DEF EpisodeAssumption
<1>4. Holds(old, P)
  <2> SUFFICES ASSUME NEW s \in DOMAIN old PROVE <<s, old[s]>> \in P
    BY DEF Holds
  <2> DEFINE st == old[s]
  <2>1. <<s, st>> \in Ours(run) /\ Holds(old, Ours(r))
    BY <1>1, <1>3, OursLater DEF Holds
  <2>2. <<s, st>> \in Ours(r)
    BY <2>1 DEF Holds
  <2> HIDE DEF st, old
  <2>3. PICK q \in 1..run : st.prov[1] = EpisodeOf[q]
    BY <2>1 DEF Ours
  <2>4. q \in 1..MaxRuns /\ q # r
    BY <1>1, <1>3, EpisodeAssumption DEF EpisodeAssumption
  <2>5. st.prov[1] # EpisodeOf[r]
    BY <1>3, <2>3, <2>4 DEF WholeGame
  <2>6. <<s, st>> \in P
    BY <1>1, <2>2, <2>5 DEF Traced
  <2> QED
    BY <2>6 DEF st
<1>5. JustArchived(root, e.history, native)
  BY <1>2, <1>3, RootTyped
<1>6. /\ root.prov = RootId(r) /\ root.observation = Summary[Observation[SeededStart]]
  BY <1>2 DEF RootState, Archived
<1>7. id \in StateIds
  BY <1>2 DEF StateIds
<1> HIDE DEF root
<1>8. <<id, root>> \in P
  <2>1. root \in ArchivedStates /\ root.native = native
    BY <1>5 DEF JustArchived
  <2>2. root.observation # EmptyText
    BY <1>2, <1>6 DEF WholeGame
  <2>3. root.prov[1] = EpisodeOf[r] /\ root.prov[2] = 0
    BY <1>6 DEF RootId
  <2>4. r \in 1..r
    BY <1>3
  <2> HIDE DEF r
  <2>5. <<id, root>> \in Ours(r)
    BY <1>7, <2>1, <2>2, <2>3, <2>4 DEF Ours
  <2> QED
    BY <1>1, <2>3, <2>5 DEF Traced
<1>9. KeptByMerges(P)
  BY TracedKeptByMerges
<1>10. old \in Archives /\ root \in ArchivedStates
  BY <1>1, <1>5 DEF JustArchived
<1> HIDE DEF P, old, id
<1>11. Holds(Upsert(old, id, root), P)
  BY <1>4, <1>7, <1>8, <1>9, <1>10, UpsertFacts
<1>12. Holds(archive', P)
  BY <1>1, <1>11 DEF old, id, root
<1>13. Holds(archive', Traced(paths, run, CyclesArchived)')
  BY <1>1, <1>12 DEF P, Traced, Ours, IsAStepOf, CyclesArchived
<1>14. Holds(disk.states, Ours(run'))
  BY <1>1, OursLater
<1>15. PathsInv' /\ RootInv' /\ BatchesInv'
  BY <1>1 DEF PathsInv, RootInv, BatchesInv
<1> QED
  BY <1>1, <1>13, <1>14, <1>15 DEF WholeInv, Holds, Ours

\* A root is restored, or not.
LEMMA RestoreIsWhole ==
  ASSUME WholeGame, IInv, RunInv, WholeInv, NEW s \in DOMAIN archive,
         RestoreFails(s) \/ RestoreSucceeds(s)
  PROVE  WholeInv'
<1>1. /\ archive \in Archives /\ archive[s] \in ArchivedStates
      /\ Holds(archive, Reaching) /\ Holds(archive, Traced(paths, run, CyclesArchived))
      /\ env \in Wrappers(GameTexts) /\ run \in Nat /\ cycle \in Nat /\ cycle' = cycle + 1
      /\ phase = "select" /\ phase' \in {"select", "close", "explore"}
      /\ branches = << >> /\ batch = << >>
      /\ UNCHANGED <<run, branches, batch, paths, disk>>
  <2>1. /\ archive \in Archives /\ archive[s] \in ArchivedStates
        /\ Holds(archive, Reaching) /\ Holds(archive, Traced(paths, run, CyclesArchived))
        /\ env \in Wrappers(GameTexts) /\ run \in Nat /\ cycle \in Nat
    BY ArchiveFacts, EpisodeAssumption
       DEF EpisodeAssumption, IInv, ControlInv, ArchiveInv, RunInv, WholeInv
  <2>2. /\ phase = "select" /\ cycle' = cycle + 1 /\ phase' \in {"select", "close", "explore"}
        /\ UNCHANGED <<run, branches, batch, paths, disk>>
    BY DEF RestoreFails, RestoreSucceeds, Loop, diskVars
  <2>3. branches = << >> /\ batch = << >>
    BY <2>2 DEF IInv, BranchInv
  <2> QED
    BY <2>1, <2>2, <2>3
<1>2. PICK success \in BOOLEAN : archive' = NoteRestore(archive, s, success)
  BY DEF RestoreFails, RestoreSucceeds
<1>3. Alters(archive, archive')
  BY <1>1, <1>2, NoteRestoreAlters
<1>4. Holds(archive', Traced(paths, run, CyclesArchived)')
  <2> DEFINE d == CyclesArchived'
  <2>1. /\ CyclesArchived = cycle /\ cycle \in Int /\ cycle' \in Int
        /\ d \in {cycle, cycle'} /\ d \in Int /\ cycle =< d
    BY <1>1 DEF CyclesArchived
  <2> HIDE DEF d
  <2>2. Holds(archive, Traced(paths, run, d))
    BY <1>1, <2>1, TracedLater
  <2>3. Holds(archive', Traced(paths, run, d))
    BY <1>1, <1>3, <2>2, AlteredIsTraced
  <2> QED
    BY <1>1, <2>3 DEF d, Traced, Ours, IsAStepOf
<1>5. PathsInv'
  <2> SUFFICES ASSUME NEW id \in DOMAIN paths
               PROVE  /\ Whole(paths[id])
                      /\ id[1] = EpisodeOf[run]
                      /\ id[2] =< (IF phase' = "explore" THEN cycle' - 1 ELSE cycle')
    BY <1>1 DEF PathsInv
  <2>1. Whole(paths[id]) /\ id[1] = EpisodeOf[run] /\ id[2] =< cycle
    BY <1>1 DEF WholeInv, PathsInv
  <2>2. id[2] \in Nat
    BY TopBoundsTheRetained DEF IInv, TrajectoryIds
  <2> QED
    BY <1>1, <2>1, <2>2
<1>6. RootInv'
  <2>1. DOMAIN branches' = {}
    BY <1>1
  <2>2. ASSUME phase' = "explore" PROVE base'.prefix = archive'[selected'].replay
    <3>0. RestoreSucceeds(s) /\ selected' = s
      BY <1>1, <2>2 DEF RestoreFails, RestoreSucceeds
    <3>1. PICK outcome \in RestoreArchived(env, archive[s]) :
               /\ outcome.result.success
               /\ base' = NodeAt(outcome.env,
                                 IF NativeSnapshots THEN outcome.env.world ELSE NoNative,
                                 Len(outcome.env.history) - 1)
      BY <3>0 DEF RestoreSucceeds
    <3> DEFINE a == archive[s]
    <3>2. a.observation # EmptyText
      BY <1>1 DEF Holds, Traced, Ours
    <3>3. outcome.env.history = a.replay
      BY <1>1, <3>1, <3>2, ArchivedRestore
    <3>4. base'.prefix = outcome.env.history
      BY <3>1 DEF NodeAt
    <3>5. archive'[s].replay = archive[s].replay
      BY <1>3 DEF Alters, SameEntry
    <3> QED
      BY <3>0, <3>3, <3>4, <3>5
  <2> QED
    BY <2>1, <2>2 DEF RootInv
<1>7. BatchesInv'
  BY <1>1 DEF BatchesInv
<1>8. Holds(disk.states, Ours(run))
  BY DEF WholeInv
<1> QED
  BY <1>1, <1>4, <1>5, <1>6, <1>7, <1>8 DEF WholeInv, Holds, Ours

\* A branch.
LEMMA ExploreIsWhole ==
  ASSUME WholeGame, IInv, RunInv, WholeInv, ExploreBranch
  PROVE  WholeInv'
<1>1. /\ env \in Wrappers(GameTexts) /\ base \in Nodes(GameTexts) /\ BranchesTyped
      /\ SoundBase /\ archive \in Archives /\ selected \in DOMAIN archive
      /\ phase = "explore" /\ total \in Nat
      /\ UNCHANGED <<phase, run, cycle, archive, disk, base, selected, batch, paths>>
  BY EpisodeAssumption DEF EpisodeAssumption, IInv, ControlInv, ArchiveInv, BranchInv, BudgetInv,
                           RunInv, ExploreBranch, diskVars
<1>2. BranchHorizon \in Nat
  BY <1>1, BudgetOfACycle
<1>3. IdsFollowMoves /\ \A v \in Worlds, w \in Worlds : Like(v, w) => v = w
  BY WholeGamesAreIdsFollowMoves
<1>4. base.prefix = archive[selected].replay /\ base.prefix \in Seq(Actions)
  BY <1>1 DEF WholeInv, RootInv, Nodes
<1>5. PICK outcome \in BranchStart :
          IF outcome.result.success
          THEN \E actions \in Rollouts(outcome.env) :
                 /\ env' = RolledOut(outcome.env, actions)
                 /\ branches' = Append(branches, StepsOf(outcome.env, actions))
          ELSE env' = outcome.env /\ branches' = Append(branches, << >>)
  BY DEF ExploreBranch
<1>6. \E branch \in Seq(StepRecords) :
        Whole(branch) /\ BeginsAt(branch, RootWorld) /\ branches' = Append(branches, branch)
  <2>1. CASE outcome.result.success
    <3>1. PICK actions \in Rollouts(outcome.env) :
            branches' = Append(branches, StepsOf(outcome.env, actions))
      BY <1>5, <2>1
    <3>2. actions \in Seq(Actions)
      BY <1>2, <3>1, RolloutsAreActions
    <3> DEFINE e == outcome.env
    <3>3. e \in Wrappers(GameTexts) /\ Reached(e, base) /\ e.history = base.prefix
      BY <1>1, <2>1, BranchRestore
    <3> HIDE DEF e
    <3>4. OnTheRun(e)
      <4>1. CASE Explained(e)
        BY <1>3, <3>3, <4>1, ExplainedIsOnTheRun
      <4>2. CASE PutBack(e, base)
        BY <1>1, <4>2 DEF PutBack, SoundBase, OnTheRun
      <4> QED
        BY <3>3, <4>1, <4>2 DEF Reached
    <3>5. e.world = RootWorld
      <4>1. SeededStart \in Worlds /\ e.world \in Worlds /\ e.history \in Seq(Actions)
        BY <3>3, GameAssumption DEF GameAssumption, Wrappers
      <4>2. Play(SeededStart, e.history) \in Worlds
        BY <4>1, PlayTyped
      <4>3. Play(SeededStart, e.history) = e.world
        BY <1>3, <3>4, <4>1, <4>2 DEF OnTheRun, CanReach, WholeGame
      <4> QED
        BY <1>4, <3>3, <4>3 DEF RootWorld
    <3>6. /\ Whole(StepsOf(e, actions)) /\ BeginsAt(StepsOf(e, actions), RootWorld)
          /\ StepsOf(e, actions) \in Seq(StepRecords)
      BY <3>2, <3>3, <3>5, RolloutIsWhole, StepsOfTyped
    <3> QED
      BY <3>1, <3>6 DEF e
  <2>2. CASE ~outcome.result.success
    <3> DEFINE empty == << >>
    <3>1. branches' = Append(branches, empty) /\ empty \in Seq(StepRecords) /\ Len(empty) = 0
      BY <1>5, <2>2
    <3> HIDE DEF empty
    <3>2. Whole(empty) /\ BeginsAt(empty, RootWorld)
      BY <3>1 DEF Whole, BeginsAt
    <3> QED
      BY <3>1, <3>2
  <2> QED
    BY <2>1, <2>2
<1>7. PICK branch \in Seq(StepRecords) :
        Whole(branch) /\ BeginsAt(branch, RootWorld) /\ branches' = Append(branches, branch)
  BY <1>6
<1>8. \A b \in DOMAIN branches' : Whole(branches'[b]) /\ BeginsAt(branches'[b], RootWorld)
  <2>1. \A b \in DOMAIN branches' :
          branches'[b] = branch \/ (b \in DOMAIN branches /\ branches'[b] = branches[b])
    BY <1>1, <1>7 DEF BranchesTyped
  <2> QED
    BY <1>1, <1>7, <2>1 DEF WholeInv, RootInv
<1>9. RootWorld' = RootWorld
  BY <1>1 DEF RootWorld
<1>10. RootInv'
  BY <1>1, <1>4, <1>8, <1>9 DEF RootInv
<1>11. PathsInv' /\ BatchesInv'
  BY <1>1 DEF WholeInv, PathsInv, BatchesInv
<1>12. CyclesArchived' = CyclesArchived
  BY <1>1 DEF CyclesArchived
<1>13. /\ Holds(archive', Traced(paths, run, CyclesArchived)')
       /\ Holds(disk.states, Ours(run))'
  BY <1>1, <1>12 DEF WholeInv, Holds, Traced, Ours, IsAStepOf
<1> QED
  BY <1>10, <1>11, <1>13 DEF WholeInv

\* The prefix of the trajectories of a cycle ends at its root.
LEMMA PrefixEndsAtTheRoot ==
  ASSUME WholeGame, IInv, RunInv, WholeInv, phase = "explore",
         NEW prefix, prefix = PrefixSteps(archive[selected])
  PROVE  /\ prefix \in Seq(StepRecords) /\ Whole(prefix)
         /\ Len(prefix) \in 1..Len(prefix) => prefix[Len(prefix)].world = RootWorld
<1>1. /\ FrontierInv /\ archive \in Archives /\ selected \in DOMAIN archive
      /\ Holds(archive, Reaching) /\ Holds(archive, Traced(paths, run, CyclesArchived))
  BY DEF IInv, ControlInv, ArchiveInv, RunInv, WholeInv
<1> DEFINE a == archive[selected]
           s == selected
<1>2. /\ a \in ArchivedStates /\ s \in StateIds
      /\ <<s, a>> \in Reaching /\ <<s, a>> \in Traced(paths, run, CyclesArchived)
  BY <1>1, ArchiveFacts DEF Holds
<1>3. RootWorld = Play(SeededStart, a.replay) /\ prefix = PrefixSteps(a)
  BY DEF RootWorld
<1> HIDE DEF a, s
<1>4. prefix \in Seq(StepRecords)
  BY <1>1, <1>2, <1>3, PrefixTyped
<1>5. CASE a.prov \notin DOMAIN paths
  <2> DEFINE empty == << >>
  <2>0. Len(empty) = 0 /\ prefix = empty
    BY <1>3, <1>5 DEF PrefixSteps
  <2> HIDE DEF empty
  <2>1. Len(prefix) = 0
    BY <2>0
  <2>2. Whole(prefix)
    BY <2>1 DEF Whole
  <2> QED
    BY <1>4, <2>1, <2>2
<1>6. CASE a.prov \in DOMAIN paths
  <2> DEFINE p == paths[a.prov]
             k == a.timestep + 1
  <2>1. /\ p \in Seq(StepRecords) /\ Len(p) \in Nat
        /\ k =< Len(p) => PrefixSteps(a) = SubSeq(p, 1, k)
    BY <1>1, <1>2, <1>6, PrefixIsAPart
  <2>2. /\ k \in 1..Len(p) /\ StateId[p[k].world] = s
        /\ NativeSnapshots \/ a.replay = p[k].replay
    BY <1>2, <1>6 DEF Traced, IsAStepOf
  <2>3. Whole(p) /\ Leads(p)
    BY <1>6 DEF WholeInv, PathsInv, RunInv
  <2>4. StateId[Play(SeededStart, a.replay)] = s /\ a.replay \in Seq(Actions)
    <3>1. CanLeadTo(a.replay, s) /\ a.replay \in Seq(Actions)
      BY <1>2 DEF Reaching, ArchivedStates
    <3> QED
      BY <3>1 DEF CanLeadTo, WholeGame
  <2> HIDE DEF p, k
  <2>5. prefix = SubSeq(p, 1, k) /\ k \in 0..Len(p)
    BY <1>3, <2>1, <2>2
  <2>6. Whole(prefix)
    BY <2>1, <2>3, <2>5, WholeUpTo
  <2>7. Len(prefix) = k /\ prefix[k] = p[k]
    BY <2>1, <2>2, <2>5
  <2>8. p[k].world = RootWorld
    <3>1. p[k].world \in Worlds /\ p[k].replay \in Seq(Actions)
      <4>1. p[k] \in StepRecords
        BY <2>1, <2>2
      <4> QED
        BY <4>1 DEF StepRecords
    <3>2. SeededStart \in Worlds
      BY GameAssumption DEF GameAssumption
    <3>3. RootWorld \in Worlds
      BY <1>3, <2>4, <3>2, PlayTyped
    <3>4. CASE NativeSnapshots
      BY <1>3, <2>2, <2>4, <3>1, <3>3, <3>4 DEF WholeGame
    <3>5. CASE ~NativeSnapshots
      <4>1. Like(Play(SeededStart, p[k].replay), p[k].world)
        BY <2>2, <2>3 DEF Leads, CanReach, WholeGame
      <4> QED
        BY <1>3, <2>2, <3>5, <4>1 DEF Like
    <3> QED
      BY <3>4, <3>5
  <2> QED
    BY <1>4, <2>6, <2>7, <2>8
<1> QED
  BY <1>5, <1>6

\* The trajectories of a cycle.
LEMMA FinishIsWhole ==
  ASSUME WholeGame, IInv, RunInv, WholeInv, FinishExploration
  PROVE  WholeInv'
<1>1. /\ archive \in Archives /\ selected \in DOMAIN archive /\ BranchesTyped
      /\ run \in 1..MaxRuns /\ cycle \in 1..MaxCycles /\ Len(branches) =< BranchesPerRoot
      /\ phase = "explore" /\ phase' \in {"close", "insert"}
      /\ phase' = (IF batch' = << >> THEN "close" ELSE "insert")
      /\ batch' = BranchTrajectories
      /\ UNCHANGED <<run, cycle, disk, base, branches, paths>>
  BY DEF IInv, ControlInv, ArchiveInv, BranchInv, FinishExploration, diskVars
<1> DEFINE prefix == PrefixSteps(archive[selected])
<1>2. /\ prefix \in Seq(StepRecords) /\ Whole(prefix)
      /\ Len(prefix) \in 1..Len(prefix) => prefix[Len(prefix)].world = RootWorld
  BY <1>1, PrefixEndsAtTheRoot
<1>3. \A k \in 1..Len(BranchTrajectories) : \E b \in BranchesThatMoved :
        BranchTrajectories[k] = BranchTrajectory(prefix, b)
  BY <1>1, <1>2, BranchTrajectoriesFacts
<1>4. \A k \in 1..Len(BranchTrajectories), l \in 1..Len(BranchTrajectories) :
        BranchTrajectories[k].id = BranchTrajectories[l].id => k = l
  BY <1>1, <1>2, IdsOfABatch
<1> HIDE DEF prefix
<1>5. ASSUME NEW b \in BranchesThatMoved
      PROVE  /\ Whole(BranchTrajectory(prefix, b).steps)
             /\ BranchTrajectory(prefix, b).id[1] = EpisodeOf[run]
             /\ BranchTrajectory(prefix, b).id[2] = cycle
  <2>1. branches[b] \in Seq(StepRecords) /\ Whole(branches[b]) /\ BeginsAt(branches[b], RootWorld)
    BY <1>1 DEF BranchesThatMoved, BranchesTyped, WholeInv, RootInv
  <2>2. Whole(prefix \o branches[b])
    BY <1>2, <2>1, WholeOn
  <2> QED
    BY <2>2 DEF BranchTrajectory
<1>6. ASSUME NEW id \in DOMAIN paths
      PROVE  id[1] = EpisodeOf[run] /\ id[2] =< cycle - 1 /\ id[2] \in Nat /\ Whole(paths[id])
  BY <1>1, TopBoundsTheRetained DEF IInv, TrajectoryIds, WholeInv, PathsInv
<1>7. ASSUME NEW k \in 1..Len(BranchTrajectories)
      PROVE  /\ Whole(BranchTrajectories[k].steps)
             /\ BranchTrajectories[k].id[1] = EpisodeOf[run]
             /\ BranchTrajectories[k].id[2] = cycle
             /\ BranchTrajectories[k].id \notin DOMAIN paths
  <2>1. PICK b \in BranchesThatMoved : BranchTrajectories[k] = BranchTrajectory(prefix, b)
    BY <1>3
  <2>2. /\ Whole(BranchTrajectories[k].steps)
        /\ BranchTrajectories[k].id[1] = EpisodeOf[run]
        /\ BranchTrajectories[k].id[2] = cycle
    BY <1>5, <2>1
  <2>3. BranchTrajectories[k].id \notin DOMAIN paths
    BY <1>1, <1>6, <2>2
  <2> QED
    BY <2>2, <2>3
<1>8. BatchesInv'
  <2> DEFINE v == BranchTrajectories
  <2>1. /\ batch' = v /\ run' = run /\ cycle' = cycle /\ paths' = paths
        /\ \A k \in 1..Len(v) : /\ Whole(v[k].steps)
                                /\ v[k].id[1] = EpisodeOf[run] /\ v[k].id[2] = cycle
                                /\ v[k].id \notin DOMAIN paths
        /\ \A k \in 1..Len(v), l \in 1..Len(v) : v[k].id = v[l].id => k = l
    BY <1>1, <1>4, <1>7
  <2> HIDE DEF v
  <2> QED
    BY <2>1 DEF BatchesInv
<1>9. PathsInv'
  BY <1>1, <1>6 DEF PathsInv
<1>10. RootInv'
  BY <1>1 DEF WholeInv, RootInv
<1>11. Holds(archive', Traced(paths, run, CyclesArchived)')
  <2>1. PICK j \in Judgements, level \in SaturationLevels :
          archive' = NoteRevisit(archive, selected, j.achieved, j.exploratory, level)
    BY DEF FinishExploration
  <2> DEFINE achieved == j.achieved
             exploratory == j.exploratory
             c == NoteRevisit(archive, selected, achieved, exploratory, level)
             d == CyclesArchived'
  <2>2. achieved \in BOOLEAN /\ exploratory \in BOOLEAN /\ level \in Nat
    BY <2>1, EpisodeAssumption DEF Judgements, EpisodeAssumption
  <2> HIDE DEF achieved, exploratory
  <2>3. Alters(archive, c)
    BY <1>1, <2>2, NoteRevisitAlters
  <2>4. archive' = c
    BY <2>1 DEF achieved, exploratory
  <2> HIDE DEF c
  <2>5. /\ CyclesArchived \in Int /\ d \in Int /\ CyclesArchived =< d
        /\ run \in Nat
    BY <1>1, EpisodeAssumption DEF EpisodeAssumption, CyclesArchived
  <2> HIDE DEF d
  <2>6. Holds(archive, Traced(paths, run, d))
    BY <1>1, <2>5, TracedLater DEF WholeInv
  <2>7. Holds(c, Traced(paths, run, d))
    BY <1>1, <2>3, <2>6, AlteredIsTraced
  <2> QED
    BY <1>1, <2>4, <2>7 DEF d, Traced, Ours, IsAStepOf
<1>12. Holds(disk.states, Ours(run))'
  BY <1>1 DEF WholeInv, Holds, Ours
<1> QED
  BY <1>8, <1>9, <1>10, <1>11, <1>12 DEF WholeInv

\* A trajectory is retained.
LEMMA InsertIsWhole ==
  ASSUME WholeGame, IInv, WholeInv, InsertTrajectory
  PROVE  WholeInv'
<1> DEFINE t == batch[inserted + 1]
           k == inserted + 1
           value == TrajectoryValue(t.steps)
<1>1. /\ k \in 1..Len(batch)
      /\ DOMAIN trajectories' \subseteq DOMAIN trajectories \cup {t.id}
      /\ paths' = [id \in DOMAIN trajectories' |-> paths'[id]]
      /\ \A id \in DOMAIN trajectories' : paths'[id] = IF id = t.id THEN t.steps ELSE paths[id]
  BY InsertionFacts
<1>2. /\ DOMAIN paths = DOMAIN trajectories /\ archive \in Archives
      /\ phase = "insert" /\ phase' \in {"insert", "update"} /\ cycle \in Nat
      /\ UNCHANGED <<run, cycle, archive, disk, base, selected, branches, batch>>
  BY EpisodeAssumption DEF EpisodeAssumption, IInv, ControlInv, ArchiveInv, FrontierInv,
                           InsertTrajectory, diskVars
<1>3. /\ \A j \in 1..Len(batch) :
            /\ Whole(batch[j].steps)
            /\ batch[j].id[1] = EpisodeOf[run] /\ batch[j].id[2] = cycle
            /\ batch[j].id \in DOMAIN paths => paths[batch[j].id] = batch[j].steps
      /\ \A j \in 1..Len(batch), l \in 1..Len(batch) : batch[j].id = batch[l].id => j = l
  BY DEF WholeInv, BatchesInv
<1>4. Whole(t.steps) /\ t.id[1] = EpisodeOf[run] /\ t.id[2] = cycle /\ t = batch[k]
  BY <1>1, <1>3
<1> HIDE DEF t, k
<1>5. ASSUME NEW id \in DOMAIN paths'
      PROVE  (id = t.id /\ paths'[id] = t.steps) \/ (id \in DOMAIN paths /\ paths'[id] = paths[id])
  <2>1. id \in DOMAIN trajectories'
    BY <1>1
  <2> QED
    BY <1>1, <1>2, <2>1
<1>6. PathsInv'
  <2>1. ASSUME NEW id \in DOMAIN paths'
        PROVE  Whole(paths'[id]) /\ id[1] = EpisodeOf[run] /\ id[2] =< cycle
    <3>1. CASE id = t.id /\ paths'[id] = t.steps
      BY <1>2, <1>4, <3>1
    <3>2. CASE id \in DOMAIN paths /\ paths'[id] = paths[id]
      BY <1>2, <3>2 DEF WholeInv, PathsInv
    <3> QED
      BY <1>5, <2>1, <3>1, <3>2
  <2> QED
    BY <1>2, <2>1 DEF PathsInv
<1>7. BatchesInv'
  <2>1. ASSUME NEW j \in 1..Len(batch), batch[j].id \in DOMAIN paths'
        PROVE  paths'[batch[j].id] = batch[j].steps
    <3>1. CASE batch[j].id = t.id /\ paths'[batch[j].id] = t.steps
      BY <1>1, <1>3, <1>4, <3>1
    <3>2. CASE batch[j].id \in DOMAIN paths /\ paths'[batch[j].id] = paths[batch[j].id]
      BY <1>3, <3>2
    <3> QED
      BY <1>5, <2>1, <3>1, <3>2
  <2> QED
    BY <1>2, <1>3, <2>1 DEF BatchesInv
<1>8. RootInv'
  BY <1>2 DEF WholeInv, RootInv
<1>9. Holds(archive, Traced(paths', run, CyclesArchived'))
  <2> SUFFICES ASSUME NEW s \in DOMAIN archive
               PROVE  <<s, archive[s]>> \in Traced(paths', run, CyclesArchived')
    BY DEF Holds
  <2> DEFINE st == archive[s]
  <2>1. /\ <<s, st>> \in Traced(paths, run, cycle - 1)
        /\ CyclesArchived' = cycle - 1 /\ st \in ArchivedStates
    BY <1>2, ArchiveFacts DEF WholeInv, Holds, CyclesArchived
  <2> HIDE DEF st
  <2>2. st.prov[2] \in Nat
    BY <2>1 DEF ArchivedStates, Provenances
  <2>3. st.prov # t.id
    <3>1. st.prov[1] = EpisodeOf[run] => st.prov[2] =< cycle - 1
      BY <2>1 DEF Traced
    <3> QED
      BY <1>2, <1>4, <2>2, <3>1
  <2>4. st.prov \in DOMAIN paths' => st.prov \in DOMAIN paths /\ paths'[st.prov] = paths[st.prov]
    BY <1>5, <2>3
  <2>5. <<s, st>> \in Traced(paths', run, cycle - 1)
    BY <2>1, <2>4 DEF Traced
  <2> QED
    BY <2>1, <2>5 DEF st
<1>10. Holds(archive', Traced(paths, run, CyclesArchived)')
  BY <1>2, <1>9 DEF Traced, Ours, IsAStepOf
<1>11. Holds(disk.states, Ours(run))'
  BY <1>2 DEF WholeInv, Holds, Ours
<1> QED
  BY <1>6, <1>7, <1>8, <1>10, <1>11 DEF WholeInv

\* The states of a batch come from its steps.
LEMMA StepsAreTraced ==
  ASSUME WholeGame, IInv, WholeInv, NEW k \in 1..Len(batch)
  PROVE  StepsHold(batch[k], Traced(paths, run, cycle))
<1> DEFINE t == batch[k]
<1> SUFFICES ASSUME NEW i \in 1..Len(t.steps)
             PROVE  <<StateId[t.steps[i].world], StateForStep(t, i)>> \in Traced(paths, run, cycle)
  BY DEF StepsHold
<1> DEFINE s == StateId[t.steps[i].world]
           new == StateForStep(t, i)
           replay == t.steps[i].replay
           w == t.steps[i].world
<1>1. /\ t \in Trajectories /\ Len(batch) =< Len(branches) /\ BranchesTyped
      /\ phase \notin {"idle", "select"}
  <2>1. batch \in Seq(Trajectories) /\ Len(batch) =< Len(branches) /\ BranchesTyped
        /\ (phase \in {"idle", "select"} => batch = << >>)
    BY DEF IInv, BranchInv, Batches
  <2>2. batch # << >>
    BY <2>1
  <2> QED
    BY <2>1, <2>2
<1>2. /\ Whole(t.steps) /\ t.id[1] = EpisodeOf[run] /\ t.id[2] = cycle
      /\ t.id \in DOMAIN paths => paths[t.id] = t.steps
  BY DEF WholeInv, BatchesInv
<1>3. run \in 1..run
  BY <1>1, EpisodeAssumption DEF EpisodeAssumption, IInv, ControlInv
<1>4. i \in Nat /\ (i - 1) + 1 = i
  BY <1>1 DEF Trajectories, Paths
<1>5. t.steps \in Seq(StepRecords) /\ cycle \in Nat
  BY <1>1, EpisodeAssumption DEF EpisodeAssumption, IInv, ControlInv, Trajectories, Paths
<1> HIDE DEF t
<1>6. t.steps[i] \in StepRecords
  BY <1>5
<1>7. w \in Worlds
  BY <1>6 DEF StepRecords
<1>8. s \in StateIds /\ JustArchived(new, replay, NoNative)
  BY <1>1, StateForStepTyped
<1>9. /\ new.prov = t.id /\ new.timestep = i - 1
      /\ new.observation = Summary[Observation[w]]
  BY DEF StateForStep, Archived
<1>10. new \in ArchivedStates /\ new.replay = replay /\ new.native = NoNative
  BY <1>8 DEF JustArchived
<1>11. replay # << >>
  BY <1>2 DEF Whole
<1> HIDE DEF new, s, replay, w
<1>12. new.observation # EmptyText
  BY <1>7, <1>9 DEF WholeGame
<1>13. <<s, new>> \in Ours(run)
  BY <1>2, <1>3, <1>8, <1>9, <1>10, <1>12 DEF Ours
<1>14. IsAStepOf(s, new, t.steps)
  BY <1>4, <1>9, <1>10, <1>11 DEF IsAStepOf, s, replay, w
<1>15. new.prov[2] =< cycle
  BY <1>2, <1>5, <1>9
<1>16. <<s, new>> \in Traced(paths, run, cycle)
  BY <1>2, <1>9, <1>13, <1>14, <1>15 DEF Traced
<1> QED
  BY <1>16 DEF s, new, w

\* The batch is archived.
LEMMA UpdateIsWhole ==
  ASSUME WholeGame, IInv, WholeInv, UpdateArchive
  PROVE  WholeInv'
<1>1. /\ FrontierInv /\ batch \in Batches /\ archive \in Archives /\ InsightTyped(insight)
      /\ Holds(archive, Traced(paths, run, CyclesArchived))
      /\ phase = "update" /\ phase' = "write" /\ cycle \in Nat /\ run \in Nat
      /\ UNCHANGED <<run, cycle, disk, base, selected, branches, batch, paths>>
  BY EpisodeAssumption DEF EpisodeAssumption, IInv, ControlInv, ArchiveInv, BranchInv, WholeInv,
                           UpdateArchive, diskVars
<1> DEFINE ingested == IngestAll(archive, batch)
           refreshed == Refresh(ingested, RetainedTrajectories)
           named == insight'
           P == Traced(paths, run, cycle)
<1>2. /\ named \in (IF AnalysisIsDue THEN Insights(refreshed, RetainedTrajectories, Rank) ELSE {insight})
      /\ archive' = Project(refreshed, named)
  BY DEF UpdateArchive
<1>3. ingested \in Archives /\ Holds(ingested, P)
  <2>1. \A i \in 1..Len(batch) : StepsHold(batch[i], P)
    BY StepsAreTraced
  <2>2. Holds(archive, P)
    <3>1. CyclesArchived \in Int /\ CyclesArchived =< cycle /\ cycle \in Int
      BY <1>1 DEF CyclesArchived
    <3> QED
      BY <1>1, <3>1, TracedLater
  <2>3. KeptByMerges(P)
    BY TracedKeptByMerges
  <2> HIDE DEF P
  <2>4. ingested \in Outgrowths(archive, P)
    BY <1>1, <2>1, <2>2, <2>3, BatchOutgrows
  <2> QED
    BY <2>4 DEF Outgrowths
<1> HIDE DEF ingested
<1>4. Alters(ingested, refreshed)
  BY <1>1, <1>3, RefreshFacts DEF Supported
<1> HIDE DEF refreshed
<1>5. refreshed \in Archives /\ Holds(refreshed, P)
  BY <1>3, <1>4, AlteredIsTraced DEF Alters
<1>6. InsightTyped(named)
  BY <1>1, <1>2, <1>5, InsightsTyped
<1> HIDE DEF named
<1> DEFINE b == Project(refreshed, named)
<1>7. Alters(refreshed, b)
  BY <1>5, <1>6, ProjectFacts
<1> HIDE DEF b
<1>8. Holds(b, P)
  BY <1>5, <1>7, AlteredIsTraced
<1>9. archive' = b
  BY <1>2 DEF b
<1>10. Holds(archive', Traced(paths, run, CyclesArchived)')
  BY <1>1, <1>8, <1>9 DEF Traced, Ours, IsAStepOf, CyclesArchived
<1>11. PathsInv' /\ RootInv' /\ BatchesInv'
  BY <1>1 DEF WholeInv, PathsInv, RootInv, BatchesInv
<1>12. Holds(disk.states, Ours(run))'
  BY <1>1 DEF WholeInv, Holds, Ours
<1> QED
  BY <1>10, <1>11, <1>12 DEF WholeInv

\* A snapshot is written, and the root of the cycle is left.
LEMMA WriteIsWhole ==
  ASSUME IInv, WholeInv, WriteSnapshot
  PROVE  WholeInv'
<1>1. /\ archive \in Archives /\ run \in Nat /\ cycle \in Nat
      /\ Holds(archive, Traced(paths, run, cycle))
      /\ phase = "write" /\ phase' \in {"close", "select"}
      /\ disk'.states = OnDisk(archive) /\ UNCHANGED <<run, cycle, archive, paths>>
      /\ branches' = << >> /\ batch' = << >>
  BY EpisodeAssumption DEF EpisodeAssumption, IInv, ControlInv, ArchiveInv, WholeInv,
                           CyclesArchived, WriteSnapshot
<1>2. Holds(OnDisk(archive), Ours(run))
  <2>1. Holds(archive, Ours(run))
    BY <1>1, TracedLater
  <2> QED
    BY <1>1, <2>1, OnDiskIsOurs
<1>3. Holds(disk.states, Ours(run))'
  BY <1>1, <1>2 DEF Holds, Ours
<1>4. DOMAIN branches' = {} /\ Len(batch') = 0
  BY <1>1
<1>5. PathsInv' /\ RootInv' /\ BatchesInv'
  BY <1>1, <1>4 DEF WholeInv, PathsInv, RootInv, BatchesInv
<1>6. Holds(archive', Traced(paths, run, CyclesArchived)')
  BY <1>1 DEF Traced, Ours, IsAStepOf, CyclesArchived
<1> QED
  BY <1>3, <1>5, <1>6 DEF WholeInv

\* The episode is dropped.
LEMMA ForgetIsWhole ==
  ASSUME Forget, Holds(disk.states, Ours(run))'
  PROVE  WholeInv'
<1>1. /\ archive' = Nothing /\ paths' = Nothing /\ phase' = "idle"
      /\ branches' = << >> /\ batch' = << >>
  BY DEF Forget
<1>2. DOMAIN branches' = {} /\ Len(batch') = 0 /\ DOMAIN paths' = {} /\ DOMAIN archive' = {}
  BY <1>1, NothingIsAnArchive
<1>3. PathsInv' /\ RootInv' /\ BatchesInv'
  BY <1>1, <1>2 DEF PathsInv, RootInv, BatchesInv
<1>4. Holds(archive, Traced(paths, run, CyclesArchived))'
  BY <1>2 DEF Holds
<1> QED
  BY <1>3, <1>4 DEF WholeInv

\* The other steps.
LEMMA NothingElseBreaksThem ==
  ASSUME IInv, WholeInv, LoadFails \/ BudgetSpent \/ UNCHANGED vars
  PROVE  WholeInv'
<1>1. /\ archive \in Archives /\ run \in Nat /\ cycle \in Nat
      /\ UNCHANGED <<cycle, archive, disk, base, selected, branches, batch, paths>>
  BY EpisodeAssumption DEF EpisodeAssumption, IInv, ControlInv, ArchiveInv, LoadFails, BudgetSpent,
                           vars, episodeVars, diskVars
<1>2. CASE LoadFails
  <2>1. run' = run + 1 /\ phase = "idle" /\ phase' = "idle"
    BY <1>2 DEF LoadFails
  <2>2. Holds(disk.states, Ours(run + 1))
    BY <1>1, OursLater DEF WholeInv
  <2>3. DOMAIN paths = {} /\ batch = << >> /\ branches = << >>
    BY <2>1 DEF IInv, BranchInv, WholeInv, PathsInv
  <2>4. DOMAIN archive = {}
    BY <2>1 DEF WholeInv, PathsInv
  <2>5. PathsInv' /\ RootInv' /\ BatchesInv'
    BY <1>1, <2>1, <2>3, <2>4 DEF PathsInv, RootInv, BatchesInv, RootWorld
  <2> QED
    BY <1>1, <2>1, <2>2, <2>4, <2>5 DEF WholeInv, Holds, Ours
<1>3. CASE BudgetSpent \/ UNCHANGED vars
  <2>1. run' = run /\ (phase' = phase \/ (phase = "select" /\ phase' = "close"))
    BY <1>3 DEF BudgetSpent, vars
  <2>2. CyclesArchived' = CyclesArchived
    BY <1>1, <2>1 DEF CyclesArchived
  <2>3. PathsInv' /\ RootInv' /\ BatchesInv'
    BY <1>1, <2>1 DEF WholeInv, PathsInv, RootInv, BatchesInv, RootWorld
  <2> QED
    BY <1>1, <2>1, <2>2, <2>3 DEF WholeInv, Holds, Traced, Ours, IsAStepOf
<1> QED
  BY <1>2, <1>3

\* Every step of the loop.
LEMMA NextIsWhole ==
  ASSUME WholeGame, IInv, RunInv, WholeInv, [Next]_vars
  PROVE  WholeInv'
<1>1. CASE LoadFails \/ BudgetSpent \/ UNCHANGED vars
  BY <1>1, NothingElseBreaksThem
<1>2. CASE StartEpisode
  BY <1>2, StartIsWhole
<1>3. ASSUME NEW s \in Selectable(archive, insight), RestoreFails(s) \/ RestoreSucceeds(s)
      PROVE  WholeInv'
  <2>1. s \in DOMAIN archive
    BY DEF Selectable
  <2> QED
    BY <1>3, <2>1, RestoreIsWhole
<1>4. CASE ExploreBranch
  BY <1>4, ExploreIsWhole
<1>5. CASE FinishExploration
  BY <1>5, FinishIsWhole
<1>6. CASE InsertTrajectory
  BY <1>6, InsertIsWhole
<1>7. CASE UpdateArchive
  BY <1>7, UpdateIsWhole
<1>8. CASE WriteSnapshot
  BY <1>8, WriteIsWhole
<1>9. CASE Close \/ Crash
  <2>1. Forget /\ disk' = disk /\ run' = run
    BY <1>9 DEF Close, Crash, diskVars
  <2>2. Holds(disk.states, Ours(run))'
    BY <2>1 DEF WholeInv, Holds, Ours
  <2> QED
    BY <2>1, <2>2, ForgetIsWhole
<1>10. CASE CrashWhileWriting
  <2>1. PICK kept \in SUBSET DOMAIN archive : disk'.states = OnDisk(Restrict(archive, kept))
    BY <1>10 DEF CrashWhileWriting
  <2>2. /\ archive \in Archives /\ run \in Nat /\ cycle \in Nat /\ run' = run
        /\ Holds(archive, Traced(paths, run, cycle))
    BY <1>10, EpisodeAssumption DEF EpisodeAssumption, IInv, ControlInv, ArchiveInv, WholeInv,
                                    CyclesArchived, CrashWhileWriting
  <2>3. Holds(archive, Ours(run))
    BY <2>2, TracedLater
  <2>4. Holds(OnDisk(Restrict(archive, kept)), Ours(run))
    BY <2>1, <2>2, <2>3, OnDiskIsOurs
  <2>5. Holds(disk.states, Ours(run))'
    BY <2>1, <2>2, <2>4 DEF Holds, Ours
  <2> QED
    BY <1>10, <2>5, ForgetIsWhole DEF CrashWhileWriting
<1> QED
  BY <1>1, <1>2, <1>3, <1>4, <1>5, <1>6, <1>7, <1>8, <1>9, <1>10 DEF Next, Proceed

\* In a whole game, every trajectory, retained or still to be inserted, is one play, and
\* every archived state is found where its provenance says.
LEMMA WholeInvariant == Spec => [](WholeGame => WholeInv)
<1>1. Init => (WholeGame => WholeInv)
  <2> SUFFICES ASSUME Init PROVE WholeInv
    OBVIOUS
  <2>1. /\ archive = Nothing /\ paths = Nothing /\ disk.states = Nothing /\ phase = "idle"
        /\ branches = << >> /\ batch = << >>
    BY DEF Init
  <2>2. /\ DOMAIN branches = {} /\ Len(batch) = 0 /\ DOMAIN paths = {} /\ DOMAIN archive = {}
        /\ DOMAIN disk.states = {}
    BY <2>1, NothingIsAnArchive
  <2> QED
    BY <2>1, <2>2 DEF WholeInv, PathsInv, RootInv, BatchesInv, Holds
<1>2. IInv /\ (IdsFollowMoves => RunInv) /\ (WholeGame => WholeInv) /\ [Next]_vars
        => (WholeGame => WholeInv)'
  <2>1. ASSUME WholeGame' PROVE WholeGame /\ IdsFollowMoves
    <3>1. WholeGame
      BY <2>1 DEF WholeGame
    <3> QED
      BY <3>1, WholeGamesAreIdsFollowMoves
  <2> QED
    BY <2>1, NextIsWhole
<1> QED
  BY <1>1, <1>2, LoopInvariant, RunInvariant, PTL DEF Spec

-----------------------------------------------------------------------------
(* The theorems. *)

\* Every reachable state is well formed.
THEOREM TypeCorrect == Spec => []TypeOK
<1>1. IInv => TypeOK
  <2> SUFFICES ASSUME IInv PROVE TypeOK
    OBVIOUS
  <2>1. phase \in {"idle", "write", "select", "explore", "insert", "update", "close"}
        /\ run \in 0..MaxRuns
    BY DEF IInv, ControlInv
  <2>2. DOMAIN archive \subseteq {StateId[w] : w \in Worlds}
    BY ArchiveFacts DEF IInv, ArchiveInv, StateIds
  <2>3. DOMAIN paths = DOMAIN trajectories
    BY DEF IInv, FrontierInv
  <2>4. Len(branches) =< BranchesPerRoot /\ Len(batch) =< Len(branches)
    BY DEF IInv, BranchInv
  <2>5. inserted =< Len(batch)
    BY DEF IInv, BranchInv, Batches
  <2>6. best # NoBest => best.value \in Int /\ best.score \in Int
    BY DEF IInv, BestInv
  <2> QED
    BY <2>1, <2>2, <2>3, <2>4, <2>5, <2>6 DEF TypeOK
<1> QED
  BY <1>1, LoopInvariant, PTL

\* The branches of all cycles share max_steps, and cycles are paid for by steps or by
\* tolerated failures of a restore.
THEOREM BudgetIsRespected == Spec => []BudgetRespected
<1>1. IInv => BudgetRespected
  <2>1. MaxReplayAttempts \in Nat /\ MaxSteps \in Nat /\ MaxCycles \in Nat
    BY EpisodeAssumption DEF EpisodeAssumption
  <2> QED
    BY <2>1 DEF IInv, BudgetInv, ControlInv, BudgetRespected
<1> QED
  BY <1>1, LoopInvariant, PTL

\* ArchivedState.validate_invariants never raises: through ingestions, merges,
\* refreshes, projections, writes, cut writes and reloads, the potential of a state in
\* memory or on disk is at least what it achieved.
THEOREM PotentialNeverBelowAchieved == Spec => []PotentialBoundsAchieved
<1>1. IInv => PotentialBoundsAchieved
  <2> SUFFICES ASSUME IInv, NEW states \in {archive, disk.states}, NEW s \in DOMAIN states,
                      states[s].projected # NoValue
               PROVE  states[s].projected >= states[s].achieved
    BY DEF PotentialBoundsAchieved
  <2>1. Holds(states, Bounded)
    BY DEF IInv, ArchiveInv
  <2>2. IsBounded(states[s])
    BY <2>1 DEF Holds, Bounded
  <2> QED
    BY <2>2 DEF IsBounded
<1> QED
  BY <1>1, LoopInvariant, PTL

\* The reported best trajectory is worth what the best retained one is, whatever the
\* bounded frontier evicted.
THEOREM BestTrajectoryIsTheTop == Spec => []BestIsTheFrontiersTop
<1>1. IInv => BestIsTheFrontiersTop
  <2> SUFFICES ASSUME IInv, best # NoBest PROVE best.value = Max({e.value : e \in entries})
    BY DEF BestIsTheFrontiersTop
  <2> DEFINE V == {e.value : e \in entries}
             v == best.value
  <2>1. /\ v \in Int /\ \A e \in entries : e.value =< v
        /\ \E e \in entries : e.value = v
    BY DEF IInv, BestInv
  <2>2. \A e \in entries : e.value \in Int
    BY FrontierFacts DEF IInv, FrontierInv
  <2> HIDE DEF v
  <2>3. V \in SUBSET Int /\ V # {} /\ v \in V /\ \A x \in V : x =< v
    BY <2>1, <2>2
  <2> HIDE DEF V
  <2>4. Max(V) \in V /\ Max(V) \in Int /\ \A x \in V : x =< Max(V)
    BY <2>1, <2>3, BoundedMax
  <2>5. v = Max(V)
    BY <2>1, <2>3, <2>4
  <2> QED
    BY <2>5 DEF v, V
<1> QED
  BY <1>1, LoopInvariant, PTL

\* Unless a write was cut short, every episode knows every state that was ever written.
THEOREM StatesSurvive == Spec => []KnownStatesSurvive
<1>1. IInv => KnownStatesSurvive
  BY DEF IInv, ArchiveInv, Later, KnownStatesSurvive
<1> QED
  BY <1>1, LoopInvariant, PTL

\* The counters of a state on disk never fall while the state is on disk, whether a
\* snapshot is written whole, cut short, or loaded and written again.
THEOREM CountersNeverFall == Spec => RevisitsAreRemembered
<1> DEFINE Kept == \A s \in DOMAIN disk.states \cap DOMAIN disk'.states :
                     /\ disk'.states[s].selections >= disk.states[s].selections
                     /\ disk'.states[s].visits >= disk.states[s].visits
<1>1. ASSUME IInv, Next PROVE Kept \/ disk' = disk
  <2>1. CASE WriteSnapshot
    BY <1>1, <2>1, WriteIInv DEF Later
  <2>2. CASE CrashWhileWriting
    BY <1>1, <2>2, CrashWhileWritingIInv
  <2>3. CASE ~WriteSnapshot /\ ~CrashWhileWriting
    BY <1>1, <2>3 DEF Next, Proceed, LoadFails, StartEpisode, RestoreFails, RestoreSucceeds,
       ExploreBranch, FinishExploration, InsertTrajectory, UpdateArchive, BudgetSpent, Close,
       Crash, diskVars
  <2> QED
    BY <2>1, <2>2, <2>3
<1>2. ASSUME IInv, disk' = disk PROVE Kept
  <2> DEFINE old == disk.states
  <2>1. old \in Archives /\ disk'.states = old
    BY <1>2 DEF IInv, ArchiveInv
  <2> HIDE DEF old
  <2>2. \A s \in DOMAIN old : old[s].selections \in Nat /\ old[s].visits \in Nat
    BY <2>1, ArchiveFacts DEF ArchivedStates
  <2> QED
    BY <2>1, <2>2 DEF old
<1>3. IInv /\ [Next]_vars => [Kept]_vars
  BY <1>1, <1>2
<1>4. Spec => [][Kept]_vars
  BY <1>3, LoopInvariant, PTL DEF Spec
<1> QED
  BY <1>4 DEF RevisitsAreRemembered

\* Between the refresh and the next insertion, archive and frontier agree: no retained
\* trajectory is missing from the archive, no evicted one is cited, and the best
\* achieved value is that of the best retained trajectory.
THEOREM ArchiveAgreesWithFrontier == Spec => []ArchiveReflectsFrontier
<1>1. IInv /\ AgreeInv => ArchiveReflectsFrontier
  <2> SUFFICES ASSUME IInv, AgreeInv, Refreshed
               PROVE  /\ \A s \in DOMAIN archive : archive[s].support \subseteq {e.id : e \in entries}
                      /\ \A id \in DOMAIN paths : \A i \in 1..Len(paths[id]) :
                           LET s == StateId[paths[id][i].world]
                           IN  s \in DOMAIN archive /\ id \in archive[s].support
                      /\ Max({archive[s].achieved : s \in DOMAIN archive}) = Top
    BY DEF ArchiveReflectsFrontier, Top
  <2>1. /\ Agrees(archive) /\ FrontierInv /\ FP!IInv /\ entries # {}
        /\ DOMAIN paths = DOMAIN trajectories
    BY DEF AgreeInv, IInv, FrontierInv, Refreshed
  <2>2. /\ DOMAIN paths = {e.id : e \in entries}
        /\ \A e \in entries : e.value \in Int /\ trajectories[e.id] = e.value
    BY <2>1, FrontierFacts
  <2>3. /\ Top \in Nat /\ \A e \in entries : e.value =< Top
        /\ Top = 0 \/ \E e \in entries : e.value = Top
    BY <2>1, TopFacts
  <2>4. PICK e \in entries : Top = 0 \/ e.value = Top
    BY <2>1, <2>3
  <2> DEFINE id == e.id
             p == paths[id]
  <2>5. id \in DOMAIN paths /\ p \in Paths /\ TrajectoryValue(p) = e.value
    BY <2>1, <2>2, TopBoundsTheRetained DEF FrontierInv
  <2> HIDE DEF p
  <2>6. PICK i \in 1..Len(p) : Cumulative(p, i) = e.value
    BY <2>5, ValueIsInt
  <2> DEFINE s == StateId[p[i].world]
             A == {archive[u].achieved : u \in DOMAIN archive}
  <2>7. s \in DOMAIN archive /\ archive[s].achieved >= e.value
    BY <2>1, <2>5, <2>6 DEF Agrees, p
  <2> HIDE DEF s
  <2>8. archive[s].achieved \in 0..Top
    BY <2>1, <2>7 DEF Agrees
  <2>9. archive[s].achieved = Top
    BY <2>2, <2>3, <2>4, <2>7, <2>8
  <2>10. A \in SUBSET Int /\ Top \in A /\ \A x \in A : x =< Top
    <3>1. \A u \in DOMAIN archive : archive[u].achieved \in 0..Top
      BY <2>1 DEF Agrees
    <3> QED
      BY <2>3, <2>7, <2>9, <3>1
  <2> HIDE DEF A
  <2>11. A # {} /\ Top \in Int
    BY <2>3, <2>10
  <2>12. Max(A) \in A /\ Max(A) \in Int /\ \A x \in A : x =< Max(A)
    BY <2>10, <2>11, BoundedMax
  <2>13. Max(A) = Top
    BY <2>10, <2>11, <2>12
  <2> QED
    BY <2>1, <2>2, <2>13 DEF Agrees, A
<1> QED
  BY <1>1, LoopInvariant, AgreementInvariant, PTL

\* Without a language model nothing is promised that no retained trajectory reached:
\* what stale analyses and reloaded states promised does not outlive the best trajectory.
THEOREM PromisesWereReached == Spec => []PotentialWasReached
<1>1. AgreeInv => PotentialWasReached
  BY DEF AgreeInv, Modest, PotentialWasReached, Top
<1> QED
  BY <1>1, AgreementInvariant, PTL

\* The actions that an archived state is restored by lead to that state from one that
\* a reset can produce, and its native snapshot is one of it, whatever was merged,
\* evicted, written, cut short and loaded again.  Nothing is assumed of the resets,
\* and of the game only where native snapshots are used: merge_archived_states may
\* there keep the actions of one entry and the snapshot of another.
THEOREM ReplaysReachTheirStates == Spec => [](IdsFollowMoves => ReplayReachesTheState)
<1>1. RunInv => ReplayReachesTheState
  <2> SUFFICES ASSUME RunInv, NEW states \in {archive, disk.states}, NEW s \in DOMAIN states
               PROVE  /\ CanLeadTo(states[s].replay, s)
                      /\ states[s].native # NoNative => StateId[states[s].native] = s
    BY DEF ReplayReachesTheState
  <2>1. <<s, states[s]>> \in Reaching
    BY DEF RunInv, Holds
  <2> QED
    BY <2>1 DEF Reaching
<1>2. (IdsFollowMoves => RunInv) => (IdsFollowMoves => ReplayReachesTheState)
  BY <1>1
<1> QED
  BY <1>2, RunInvariant, PTL

\* A trajectory of the frontier is one play of the game from where its prefix began to
\* where its branch ended, through restores, evictions, merges, deaths of the process and
\* several episodes over one archive (_prefix_steps_for_archived_state,
\* _combined_branch_steps).  The hypothesis is needed: where episodes share an id the prefix
\* is that of another trajectory, and a state without a text is restored by a bare reset.
THEOREM FrontierHoldsWholeTrajectories == Spec => [](WholeGame => TrajectoriesAreWhole)
<1>1. WholeInv => TrajectoriesAreWhole
  BY DEF WholeInv, PathsInv, Whole, TrajectoriesAreWhole
<1> QED
  BY <1>1, WholeInvariant, PTL
=============================================================================
