SPECIFICATION Spec
CONSTANTS
  Worlds <- MCWorlds
  Actions <- MCActions
  Starts <- MCStarts
  SeededStart <- MCRoot
  Root <- MCRoot
  Move <- MCMove
  Raises <- Nothing
  Observation <- MCObservation
  Inventory <- MCInventory
  Score <- MCScore
  Terminal <- MCTerminal
  NativeSnapshots = TRUE
  ReadsObservation = TRUE
  Valid <- MCValid
  Movement <- MCMovement
  Inverses <- MCInverses
  Opposites <- MCInverses
  Targets <- MCTargets
  Nouns <- MCNouns
  Items <- MCItems
  Cluster <- MCCluster
  Lookalikes <- Nothing
  ImmediateInversePenalty = 75
  RepeatedPairPenalty = 100
  ReversiblePenalty = 100
  RepeatedMovementPenalty = 100
  MovementCyclePenalty = 125
  SameRegionPenalty = 75
  CommitThreshold = 10000
  MovementCap = 5000
  ScoreWeight = 10000
  InventoryWeight = 10000
  AffordanceWeight = 3500
  ExitWeight = 10000
  LocationWeight = 10000
  ObjectWeight = 2500
  RoomTextWeight = 1000
  LoopReductionPercent = 50
  InventoryLossPenalty = 12500
  InventoryChurnPenalty = 20000
  PostGainChurnPenalty = 12500
  AggressivePenalty = 15000
  SpeculativePenalty = 7500
  PrefixHorizon = 3
  HistoryLimit = 2
  NoveltyBonus = 7500
  DepthBonus = 5000
  ReplayPenalty = 7500
  Proposals <- MCProposals
  Words <- MCNouns
  Locations <- MCLocations
  BulkActions <- Nothing
  DiscardActions <- Nothing
  AggressiveActions <- MCAggressive
  ComplexActions <- Nothing
  BestKnownScores <- MCBestKnown
  Answers <- MCAnswers
  NameOrder <- MCNameOrder
  LessonLimit = 1
  BranchCount = 2
  BranchHorizon = 2
  MaxVisits = 2
  MovementRatio = 75
  FamilyStallThreshold = 2
  FailFastPenalty = 30000
  FailFastMoves = 3
  FailFastBulk = 2
  FailFastChurn = 2
  FailFastPostScore = 2
  ScenePatience = 2
  CommitSteps = 2
CHECK_DEADLOCK FALSE
INVARIANT CommitKeepsTheGain
