SPECIFICATION Spec
CONSTANTS
  Worlds <- MCWorlds
  Actions <- MCActions
  Starts <- MCStarts
  SeededStart = "field"
  Move <- MCMove
  Raises <- MCRaises
  Observation <- MCObservation
  Inventory <- MCInventory
  Score <- MCScore
  Terminal <- MCTerminal
  NativeSnapshots = TRUE
  ReadsObservation = TRUE
  Valid <- MCValid
  Movement <- MCMovement
  Inverses <- MCInverses
  Opposites <- MCInverses
  Targets <- MCTargets
  Nouns <- MCNouns
  Items <- MCItems
  Cluster <- MCCluster
  Lookalikes <- MCLookalikes
  ImmediateInversePenalty = 75
  RepeatedPairPenalty = 50
  ReversiblePenalty = 100
  RepeatedMovementPenalty = 40
  MovementCyclePenalty = 75
  SameRegionPenalty = 35
  FrontierMaxSize = 3
  SnapshotRetentionLimit = 1
  NoveltyWeight = 75
  FamilyRepeatPenalty = 50
  TrivialPenalty = 50
  OscillatingPenalty = 100
  TogglePenalty = 75
  FamilySaturation = 50
  ClusterSaturation = 75
  StateSaturation = 100
  HashOrder <- MCHashOrder
  SummaryWords <- MCSummaryWords
  SimilarityThreshold = 28
  StructuralTokens <- MCHouse
  House = "house"
  Followups <- MCTake
  Takes <- MCTake
  Openings <- Nothing
  Enterings <- Nothing
  BulkActions <- Nothing
  DiscardActions <- Nothing
  MinOpportunityPriority = 75
  VisitExhaustionThreshold = 1
  FamilyStallThreshold = 2
  MaxSteps = 6
  MaxReplayAttempts = 2
  RefreshCadence = 2
  ExplorationCadence = 2
  PostGainCooldown = 1
  BranchCommitSteps = 1
  FailFastNoDurable = 5
  FailFastMovement = 3
  RolloutDepth = 2
  SelectorTopK = 2
  Toggles <- Nothing
CHECK_DEADLOCK FALSE
INVARIANTS
  TypeOK
  OnePlaythrough
  DriftCountsPlanning
  NeverStallsUnnoticed
  NothingLostWhileRoom
  DistinctEntries
  ResolvedExitWasTraversed
  ExhaustionIsEarned
PROPERTY QuietAfterGain
