SPECIFICATION Spec
CONSTANTS
  Worlds <- MCWorlds
  Actions <- MCActions
  Starts = {"field"}
  SeededStart = "field"
  Move <- MCMove
  Raises = {}
  Observation <- MCObservation
  Inventory <- MCInventory
  Score <- MCScore
  Terminal <- MCTerminal
  NativeSnapshots = TRUE
  ReadsObservation = TRUE
  StateId <- MCStateId
  NoValue = NoValue
  Summary <- MCSummary
  EpisodeIds = {1, 2}
  EpisodeOf <- FreshIds
  MaxRuns = 2
  MaxSteps = 2
  MaxReplayAttempts = 1
  BranchesPerRoot = 2
  RolloutDepth = 2
  BranchPatience = 1
  FrontierSize = 1
  EnableAnalysis = TRUE
  AnalysisFrequency = 1
  AnalysisAnswers = {}
  ListedStates = 3
  NamedStates = 2
  CitedTrajectories = 1
  SaturationLevels = {0}
  Weights <- MCWeights
  EnablePotential = TRUE
  AssistedByModel = TRUE
  PromptLimit = 2
  MaxCycles = 5
INVARIANTS
  ReplayReachesTheState
  ArchiveReflectsFrontier
  KnownStatesSurvive
  PotentialWasReached
PROPERTY RevisitsAreRemembered
CHECK_DEADLOCK FALSE
