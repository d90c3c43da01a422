SPECIFICATION FairSpec
CONSTANTS
  Worlds <- MCWorlds
  Actions <- MCActions
  Starts = {"field"}
  SeededStart = "field"
  Move <- MCMove
  Raises = {}
  Observation <- MCObservation
  Inventory <- MCInventory
  Score <- MCScore
  Terminal <- MCTerminal
  NativeSnapshots = FALSE
  ReadsObservation = TRUE
  StateId <- MCStateId
  NoValue = NoValue
  Summary <- MCSummary
  EpisodeIds = {1, 2}
  EpisodeOf <- FreshIds
  MaxRuns = 1
  MaxSteps = 3
  MaxReplayAttempts = 1
  BranchesPerRoot = 2
  RolloutDepth = 1
  BranchPatience = 1
  FrontierSize = 2
  EnableAnalysis = FALSE
  AnalysisFrequency = 1
  AnalysisAnswers = {}
  ListedStates = 3
  NamedStates = 2
  CitedTrajectories = 1
  SaturationLevels = {0}
  Weights <- MCWeights
  EnablePotential = TRUE
  AssistedByModel = FALSE
  PromptLimit = 6
  MaxCycles = 6
PROPERTY EpisodeEnds
CHECK_DEADLOCK FALSE
