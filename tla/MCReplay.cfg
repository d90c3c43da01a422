SPECIFICATION Spec
CONSTANTS
  Worlds <- MCWorlds
  Actions <- MCActions
  Starts <- MCStarts
  SeededStart = "field"
  Move <- MCMove
  Raises <- MCRaises
  Observation <- MCObservation
  Inventory <- MCInventory
  Score <- MCScore
  Terminal <- MCTerminal
  NativeSnapshots = TRUE
  ReadsObservation = FALSE
  MaxHistory = 2
  MaxNodes = 2
INVARIANTS
  TypeOK
  HistoryExplainsWorld
  NoFalseDivergence
PROPERTY SuccessMeansAtTheNode
