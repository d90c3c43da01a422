SPECIFICATION FairSpec
CONSTANTS
  Tasks <- MCTasks
  MaxRetries = 2
  MaxCalls = 2
  MaxAttempts = 5
INVARIANTS
  TypeOK
  CountsAddUp
  BoundedDuplication
  RefusedIsNotRepeated
PROPERTY CallEnds
CHECK_DEADLOCK FALSE
