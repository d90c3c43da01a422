SPECIFICATION Spec
CONSTANTS
  t1 = t1
  t2 = t2
  t3 = t3
  Ids <- MCIds
  Values <- MCValues
  Bonuses <- MCBonuses
  MaxSize = 2
  EnableTiebreak = TRUE
  MaxInsertions = 4
INVARIANTS
  TypeOK
  TableMatchesEntries
  FullWhenDropping
  RetainsTheBest
PROPERTY KeepsPromise
