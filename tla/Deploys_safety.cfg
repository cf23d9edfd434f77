SPECIFICATION FairSpec
CONSTANTS
  MaxPush = 3
  Migration = {1, 2}
  Tree <- MCTree
INVARIANTS
  TypeOK
  MissingMigrationHasCause
  NothingLeftBehind
PROPERTIES
  ServedMovesForward
  EveryPushSettles
CHECK_DEADLOCK FALSE
