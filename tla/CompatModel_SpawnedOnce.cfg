SPECIFICATION ModelSpec
CONSTANTS
  MaxChanges = 3
  MaxRefreshes = 1
  MaxLosses = 1
  MaxFailures = 1
INVARIANT SpawnedOnce
CHECK_DEADLOCK FALSE
