SPECIFICATION MCSpec
CONSTANTS
  Interfaces = {"i1", "i2"}
  HazardClasses = {"smoke"}
  Moving <- MCMoving
  MaxMessages = 1
  MaxMoves = 2
  MaxFetches = 2
  MaxMisses = 1
  Zones = {"z1", "z2"}
  FirstZones = {"z1", "z2"}
  Master = "master"
  MaxAlarms = 2
  MaxOutages = 1
  MaxCommands = 1
  Items <- MCItems
  FirstItems <- MCFirstItems
  MaxNews = 2
  MaxLosses = 1
  MaxReads = 2
INVARIANT MasterIsBestEffort
CHECK_DEADLOCK FALSE
