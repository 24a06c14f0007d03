SPECIFICATION GraphSpec
CONSTANTS
  Addresses = {a1, a2}
  Channels = {1, 2}
  Tasks = {w1, w2}
  Slots = 1
  MaxDevices = 1
  MaxPairings = 3
  MaxGaps = 1
  MaxFailures = 1
INVARIANTS WalkRemovesGhosts
CHECK_DEADLOCK FALSE
