SPECIFICATION HeldSpec
CONSTANTS
  Addresses = {a1, a2}
  MaxHolds = 3
  MaxGaps = 0
  MaxFailures = 0
  MaxDeclines = 1
INVARIANT DeclinedNotAnnounced
CHECK_DEADLOCK FALSE
