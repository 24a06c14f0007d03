SPECIFICATION MCSpec
CONSTANTS
  MaxChanges = 3
  MaxRefreshes = 1
  MaxLosses = 1
  MaxFailures = 1
  Profiles = {"P1", "P2"}
  Weekdays = {"mon"}
  LockKeys = {"k1", "k2"}
  Editors = {"e1", "e2"}
  Reports = TRUE
  MaxEdits = 2
  MaxOutside = 1
  MaxLapses = 1
  CdpKinds = {"switch", "light", "cover", "blind", "garage", "climate", "lock", "siren", "valve", "display", "duration"}
  Callers = {"a", "b"}
  MaxCalls = 3
  MaxStages = 2
  MaxRefusals = 1
  Types = {"datapoint.value_changed", "device.availability_changed", "custom_data_point.state_changed", "alarm.health_changed"}
  MaxEvents = 2
  MaxRejects = 2
  MaxRaises = 1
  MaxReports = 2
  MaxPresets = 3
INVARIANTS   CommandsTakeEffect AppliedOnce EntitiesReadApplied EntityShowsTruth
PROPERTIES  EditKeepsOtherDays
CHECK_DEADLOCK FALSE
