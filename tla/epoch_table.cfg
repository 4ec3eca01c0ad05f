SPECIFICATION LiveSpec
CONSTANTS
  Server = Server
  Script = Script
  FirstEpoch = 1
  FinalEpoch = 4
  SlotsInEpoch = 3
  CallsCanFail = TRUE
  MaxRestarts = 1
  MaxScriptRuns = 1
  NULL = NULL
INVARIANTS TypeOK NeverAhead ActiveBegun TrackedHasRow SlotsDoNotDrift
PROPERTIES TableKept CurrentEpochActive
