SPECIFICATION LiveSpec
CONSTANTS
  Server = Server
  Script = Script
  FirstEpoch = 1
  FinalEpoch = 4
  SlotsInEpoch = 3
  CallsCanFail = FALSE
  MaxRestarts = 1
  MaxScriptRuns = 0
  NULL = NULL
PROPERTIES CurrentEpochServed
