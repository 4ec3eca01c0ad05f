CONSTANTS
  MaxEvents = 1
  WideFields = {}
  CallsCanFail = FALSE
  MaxCrashes = 0
  NULL = NULL
SPECIFICATION LiveSpec
PROPERTY DelegationsSaved
