CONSTANTS
  MaxEvents = 2
  WideFields = {"totalVirtualStakedLamports", "state.totalActiveBalance", "validatorActiveBalance"}
  CallsCanFail = TRUE
  MaxCrashes = 1
  NULL = NULL
SPECIFICATION LiveSpec
INVARIANTS TypeOK StoresAgree PoisonIsKnown
PROPERTIES LogImplemented EndsRunOut EveryHandlerEnds
