SPECIFICATION LiveSpec
CONSTANTS
  NULL = NULL
  Tickets = {t1}
  Times = {soon}
  Requests = {q1}
  CallsCanFail = TRUE
  MaxCrashes = 1
INVARIANTS TypeOK ClaimsExplained
PROPERTIES ChangesExplained ClaimReachesRow OrderKeptOrCrash
CHECK_DEADLOCK FALSE
