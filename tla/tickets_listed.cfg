SPECIFICATION Spec
CONSTANTS
  NULL = NULL
  Tickets = {t1}
  Times = {soon}
  Requests = {}
  CallsCanFail = FALSE
  MaxCrashes = 0
INVARIANT ClaimedNotListed
CHECK_DEADLOCK FALSE
