SPECIFICATION LiveSpec
CONSTANTS
  NULL = NULL
  VoteAccounts = {v1, v2}
  Requests = {q1, q2}
  Entries = {1, 2}
  MaxVersion = 1
  MaxRestarts = 1
  CallsCanFail = TRUE
INVARIANTS TypeOK DuplicatesExplained RequestKept
PROPERTY RefreshedInTheEnd
