SPECIFICATION LiveSpec
CONSTANTS
  r1 = r1
  r2 = r2
  r3 = r3
  r4 = r4
  r5 = r5
  r6 = r6
  v1 = v1
  v2 = v2
  NULL = NULL
  Rows = {r1, r2, r3, r4, r5, r6}
  InitialRows = {r1, r3, r6}
  VoteAccounts = {v1, v2}
  Rank <- MCRank
  Malformed = {r5}
  Limit = 2
INVARIANTS TypeOK NoItemSkipped RepeatsBounded ReportedTotal WorkBounded
PROPERTIES WorkShrinks EveryCallEnds
