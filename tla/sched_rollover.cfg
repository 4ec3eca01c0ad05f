SPECIFICATION Spec
CONSTANTS
  SlotsInEpoch = 3
  SLOTS_FOR_STAKE_DELTA = 1
  SLOTS_FOR_UPDATE_CRANKS = 0
  FirstEpoch = 1
  NULL = NULL
  Ticks = {t1, t2}
  FinalEpoch = 2
  RpcCanFail = FALSE
  MaxRestarts = 0
PROPERTIES StartsAfterTarget
