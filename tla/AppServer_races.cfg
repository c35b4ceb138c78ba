CONSTANTS
  Requests = {r1, r2}
  Others = {"t4s", "foreground", "restart", "timeout"}
  MaxBoards = 4
  MaxFaults = 2
SPECIFICATION FairSpec
INVARIANT TypeOK
PROPERTIES NewGameRepairsOwner NewGameSucceeds RefusesForGoodReason
CHECK_DEADLOCK FALSE
