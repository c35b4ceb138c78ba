CONSTANTS
  Requests = {r1, r2}
  Others = {}
  MaxBoards = 4
  MaxFaults = 0
SPECIFICATION FairSpec
INVARIANT Playable
CHECK_DEADLOCK FALSE
