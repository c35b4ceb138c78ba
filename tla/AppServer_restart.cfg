CONSTANTS
  Requests = {r1}
  Others = {"restart"}
  MaxBoards = 3
  MaxFaults = 1
SPECIFICATION FairSpec
PROPERTY NewGameStarts
CHECK_DEADLOCK FALSE
