CONSTANTS
  Width = 3
  Height = 3
  Minoes <- OneDot
  ActionOps <- DownAndRotate
  MaxActions = 0
  MaxBoards = 2
  MaxWait = 1
  MaxIncidents = 0
SPECIFICATION FairSpec
INVARIANT QuietCronMatchesBoard
CHECK_DEADLOCK FALSE
