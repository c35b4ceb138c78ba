CONSTANTS
  Width = 3
  Height = 3
  Minoes <- OneDot
  ActionOps <- DownAndRotate
  MaxActions = 2
  MaxBoards = 2
  MaxWait = 2
  MaxIncidents = 1
SPECIFICATION FairSpec
INVARIANTS TypeOK AtMostOnce QuietBoardIsReconciled OnlyCollectorLosesCron
PROPERTIES ImplementsGame ComesToRest MinoComesDown
CHECK_DEADLOCK FALSE
