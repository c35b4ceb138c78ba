CONSTANTS
  Width = 3
  Height = 7
  Minoes = {}
  Grids <- Numbered
SPECIFICATION LoopSpec
INVARIANTS LoopTypeOK UnreadRowsIntact LoopIsDropRows RowsFallPastRemoved
CHECK_DEADLOCK FALSE
