CONSTANTS
  Width = 3
  Height = 4
  Minoes <- DotPairElbow
SPECIFICATION FairSpec
INVARIANTS StatusInv NoIndexPanic DropEnds DropThenDownLands
PROPERTIES FilledCellsChangeOnlyOnRemoval GameOverIsFinal MinoLands
