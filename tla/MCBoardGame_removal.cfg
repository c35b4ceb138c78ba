CONSTANTS
  Width = 3
  Height = 4
  Minoes <- DotPair
SPECIFICATION FairSpec
PROPERTY OnlyRemovedRowsGo
