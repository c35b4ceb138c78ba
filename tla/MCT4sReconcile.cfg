CONSTANTS
  Specs <- MCSpecs
  Minoes <- MCMinoes
  Children <- MCChildren
  MaxGames = 1
  MaxIncidents = 2
SPECIFICATION FairSpec
INVARIANTS TypeOK QuietChildrenMatch
PROPERTIES OnlyWaitChanges BoardFollowsT4s
CHECK_DEADLOCK FALSE
