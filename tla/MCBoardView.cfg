CONSTANTS
  Heights = {1, 2}
  Landed <- MCLanded
  Requests = {r1, r2}
  MaxIncidents = 1
SPECIFICATION FairSpec
INVARIANTS TypeOK AloneIsSafe
PROPERTIES GhostsFade
CHECK_DEADLOCK FALSE
