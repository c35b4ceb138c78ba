CONSTANTS
  MaxPeriod = 3
  Periods = {0, 1, 3}
  MaxWrites = 3
  MaxFaults = 1
SPECIFICATION FairSpec
INVARIANTS TypeOK HeartbeatArmed
PROPERTIES BeatsApart HeartbeatGoesOn HeartbeatStops
CHECK_DEADLOCK FALSE
