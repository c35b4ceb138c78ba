CONSTANTS
  Users = {u1, u2}
  Names = {"a", "b"}
  SizeOf <- MCSizeOf
  MaxT4s = 2
  MaxIncidents = 2
SPECIFICATION FairSpec
INVARIANTS TypeOK
PROPERTIES KnownT4sKeepsOthersOut NamespaceReopens LastT4sHasBoard NothingLeftBehind
CHECK_DEADLOCK FALSE
