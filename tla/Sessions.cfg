SPECIFICATION FairSpec
CONSTANTS
  Handshakes = {1, 2, 3, 4, 5, 6}
  MaxData = 2
  Incidents = {"join", "hasty", "unattested", "expired", "dropped", "abandoned"}
  MaxIncidents = 4
INVARIANTS
  SplitNoticed
  NothingMissing
PROPERTIES
  ReestablishesUnlessUnanswered
CHECK_DEADLOCK FALSE
