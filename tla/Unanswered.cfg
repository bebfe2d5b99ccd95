SPECIFICATION FairSpec
CONSTANTS
  Handshakes = {1, 2, 3, 4}
  MaxData = 1
  Incidents = {"unattested"}
  MaxIncidents = 1
PROPERTIES
  Reestablishes
CHECK_DEADLOCK FALSE
