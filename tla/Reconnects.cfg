SPECIFICATION FairSpec
CONSTANTS
  r1 = r1
  r2 = r2
  r3 = r3
  Nil = Nil
  Replica <- Three
  SuperMajority = 0
  Founder = r1
  InitMembership <- ThreeVoters
  MinVoting = 3
  MaxVoting = 3
  Chunk = 1
  Space <- Roomy
  Elections <- FirstTwo
  Heartbeats <- Always
  Writes <- Term2
  Handovers <- Never
  Proposals <- AnyChanges
  MaxLog = 3
  Lossy <- Links12
  MaxResets = 1
  MaxCrashes = 0
INVARIANTS
  AcknowledgedEntriesHold
PROPERTIES
  Converges
CHECK_DEADLOCK FALSE
