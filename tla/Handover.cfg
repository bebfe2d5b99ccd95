SPECIFICATION FairSpec
CONSTANTS
  r1 = r1
  r2 = r2
  r3 = r3
  Nil = Nil
  Replica <- Three
  SuperMajority = 0
  Founder = r1
  InitMembership <- ThreeVoters
  MinVoting = 3
  MaxVoting = 3
  Chunk = 1
  Space <- Roomy
  Elections <- Term1
  Heartbeats <- Always
  Writes <- Never
  Handovers <- Term2
  Proposals <- AnyChanges
  MaxLog = 3
  Lossy <- Never
  MaxResets = 0
  MaxCrashes = 0
PROPERTIES
  HandsOver
CHECK_DEADLOCK FALSE
