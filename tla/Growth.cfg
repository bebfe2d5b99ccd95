SPECIFICATION Spec
CONSTANTS
  r1 = r1
  r2 = r2
  r3 = r3
  Nil = Nil
  Replica <- Three
  SuperMajority = 0
  Founder = r1
  InitMembership <- Alone
  MinVoting = 1
  MaxVoting = 3
  Chunk = 2
  Space <- Roomy
  Elections <- FounderTimers
  Heartbeats <- Never
  Writes <- Term1
  Handovers <- Never
  Proposals <- AnyChanges
  MaxLog = 4
  Lossy <- Never
  MaxResets = 0
  MaxCrashes = 0
INVARIANTS
  TypeOK
  FollowersAreMembers
PROPERTIES
  RefinesReplicatedLog
CHECK_DEADLOCK FALSE
