SPECIFICATION Spec
CONSTANTS
  r1 = r1
  r2 = r2
  r3 = r3
  Nil = Nil
  Replica <- Three
  SuperMajority = 0
  Founder = r1
  InitMembership <- ThreeVoters
  MinVoting = 2
  MaxVoting = 3
  Chunk = 2
  Space <- Roomy
  Elections <- Successor
  Heartbeats <- Never
  Writes <- Never
  Handovers <- Never
  Proposals <- Changes
  MaxLog = 4
  Lossy <- Never
  MaxResets = 0
  MaxCrashes = 0
ACTION_CONSTRAINT SucceedsOrGoesOn
INVARIANTS
  AcknowledgedPromisesHold
  OnePendingChange
  LogMatching
  IndInv
CHECK_DEADLOCK FALSE
