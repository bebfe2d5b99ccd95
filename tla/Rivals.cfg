SPECIFICATION Spec
CONSTANTS
  r1 = r1
  r2 = r2
  r3 = r3
  Nil = Nil
  Replica <- Three
  SuperMajority = 0
  Founder = r1
  InitMembership <- ThreeVoters
  MinVoting = 3
  MaxVoting = 3
  Chunk = 1
  Space <- Roomy
  Elections <- Rivals
  Heartbeats <- Never
  Writes <- RivalWrites
  Handovers <- Never
  Proposals <- AnyChanges
  MaxLog = 3
  Lossy <- Links13
  MaxResets = 1
  MaxCrashes = 0
INVARIANTS
  StateMachineSafety
  AcknowledgedPromisesHold
  AnswersMatchLeaderLog
PROPERTIES
  PromisesKept
CHECK_DEADLOCK FALSE
ACTION_CONSTRAINT PartitionedUntilTerm5
