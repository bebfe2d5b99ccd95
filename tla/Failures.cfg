SPECIFICATION Spec
CONSTANTS
  r1 = r1
  r2 = r2
  r3 = r3
  Nil = Nil
  Replica <- Three
  SuperMajority = 0
  Founder = r1
  InitMembership <- ThreeVoters
  MinVoting = 3
  MaxVoting = 3
  Chunk = 2
  Space <- Tight
  Elections <- Split
  Heartbeats <- Never
  Writes <- Term2
  Handovers <- Never
  Proposals <- AnyChanges
  MaxLog = 3
  Lossy <- Never
  MaxResets = 0
  MaxCrashes = 1
INVARIANTS
  ElectionSafety
  CommittedByQuorum
  IndexOrder
  AppliedEntryStored
PROPERTIES
  OneVotePerTerm
CHECK_DEADLOCK FALSE
