CONSTANTS
  AbsentAfter = 1
  Finishers = {"f1"}
  MaxAttempts = 2
  MaxPending = 1
  MaxGames = 2
  MaxDelays = 0
  BusCap = 0
SPECIFICATION Spec
INVARIANTS TypeOK GivenUpRests
PROPERTIES LeavesAccountedFor
