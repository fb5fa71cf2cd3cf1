CONSTANTS
  AbsentAfter = 1
  Finishers = {"f1"}
  MaxAttempts = 2
  MaxPending = 1
  MaxGames = 1
  MaxDelays = 1
  BusCap = 1
SPECIFICATION FairSpec

PROPERTIES Settles
