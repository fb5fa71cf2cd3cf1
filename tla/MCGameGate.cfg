CONSTANTS
  Modes = {1, 3}
  Echoes = {TRUE}
  QueueCap = 2
  KeepCap = 2
  WireCap = 2
  BusCap = 2
  MaxChaos = 4
SPECIFICATION CheckSpec
INVARIANTS TypeOK ShutOnceTold ShutAfterTwoPolls NoPassOnceTold
