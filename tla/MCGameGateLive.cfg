CONSTANTS
  Modes = {1, 3, 11}
  Echoes = {TRUE, FALSE}
  QueueCap = 2
  KeepCap = 2
  WireCap = 1
  BusCap = 1
  MaxChaos = 3
SPECIFICATION FairSpec
PROPERTY Reopens
