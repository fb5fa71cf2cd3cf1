CONSTANTS
  Modes = {1, 3, 11}
  PollInterval = 1
  IdlePollInterval = 2
  SlowPollInterval = 3
  MaxAge = 1
  MaxDiscards = 2
SPECIFICATION LoopSpec
INVARIANTS LoopTypeOK FreshIsRecent DiscardsAddUp
PROPERTY WithholdsOnlyRepeats
