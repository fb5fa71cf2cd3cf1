CONSTANTS
  Games = {1}
  TouchEvery = 2
  Retention = 3
  MaxNow = 4
  None = None
  MaxConns = 1
  MaxOpen = 3
SPECIFICATION ProxySpec
INVARIANTS ProxyTypeOK StoredIsServable ListedIsAnswered CappedButForBursts
PROPERTY KeepsSeen
