SPECIFICATION FairSpec
CONSTANTS
  MaxItems = 2
  MaxBytes = 3
  Sizes = {1, 3}
  MaxMade = 3
  MaxStops = 2
INVARIANT LossNeedsPressure
PROPERTIES Drains
