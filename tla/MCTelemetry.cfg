SPECIFICATION FairSpec
CONSTANTS
  MaxItems = 2
  MaxBytes = 3
  Sizes = {1, 3}
  MaxMade = 4
  MaxStops = 2
INVARIANTS MemoryBounded NoneVanishes
PROPERTIES Implements Drains
