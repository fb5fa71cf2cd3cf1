SPECIFICATION Spec
CONSTANTS
  MaxItems = 2
  MaxBytes = 2
  Sizes = {1}
  MaxMade = 3
  MaxStops = 0
INVARIANT OnlyDealtWithLeaves
