CONSTANTS
  Games = {1}
  MaxVersion = 3
  Pushers = {"p1", "p2", "p3"}
  Slots = 2
SPECIFICATION Spec
INVARIANTS TypeOK NewestKept
PROPERTY BackupKeepsUp
