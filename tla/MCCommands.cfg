CONSTANTS
  Games = {1, 2, 3}
  Handshake = 1
  MaxErrors = 2
  Ids = {"sync", "resync", "reboot"}
  Runners = {"r1", "r2"}
SPECIFICATION FairSpec
INVARIANTS TypeOK FiledAsAsked OneMoreAtMost NoneRunsAgain DoneMeansTried
PROPERTY CommandsEnd
