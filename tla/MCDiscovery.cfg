CONSTANTS
  Servers = {s1, s2}
  Addrs = {a1, a2}
  None = None
  TTL = 2
  MaxEntries = 3
  Selectors = {{s1}, {s1, s2}}
  Window = 1
  FollowAfter = 3
  MaxChaos = 2
SPECIFICATION FairSpec
INVARIANTS TypeOK IntruderIsKnown
PROPERTIES ChosenAlone LeavesOnlyTheGone SysflagIsTheServers FindsItsServer SaysWhyItWaits
