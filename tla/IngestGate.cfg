SPECIFICATION FairSpec
CONSTANTS
  Requests = {r1, r2}
  Devices = {d1, d2}
  Limit = 2
  Window = 2
  CacheLife = 2
  MaxFaults = 1
INVARIANTS TypeOK TwiceTheLimit
PROPERTIES LockoutEnds RevokedEnds
