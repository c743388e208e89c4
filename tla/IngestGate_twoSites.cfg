SPECIFICATION Spec
CONSTANTS
  Requests = {r1}
  Devices = {d1, d2}
  Limit = 3
  Window = 2
  CacheLife = 3
  MaxFaults = 0
PROPERTIES OwnKeyIsAccepted
