\* Two failed calls, one of them the XACK behind a COMMIT.
SPECIFICATION FairSpec
CONSTANTS
  Workers = {w1}
  MaxEntries = 2
  MaxLen = 2
  BatchSize = 2
  Kinds = {"good"}
  CrashPoints = {}
  FailPoints = {"process", "ack"}
  MaxFaults = 2
PROPERTIES EveryReadingStored
