\* Storable entries and entries that COPY refuses; workers may fail at any await.
SPECIFICATION FairSpec
CONSTANTS
  Workers = {w1, w2}
  MaxEntries = 3
  MaxLen = 3
  BatchSize = 2
  Kinds = {"good", "unstorable"}
  CrashPoints = {"loop", "read", "process", "ack", "sleep"}
  FailPoints = {"loop", "read", "process", "ack"}
  MaxFaults = 1
PROPERTIES StoredUnlessPoisoned
