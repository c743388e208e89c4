SPECIFICATION Spec
CONSTANTS
  Workers = {w1, w2}
  MaxEntries = 3
  MaxLen = 2
  BatchSize = 2
  Kinds = {"good", "malformed", "unstorable"}
  CrashPoints = {"loop", "read", "process", "ack", "sleep"}
  FailPoints = {"loop", "read", "process", "ack"}
  MaxFaults = 1
SYMMETRY WorkerSymmetry
INVARIANTS TypeOK SettledIsStored RowsAreDelivered Consistent
PROPERTIES SettledIsFinal ImplementsDelivery
