SPECIFICATION WSpec
CONSTANTS
  Workers = {w1, w2}
  MaxEntries = 3
  MaxLen = 2
  BatchSize = 2
  MaxFaults = 1
  WindowSize = 2
  MinSamples = 2
  Threshold = 1
  Samples <- MCSamples
INVARIANTS TypeOK AtMostOnce AbandonedBounded SettledForAReason WindowIsLatest
PROPERTIES EveryReadingEnds NoVerdictAtMinimum
