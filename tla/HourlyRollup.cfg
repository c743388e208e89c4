SPECIFICATION Spec
CONSTANTS
  Devices = {d1, d2}
  Runs = {r1, r2}
  MaxHour = 2
  MaxReadings <- UpTo
  MaxFaults = 1
SYMMETRY Alike
INVARIANTS TypeOK AggregatesAreTrue
PROPERTIES AggregatesAreFinal SuccessIsComplete
