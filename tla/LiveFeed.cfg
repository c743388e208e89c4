SPECIFICATION FairSpec
CONSTANTS
  Sockets = {s1, s2}
  Channels = {telemetry, alerts}
  MaxEvents = 2
  MaxTasks = 2
  MaxFaults = 2
\* All browsers may have left for good.
CHECK_DEADLOCK FALSE
INVARIANTS TypeOK OneListener InOrder NoGaps
PROPERTIES GhostsLeave EventsArrive SilenceEnds
