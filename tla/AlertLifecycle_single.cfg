\* The evaluator as dev.sh starts it, with an operator, a failure and a key that expires.
SPECIFICATION FairSpec
CONSTANTS
  Workers = {w1}
  Users = {u1}
  MaxFlips = 3
  MaxAborts = 1
  MaxExpiries = 1
INVARIANTS TypeOK Deduplicated
PROPERTIES ClearedAlertsEnd LastingBreachIsAlerted
