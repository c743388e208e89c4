SPECIFICATION FairSpec
CONSTANTS
  Workers = {w1, w2}
  Users = {}
  MaxFlips = 2
  MaxAborts = 1
  MaxExpiries = 0
INVARIANTS EventsAreTrue
PROPERTIES LastingBreachIsAlerted RuleTakesEffect
