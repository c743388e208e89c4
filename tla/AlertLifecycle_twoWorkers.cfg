SPECIFICATION Spec
CONSTANTS
  Workers = {w1, w2}
  Users = {u1}
  MaxFlips = 1
  MaxAborts = 0
  MaxExpiries = 0
INVARIANTS AtMostOneActive
