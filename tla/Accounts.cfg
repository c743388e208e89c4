\* Two of: two admins who remove each other, two refreshes with one token, two founders.
SPECIFICATION Spec
CONSTANTS
  Orgs = {o1, o2}
  Emails = {e1, e2}
  Requests = {r1, r2}
  NoRequest = none
  MaxRequests = 5
SYMMETRY Symmetry
INVARIANTS TypeOK SessionsDoNotMultiply
PROPERTIES AdminsRemain RemovalIsFinal
