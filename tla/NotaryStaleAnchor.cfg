SPECIFICATION Spec
CONSTANTS
  Sessions = {s1}
  Requests = {r1, r2, r3}
  ClientSequences = {}
  MaxInFlight = 2
  MaxFaults = 0
  LastMayFail = FALSE
SYMMETRY RequestSymmetry
INVARIANTS AnchorCurrentAtRest
CHECK_DEADLOCK FALSE
