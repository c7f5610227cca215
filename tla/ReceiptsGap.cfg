SPECIFICATION RSpec
CONSTANTS
  Sessions = {s1}
  Requests = {r1, r2}
  ClientSequences = {}
  MaxInFlight = 1
  MaxFaults = 1
  LastMayFail = FALSE
  AnchorMayFail = FALSE
SYMMETRY RequestSymmetry
INVARIANTS EveryEventHasProof
CHECK_DEADLOCK FALSE
