SPECIFICATION RSpec
CONSTANTS
  Sessions = {s1, s2}
  Requests = {r1, r2, r3}
  ClientSequences = {}
  MaxInFlight = 3
  MaxFaults = 1
  LastMayFail = TRUE
  AnchorMayFail = TRUE
SYMMETRY RequestSymmetry
INVARIANTS RecordNeverConflicts GapFreeAtRest Inv InclusionIffNoGapBelow VerdictMeansAnchored
CHECK_DEADLOCK FALSE
