SPECIFICATION MSpec
CONSTANTS
  Sessions = {s1}
  Requests = {r1, r2, r3, r4}
  ClientSequences = {}
  MaxInFlight = 1
  MaxFaults = 1
  LastMayFail = FALSE
  AnchorMayFail = FALSE
  Data = {"a", "b", "c", "d", "e"}
  MaxLeaves = 5
SYMMETRY RequestSymmetry
INVARIANTS
  ChainLinked AnchorCurrentAtRest ReceiptsVerifyAtRest
  PathVerifies OnlyItsLeafVerifies RootBindsList
CHECK_DEADLOCK FALSE
