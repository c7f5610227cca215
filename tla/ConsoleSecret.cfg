SPECIFICATION MCSpec
CONSTANTS
  ann = ann
  bob = bob
  Accounts = {ann, bob}
  None = none
  Slots = {s1, s2}
  MaxMoves = 1
  MaxFaults = 0
  PageSize = 2
  Projects = {1, 2, 3, 4}
  Rows = {1, 2, 3, 4, 5, 6}
  Owns <- MCOwns
  RowsOf <- MCRowsOf
  LateRows = {4}
  Issued <- MCIssued
  Proofs = {2, 6}
  MaxEvents = 4
  Queries <- MCQueries
  Tallies <- MCTallies
  MaxKeys = 2
  MaxFrames = 1
  MaxClicks = 4
  MaxRefused = 0
CONSTRAINT FewEvents
INVARIANT SecretShownUntilClosed
CHECK_DEADLOCK FALSE
