SPECIFICATION FairSpec
CONSTANTS
  Sessions = {s1}
  Requests = {r1, r2, r3}
  ClientSequences = {1, 2}
  MaxInFlight = 2
  MaxFaults = 1
  LastMayFail = TRUE
INVARIANTS TypeOK AckedOnRecord
PROPERTIES LedgerSpec RequestsEnd CheckpointCoversRecord
CHECK_DEADLOCK FALSE
