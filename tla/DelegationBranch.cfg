SPECIFICATION FairSpec
CONSTANTS
  Grants = {g1, g2, g3}
  Projects = {p1}
  Callers = {alice}
  Users = {alice}
  p1 = p1
  p2 = p2
  alice = alice
  agent = agent
  Access <- OneProject
  Requested <- ValueForms
  SeedConfigured = TRUE
  MaxKeys = 0
PROPERTIES RevokedBranchEnds
CHECK_DEADLOCK FALSE
