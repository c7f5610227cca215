SPECIFICATION CSpec
CONSTANTS
  Sessions = {s1}
  Requests = {r1}
  ClientSequences = {}
  MaxInFlight = 1
  MaxFaults = 1
  LastMayFail = FALSE
  Grants = {g1, g2, g3}
  Projects = {p1, p2}
  Callers = {alice, agent}
  Users = {alice}
  p1 = p1
  p2 = p2
  alice = alice
  agent = agent
  Access <- AgentInOne
  Requested <- Forms
  Actions <- Pay
  SeedConfigured = FALSE
SYMMETRY Symmetric
INVARIANTS RecordedUnderLiveGrants RecordedWithinAuthority OneProject
CHECK_DEADLOCK FALSE
